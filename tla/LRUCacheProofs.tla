--------------------------- MODULE LRUCacheProofs ---------------------------
(***************************************************************************)
(* What holds of LRUCache for every maxSize and every set of keys and      *)
(* values.  TypeOK, BooksAgree and GetNeverTraps are inductive together:   *)
(* that remove always finds its index (BooksAgree) and that a get casts    *)
(* only what a put has cast (GetNeverTraps) rest on each other.            *)
(***************************************************************************)
EXTENDS LRUCache, SequenceTheorems, TLAPS

-----------------------------------------------------------------------------
(* What the operators on orders of use return, element by element. *)

(* ToSet holds the elements at each index. *)
LEMMA ToSetElements ==
  ASSUME NEW S, NEW s \in Seq(S)
  PROVE  ToSet(s) = {s[j] : j \in 1..Len(s)}
  <1>1. DOMAIN s = 1..Len(s)
    OBVIOUS
  <1> QED
    BY <1>1, Zenon DEF ToSet

(* Cons puts its argument first and shifts the rest by one. *)
LEMMA ConsElements ==
  ASSUME NEW S, NEW s \in Seq(S), NEW e \in S
  PROVE  /\ Cons(e, s) \in Seq(S)
         /\ Len(Cons(e, s)) = Len(s) + 1
         /\ Cons(e, s)[1] = e
         /\ \A j \in 2..(Len(s) + 1) : Cons(e, s)[j] = s[j - 1]
  BY DEF Cons

(* Front drops the last element and leaves the others where they are. *)
LEMMA FrontElements ==
  ASSUME NEW S, NEW s \in Seq(S), Len(s) > 0
  PROVE  /\ Front(s) \in Seq(S)
         /\ Len(Front(s)) = Len(s) - 1
         /\ \A j \in 1..(Len(s) - 1) : Front(s)[j] = s[j]
  <1> DEFINE n == Len(s) - 1
  <1>1. n \in Nat /\ n <= Len(s)
    OBVIOUS
  <1> HIDE DEF n
  <1>2. /\ SubSeq(s, 1, n) \in Seq(S) /\ Len(SubSeq(s, 1, n)) = n
        /\ \A j \in 1..n : SubSeq(s, 1, n)[j] = s[j]
    BY <1>1
  <1> QED
    BY <1>2 DEF Front, n

(* RemoveAt closes the gap that its index leaves. *)
LEMMA RemoveAtElements ==
  ASSUME NEW S, NEW s \in Seq(S), NEW i \in 1..Len(s)
  PROVE  /\ RemoveAt(s, i) \in Seq(S)
         /\ Len(RemoveAt(s, i)) = Len(s) - 1
         /\ \A j \in 1..(i - 1) : RemoveAt(s, i)[j] = s[j]
         /\ \A j \in i..(Len(s) - 1) : RemoveAt(s, i)[j] = s[j + 1]
  <1> DEFINE left == SubSeq(s, 1, i - 1)
             right == SubSeq(s, i + 1, Len(s))
  <1>1. /\ left \in Seq(S) /\ Len(left) = i - 1
        /\ \A j \in 1..(i - 1) : left[j] = s[j]
    OBVIOUS
  <1>2. /\ right \in Seq(S) /\ Len(right) = Len(s) - i
        /\ \A j \in 1..(Len(s) - i) : right[j] = s[i + j]
    OBVIOUS
  <1>3. RemoveAt(s, i) = left \o right
    BY DEF RemoveAt
  <1> HIDE DEF left, right
  <1>4. left \o right \in Seq(S) /\ Len(left \o right) = Len(s) - 1
    <2>1. left \o right \in Seq(S)
      BY <1>1, <1>2
    <2>2. Len(left \o right) = Len(left) + Len(right)
      BY <1>1, <1>2, ConcatProperties
    <2> QED
      BY <1>1, <1>2, <2>1, <2>2
  <1>5. \A j \in 1..(i - 1) : (left \o right)[j] = s[j]
    BY <1>1, <1>2
  <1>6. ASSUME NEW j \in i..(Len(s) - 1)
        PROVE  (left \o right)[j] = s[j + 1]
    <2>1. j \in 1..(Len(left) + Len(right)) /\ j > Len(left)
      BY <1>1, <1>2
    <2>2. (left \o right)[j] = right[j - Len(left)]
      BY <1>1, <1>2, <2>1, ConcatProperties
    <2>3. j - (i - 1) \in 1..(Len(s) - i) /\ i + (j - (i - 1)) = j + 1
      OBVIOUS
    <2> QED
      BY <1>1, <1>2, <2>2, <2>3
  <1> QED
    BY <1>3, <1>4, <1>5, <1>6

(* PositionOf finds an element of a sequence. *)
LEMMA PositionOfElement ==
  ASSUME NEW S, NEW s \in Seq(S), NEW e \in ToSet(s)
  PROVE  PositionOf(s, e) \in 1..Len(s) /\ s[PositionOf(s, e)] = e
  <1>1. \E p \in DOMAIN s : e = s[p]
    BY DEF ToSet
  <1>2. PositionOf(s, e) \in DOMAIN s /\ e = s[PositionOf(s, e)]
    BY <1>1, Zenon DEF PositionOf
  <1>3. DOMAIN s = 1..Len(s)
    OBVIOUS
  <1> QED
    BY <1>2, <1>3, Zenon

(* A sequence without repetition stays one when an element leaves it. *)
LEMMA RemoveAtDistinct ==
  ASSUME NEW S, NEW s \in Seq(S), NEW i \in 1..Len(s), IsInjective(s)
  PROVE  /\ IsInjective(RemoveAt(s, i))
         /\ ToSet(RemoveAt(s, i)) = ToSet(s) \ {s[i]}
  <1> DEFINE r == RemoveAt(s, i)
             old(j) == IF j < i THEN j ELSE j + 1
             new(j) == IF j < i THEN j ELSE j - 1
  <1>1. /\ r \in Seq(S) /\ Len(r) = Len(s) - 1
        /\ \A j \in 1..Len(r) : old(j) \in 1..Len(s) \ {i} /\ r[j] = s[old(j)]
    <2> HIDE DEF r
    <2>1. /\ r \in Seq(S) /\ Len(r) = Len(s) - 1
          /\ \A j \in 1..(i - 1) : r[j] = s[j]
          /\ \A j \in i..(Len(s) - 1) : r[j] = s[j + 1]
      BY RemoveAtElements DEF r
    <2> QED
      BY <2>1
  <1> HIDE DEF r
  <1>2. \A j, k \in 1..Len(r) : j # k => old(j) # old(k)
    BY <1>1
  <1>3. IsInjective(r)
    <2>1. SUFFICES ASSUME NEW j \in 1..Len(r), NEW k \in 1..Len(r), j # k
                   PROVE  r[j] # r[k]
      BY <1>1 DEF IsInjective
    <2>2. /\ old(j) \in 1..Len(s) /\ old(k) \in 1..Len(s) /\ old(j) # old(k)
          /\ r[j] = s[old(j)] /\ r[k] = s[old(k)]
      BY <1>1, <1>2, <2>1
    <2> HIDE DEF old
    <2> QED
      BY <2>2 DEF IsInjective
  <1>4. \A j \in 1..Len(s) \ {i} : new(j) \in 1..Len(r) /\ old(new(j)) = j
    BY <1>1
  <1>5. ToSet(s) = {s[j] : j \in 1..Len(s)} /\ ToSet(r) = {r[j] : j \in 1..Len(r)}
    BY <1>1, ToSetElements
  <1> HIDE DEF old, new
  <1>6. \A j \in 1..Len(s) : s[j] # s[i] => j # i
    OBVIOUS
  <1>7. \A j \in 1..Len(s) : j # i => s[j] # s[i]
    BY DEF IsInjective
  <1>8. ToSet(r) \subseteq ToSet(s) \ {s[i]}
    BY <1>1, <1>5, <1>7
  <1>9. ToSet(s) \ {s[i]} \subseteq ToSet(r)
    <2> SUFFICES ASSUME NEW j \in 1..Len(s), s[j] # s[i]
                 PROVE  s[j] \in ToSet(r)
      BY <1>5
    <2>1. new(j) \in 1..Len(r) /\ old(new(j)) = j
      BY <1>4, <1>6
    <2> QED
      BY <1>1, <1>5, <2>1
  <1> QED
    BY <1>3, <1>8, <1>9 DEF r

(* A sequence without repetition stays one when a new element joins it. *)
LEMMA ConsDistinct ==
  ASSUME NEW S, NEW s \in Seq(S), NEW e \in S, IsInjective(s), e \notin ToSet(s)
  PROVE  /\ IsInjective(Cons(e, s))
         /\ ToSet(Cons(e, s)) = ToSet(s) \cup {e}
  <1> DEFINE c == Cons(e, s)
  <1>1. /\ c \in Seq(S) /\ Len(c) = Len(s) + 1 /\ c[1] = e
        /\ \A j \in 2..(Len(s) + 1) : c[j] = s[j - 1]
    BY ConsElements
  <1> HIDE DEF c
  <1>2. ToSet(s) = {s[j] : j \in 1..Len(s)} /\ ToSet(c) = {c[j] : j \in 1..Len(c)}
    BY <1>1, ToSetElements
  <1>3. \A j \in 1..Len(c) : j = 1 \/ (j \in 2..(Len(s) + 1) /\ j - 1 \in 1..Len(s))
    BY <1>1
  <1>4. \A j \in 1..Len(s) : /\ j + 1 \in 2..(Len(s) + 1) /\ j + 1 \in 1..Len(c)
                            /\ (j + 1) - 1 = j
    BY <1>1
  <1>5. IsInjective(c)
    <2>1. SUFFICES ASSUME NEW i \in 1..Len(c), NEW j \in 1..Len(c), c[i] = c[j]
                   PROVE  i = j
      BY <1>1 DEF IsInjective
    <2>2. \A k \in 1..Len(s) : s[k] # e
      BY <1>2
    <2>3. CASE i = 1 \/ j = 1
      BY <1>1, <1>3, <2>1, <2>2, <2>3
    <2>4. CASE i # 1 /\ j # 1
      <3>1. /\ i - 1 \in 1..Len(s) /\ j - 1 \in 1..Len(s) /\ s[i - 1] = s[j - 1]
        BY <1>1, <1>3, <2>1, <2>4
      <3>2. i - 1 = j - 1
        BY <3>1 DEF IsInjective
      <3> QED
        BY <3>2
    <2> QED
      BY <2>3, <2>4
  <1>6. ToSet(c) \subseteq ToSet(s) \cup {e}
    <2> SUFFICES ASSUME NEW j \in 1..Len(c) PROVE c[j] \in ToSet(s) \cup {e}
      BY <1>2
    <2>1. CASE j = 1
      BY <1>1, <2>1
    <2>2. CASE j \in 2..(Len(s) + 1) /\ j - 1 \in 1..Len(s)
      <3>1. c[j] = s[j - 1]
        BY <1>1, <2>2
      <3> QED
        BY <1>2, <2>2, <3>1
    <2> QED
      BY <1>3, <2>1, <2>2
  <1>7. ToSet(s) \subseteq ToSet(c)
    <2> SUFFICES ASSUME NEW j \in 1..Len(s) PROVE s[j] \in ToSet(c)
      BY <1>2
    <2>1. c[j + 1] = s[j]
      BY <1>1, <1>4
    <2> QED
      BY <1>2, <1>4, <2>1
  <1>8. e \in ToSet(c)
    BY <1>1, <1>2
  <1> QED
    BY <1>5, <1>6, <1>7, <1>8 DEF c

(* Removing the last element where it stands leaves the front. *)
LEMMA RemoveLast ==
  ASSUME NEW S, NEW s \in Seq(S), Len(s) > 0, IsInjective(s)
  PROVE  RemoveAt(s, PositionOf(s, Last(s))) = Front(s)
  <1> DEFINE p == PositionOf(s, Last(s))
  <1>1. Last(s) = s[Len(s)] /\ Last(s) \in ToSet(s)
    BY DEF Last, ToSet
  <1>2. p \in 1..Len(s) /\ s[p] = s[Len(s)]
    BY <1>1, PositionOfElement
  <1> HIDE DEF p
  <1>3. p = Len(s)
    BY <1>2 DEF IsInjective
  <1>4. RemoveAt(s, p) \in Seq(S) /\ Len(RemoveAt(s, p)) = Len(s) - 1
        /\ \A j \in 1..(p - 1) : RemoveAt(s, p)[j] = s[j]
    BY <1>2, RemoveAtElements
  <1>5. Front(s) \in Seq(S) /\ Len(Front(s)) = Len(s) - 1
        /\ \A j \in 1..(Len(s) - 1) : Front(s)[j] = s[j]
    BY FrontElements
  <1>6. RemoveAt(s, p) = Front(s)
    <2> DEFINE a == RemoveAt(s, p)
               b == Front(s)
    <2>1. a \in Seq(S) /\ b \in Seq(S) /\ Len(a) = Len(b)
          /\ \A j \in 1..Len(a) : a[j] = b[j]
      BY <1>3, <1>4, <1>5
    <2> HIDE DEF a, b
    <2>2. a = b
      BY <2>1, SeqEqual
    <2> QED
      BY <2>2 DEF a, b
  <1> QED
    BY <1>6 DEF p

(* The last of a sequence does not depend on what is put before it. *)
LEMMA FrontOfCons ==
  ASSUME NEW S, NEW s \in Seq(S), NEW e \in S, Len(s) > 0
  PROVE  /\ Front(Cons(e, s)) = Cons(e, Front(s))
         /\ Last(Cons(e, s)) = Last(s)
  <1> DEFINE c == Cons(e, s)
             f == Front(s)
  <1>1. c \in Seq(S) /\ Len(c) = Len(s) + 1 /\ c[1] = e
        /\ \A j \in 2..(Len(s) + 1) : c[j] = s[j - 1]
    BY ConsElements
  <1>2. f \in Seq(S) /\ Len(f) = Len(s) - 1
        /\ \A j \in 1..(Len(s) - 1) : f[j] = s[j]
    BY FrontElements
  <1> HIDE DEF c, f
  <1> DEFINE a == Front(c)
             b == Cons(e, f)
  <1>3. a \in Seq(S) /\ Len(a) = Len(s) /\ \A j \in 1..Len(s) : a[j] = c[j]
    <2>1. c \in Seq(S) /\ Len(c) > 0 /\ Len(c) - 1 = Len(s)
      BY <1>1
    <2>2. a \in Seq(S) /\ Len(a) = Len(c) - 1 /\ \A j \in 1..(Len(c) - 1) : a[j] = c[j]
      BY <2>1, FrontElements
    <2> QED
      BY <2>1, <2>2
  <1>4. b \in Seq(S) /\ Len(b) = Len(s) /\ b[1] = e
        /\ \A j \in 2..Len(s) : b[j] = f[j - 1]
    <2>1. f \in Seq(S) /\ Len(f) + 1 = Len(s)
      BY <1>2
    <2>2. b = Cons(e, f)
      OBVIOUS
    <2> HIDE DEF b
    <2>3. /\ b \in Seq(S) /\ Len(b) = Len(f) + 1 /\ b[1] = e
          /\ \A j \in 2..(Len(f) + 1) : b[j] = f[j - 1]
      BY <2>1, <2>2, ConsElements
    <2> QED
      BY <2>1, <2>3
  <1> HIDE DEF a, b
  <1>5. ASSUME NEW j \in 1..Len(s) PROVE a[j] = b[j]
    <2>1. CASE j = 1
      BY <1>1, <1>3, <1>4, <2>1
    <2>2. CASE j # 1
      <3>1. j \in 2..Len(s) /\ j \in 2..(Len(s) + 1) /\ j - 1 \in 1..(Len(s) - 1)
        BY <2>2
      <3> QED
        BY <1>1, <1>2, <1>3, <1>4, <3>1
    <2> QED
      BY <2>1, <2>2
  <1>6. a = b
    BY <1>3, <1>4, <1>5, SeqEqual
  <1>7. Last(c) = c[Len(s) + 1] /\ Last(s) = s[Len(s)]
    BY <1>1 DEF Last
  <1>8. c[Len(s) + 1] = s[Len(s)]
    BY <1>1
  <1> QED
    BY <1>6, <1>7, <1>8 DEF a, b, c, f

-----------------------------------------------------------------------------
(* The inductive invariant. *)
IInv == TypeOK /\ BooksAgree /\ GetNeverTraps

-----------------------------------------------------------------------------
(* The books of a process that is alive, as the lemmas on remove and       *)
(* insert need them.                                                       *)
ResidentIn(b) == {k \in Keys : b.cache[k] # None}

SoundBooks(b) ==
  /\ b.cache \in [Keys -> KeyTyped \cup {None}]
  /\ b.priority \in Seq(Keys)
  /\ IsInjective(b.priority)
  /\ ToSet(b.priority) = ResidentIn(b)
  /\ b.key2node = ResidentIn(b)

(* remove(key) takes the key out of all three books and nothing else. *)
LEMMA RemoveKeepsBooks ==
  ASSUME NEW b, SoundBooks(b), NEW k \in Keys
  PROVE  /\ SoundBooks(Remove1(b, k))
         /\ ResidentIn(Remove1(b, k)) = ResidentIn(b) \ {k}
  <1> DEFINE s == b.priority
             i == PositionOf(s, k)
             c == Remove1(b, k)
  <1>1. CASE k \notin b.key2node
    <2>1. c = b
      BY <1>1 DEF Remove1
    <2> HIDE DEF c
    <2> QED
      BY <1>1, <2>1 DEF SoundBooks, c
  <1>2. CASE k \in b.key2node
    <2>1. s \in Seq(Keys) /\ IsInjective(s) /\ k \in ToSet(s)
      BY <1>2 DEF SoundBooks
    <2>2. i \in 1..Len(s) /\ s[i] = k
      BY <2>1, PositionOfElement
    <2>3. /\ c.cache = [b.cache EXCEPT ![k] = None]
          /\ c.priority = RemoveAt(s, i)
          /\ c.key2node = b.key2node \ {k}
      BY <1>2, <2>2 DEF Remove1
    <2>4. /\ c.priority \in Seq(Keys) /\ IsInjective(c.priority)
          /\ ToSet(c.priority) = ToSet(s) \ {k}
      <3> HIDE DEF i, s
      <3> QED
        BY <2>1, <2>2, <2>3, RemoveAtElements, RemoveAtDistinct
    <2> HIDE DEF c
    <2>5. /\ c.cache \in [Keys -> KeyTyped \cup {None}]
          /\ ResidentIn(c) = ResidentIn(b) \ {k}
      BY <2>3 DEF SoundBooks, ResidentIn
    <2> QED
      BY <2>3, <2>4, <2>5 DEF SoundBooks, c
  <1> QED
    BY <1>1, <1>2

(* insert(key, val) of a key that is in no book adds it to all three, or   *)
(* to two of them where the cast of val fails.                             *)
LEMMA InsertKeepsBooks ==
  ASSUME NEW b, SoundBooks(b), NEW k \in Keys, NEW v \in Values,
         k \notin ResidentIn(b)
  PROVE  LET c == Insert1(b, k, v)
         IN  /\ c.cache \in [Keys -> KeyTyped \cup {None, v}]
             /\ c.priority \in Seq(Keys) /\ IsInjective(c.priority)
             /\ Head(c.priority) = k
             /\ ToSet(c.priority) = ResidentIn(c)
             /\ ResidentIn(c) = ResidentIn(b) \cup {k}
             /\ c.key2node = ResidentIn(c) \ (IF v \in KeyTyped THEN {} ELSE {k})
  <1> DEFINE c == Insert1(b, k, v)
             s == b.priority
  <1>1. /\ c.cache = [b.cache EXCEPT ![k] = v]
        /\ c.priority = Cons(k, s)
        /\ c.key2node = IF v \in KeyTyped THEN b.key2node \cup {k} ELSE b.key2node
    BY DEF Insert1
  <1> HIDE DEF c
  <1>2. s \in Seq(Keys) /\ IsInjective(s) /\ k \notin ToSet(s)
    BY DEF SoundBooks
  <1> HIDE DEF s
  <1>3. /\ Cons(k, s) \in Seq(Keys) /\ Len(Cons(k, s)) = Len(s) + 1
        /\ Cons(k, s)[1] = k
    BY <1>2, ConsElements
  <1>4. IsInjective(Cons(k, s)) /\ ToSet(Cons(k, s)) = ToSet(s) \cup {k}
    BY <1>2, ConsDistinct
  <1>5. Head(Cons(k, s)) = k
    BY <1>2, <1>3
  <1>6. /\ c.cache \in [Keys -> KeyTyped \cup {None, v}]
        /\ ResidentIn(c) = ResidentIn(b) \cup {k}
    BY <1>1, ValueAssumption DEF SoundBooks, ResidentIn
  <1>7. c.key2node = ResidentIn(c) \ (IF v \in KeyTyped THEN {} ELSE {k})
    BY <1>1, <1>6 DEF SoundBooks
  <1> QED
    BY <1>1, <1>3, <1>4, <1>5, <1>6, <1>7 DEF SoundBooks, c, s

(* The books of a live process are sound. *)
LEMMA LiveBooksAreSound ==
  ASSUME IInv, ~trapped
  PROVE  SoundBooks(Books) /\ ResidentIn(Books) = Resident
  <1>1. /\ Books.cache = cache /\ Books.priority = priority
        /\ Books.key2node = key2node
    BY DEF Books
  <1>2. cache \in [Keys -> KeyTyped \cup {None}]
    BY DEF IInv, TypeOK, GetNeverTraps
  <1>3. priority \in Seq(Keys) /\ IsInjective(priority) /\ ToSet(priority) = Resident
        /\ key2node = Resident
    BY DEF IInv, TypeOK, BooksAgree
  <1>4. ResidentIn(Books) = Resident
    BY <1>1 DEF ResidentIn, Resident
  <1> QED
    BY <1>1, <1>2, <1>3, <1>4 DEF SoundBooks

(* What set leaves to insert is sound and does not hold the key. *)
LEMMA MadeRoomIsSound ==
  ASSUME IInv, ~trapped, NEW k \in Keys
  PROVE  SoundBooks(MadeRoom(k)) /\ k \notin ResidentIn(MadeRoom(k))
  <1>1. SoundBooks(Books) /\ ResidentIn(Books) = Resident
    BY LiveBooksAreSound
  <1>2. CASE k \in Resident
    <2>1. MadeRoom(k) = Remove1(Books, k)
      BY <1>2 DEF MadeRoom, Resident
    <2> QED
      BY <1>1, <2>1, RemoveKeepsBooks
  <1>3. CASE k \notin Resident /\ Len(priority) >= maxSize /\ priority # <<>>
    <2>1. MadeRoom(k) = Remove1(Books, Last(priority))
      BY <1>3 DEF MadeRoom, Resident
    <2>2. Last(priority) \in Keys
      BY <1>3 DEF IInv, TypeOK, Last
    <2>3. /\ SoundBooks(Remove1(Books, Last(priority)))
          /\ ResidentIn(Remove1(Books, Last(priority))) = Resident \ {Last(priority)}
      BY <1>1, <2>2, RemoveKeepsBooks
    <2> QED
      BY <1>3, <2>1, <2>3
  <1>4. CASE k \notin Resident /\ ~(Len(priority) >= maxSize /\ priority # <<>>)
    <2>1. MadeRoom(k) = Books
      BY <1>4 DEF MadeRoom, Resident
    <2> QED
      BY <1>1, <1>4, <2>1
  <1> QED
    BY <1>2, <1>3, <1>4

-----------------------------------------------------------------------------
(* What SetBooks and the cast of v establish after an insertion. *)
LEMMA InsertedBooksKeepInv ==
  ASSUME IInv, ~trapped, NEW b, SoundBooks(b), NEW k \in Keys, NEW v \in Values,
         k \notin ResidentIn(b),
         SetBooks(Insert1(b, k, v)), trapped' = (v \notin KeyTyped),
         result' \in Values \cup {None}
  PROVE  IInv'
  <1> DEFINE c == Insert1(b, k, v)
  <1>1. /\ c.cache \in [Keys -> KeyTyped \cup {None, v}]
        /\ c.priority \in Seq(Keys) /\ IsInjective(c.priority)
        /\ Head(c.priority) = k
        /\ ToSet(c.priority) = ResidentIn(c)
        /\ c.key2node = ResidentIn(c) \ (IF v \in KeyTyped THEN {} ELSE {k})
    BY InsertKeepsBooks
  <1>2. cache' = c.cache /\ priority' = c.priority /\ key2node' = c.key2node
    BY DEF SetBooks
  <1> HIDE DEF c
  <1>3. Resident' = ResidentIn(c)
    BY <1>2 DEF Resident, ResidentIn
  <1>4. TypeOK'
    BY <1>1, <1>2, ValueAssumption DEF TypeOK, ResidentIn
  <1>5. BooksAgree'
    BY <1>1, <1>2, <1>3 DEF BooksAgree
  <1>6. GetNeverTraps'
    BY <1>1, <1>2 DEF GetNeverTraps
  <1> QED
    BY <1>4, <1>5, <1>6 DEF IInv

(* The inductive invariant holds before the first call. *)
LEMMA InitInv == Init => IInv
  <1> SUFFICES ASSUME Init PROVE IInv
    OBVIOUS
  <1>1. TypeOK
    <2>1. <<>> \in Seq(Keys)
      OBVIOUS
    <2>2. [k \in Keys |-> None] \in [Keys -> Values \cup {None}]
      OBVIOUS
    <2> QED
      BY <2>1, <2>2 DEF Init, TypeOK
  <1>2. BooksAgree
    BY DEF Init, BooksAgree, IsInjective, Resident, ToSet
  <1>3. GetNeverTraps
    BY DEF Init, GetNeverTraps
  <1> QED
    BY <1>1, <1>2, <1>3 DEF IInv

(* Every call keeps the inductive invariant. *)
LEMMA NextInv == IInv /\ [Next]_vars => IInv'
  <1> SUFFICES ASSUME IInv, [Next]_vars PROVE IInv'
    OBVIOUS
  <1>1. ASSUME NEW k \in Keys, get(k) PROVE IInv'
    <2>1. CASE cache[k] = None
      BY <1>1, <2>1 DEF get, IInv, TypeOK, BooksAgree, GetNeverTraps, Resident
    <2>2. CASE cache[k] # None
      <3> DEFINE b == Remove1(Books, k)
      <3>1. ~trapped /\ cache[k] \in KeyTyped /\ cache[k] \in Values
        BY <1>1, <2>2, ValueAssumption DEF get, IInv, GetNeverTraps
      <3>2. /\ SetBooks(Insert1(b, k, cache[k]))
            /\ trapped' = (cache[k] \notin KeyTyped)
            /\ result' = cache[k]
        BY <1>1, <2>2, <3>1 DEF get
      <3>3. SoundBooks(b) /\ k \notin ResidentIn(b)
        BY <3>1, LiveBooksAreSound, RemoveKeepsBooks
      <3> HIDE DEF b
      <3> QED
        BY <3>1, <3>2, <3>3, InsertedBooksKeepInv
    <2> QED
      BY <2>1, <2>2
  <1>2. ASSUME NEW k \in Keys, NEW v \in Values, set(k, v) PROVE IInv'
    <2>1. /\ ~trapped /\ SetBooks(Insert1(MadeRoom(k), k, v))
          /\ trapped' = (v \notin KeyTyped) /\ result' \in Values \cup {None}
      BY <1>2 DEF set, IInv, TypeOK
    <2>2. SoundBooks(MadeRoom(k)) /\ k \notin ResidentIn(MadeRoom(k))
      BY <2>1, MadeRoomIsSound
    <2> QED
      BY <2>1, <2>2, InsertedBooksKeepInv
  <1>3. CASE UNCHANGED vars
    BY <1>3 DEF vars, IInv, TypeOK, BooksAgree, GetNeverTraps, Resident
  <1> QED
    BY <1>1, <1>2, <1>3 DEF Next

(* The inductive invariant holds in every reachable state. *)
THEOREM Invariance == Spec => []IInv
  BY InitInv, NextInv, PTL DEF Spec

(* The variables keep their types (LRUCache.swift, every operation). *)
THEOREM TypeCorrect == Spec => []TypeOK
  <1>1. IInv => TypeOK
    BY DEF IInv
  <1> QED
    BY <1>1, Invariance, PTL

(* The dictionary, the array and the node dictionary always name the same  *)
(* keys, so remove (lines 43 to 57) never misses its index.                *)
THEOREM BooksAlwaysAgree == Spec => []BooksAgree
  <1>1. IInv => BooksAgree
    BY DEF IInv
  <1> QED
    BY <1>1, Invariance, PTL

(* The forced cast of insert (line 62) never fails on behalf of a get.     *)
THEOREM OnlySetTraps == Spec => []GetNeverTraps
  <1>1. IInv => GetNeverTraps
    BY DEF IInv
  <1> QED
    BY <1>1, Invariance, PTL

-----------------------------------------------------------------------------
(* A get of a resident key leaves the values alone and moves the key to    *)
(* the front of the array.                                                 *)
LEMMA GetMovesToFront ==
  ASSUME IInv, ~trapped, NEW k \in Resident
  PROVE  LET c == Insert1(Remove1(Books, k), k, cache[k])
         IN  c.cache = cache /\ c.priority = MoveToFront(priority, k)
  <1>1. k \in Keys /\ k \in key2node /\ \E i \in 1..Len(priority) : priority[i] = k
    BY DEF IInv, BooksAgree, TypeOK, Resident, ToSet
  <1>2. Remove1(Books, k) =
          [cache |-> [cache EXCEPT ![k] = None],
           priority |-> RemoveAt(priority, PositionOf(priority, k)),
           key2node |-> key2node \ {k}]
    BY <1>1 DEF Remove1, Books
  <1>3. [[cache EXCEPT ![k] = None] EXCEPT ![k] = cache[k]] = cache
    BY <1>1 DEF IInv, TypeOK
  <1> QED
    BY <1>2, <1>3 DEF Insert1, MoveToFront

(* The operators on sequences that the abstract cache uses are those of    *)
(* this module.                                                            *)
LEMMA SameSequenceOperators ==
  ASSUME NEW s, NEW e
  PROVE  /\ LRU!MoveToFront(s, e) = MoveToFront(s, e)
         /\ LRU!Cons(e, s) = Cons(e, s)
         /\ LRU!Front(s) = Front(s)
         /\ LRU!Last(s) = Last(s)
  BY DEF LRU!MoveToFront, MoveToFront, LRU!Cons, Cons, LRU!Front, Front,
         LRU!Last, Last, LRU!RemoveAt, RemoveAt, LRU!PositionOf, PositionOf

(* set of a resident key, below capacity and at capacity. *)
LEMMA SetIsPut ==
  ASSUME IInv, NEW k \in Keys, NEW v \in Values, set(k, v)
  PROVE  LRU!Put(k, v)
  <1> DEFINE c == Insert1(MadeRoom(k), k, v)
  <1>1. ~trapped /\ cache' = c.cache /\ priority' = c.priority /\ UNCHANGED result
    BY DEF set, SetBooks
  <1>2. /\ cache \in [Keys -> Values \cup {None}] /\ priority \in Seq(Keys)
        /\ IsInjective(priority) /\ Resident = ToSet(priority) /\ key2node = Resident
    BY <1>1 DEF IInv, TypeOK, BooksAgree
  <1>3. LRU!Resident = Resident
    BY DEF LRU!Resident, Resident
  <1>4. CASE k \in Resident
    <2>1. \E i \in 1..Len(priority) : priority[i] = k
      BY <1>2, <1>4 DEF ToSet
    <2>2. MadeRoom(k) = [cache |-> [cache EXCEPT ![k] = None],
                         priority |-> RemoveAt(priority, PositionOf(priority, k)),
                         key2node |-> key2node \ {k}]
      BY <1>2, <1>4, <2>1 DEF MadeRoom, Remove1, Books, Resident
    <2>3. c.cache = [cache EXCEPT ![k] = v] /\ c.priority = MoveToFront(priority, k)
      <3>1. [[cache EXCEPT ![k] = None] EXCEPT ![k] = v] = [cache EXCEPT ![k] = v]
        BY <1>2
      <3>2. /\ c.cache = [[cache EXCEPT ![k] = None] EXCEPT ![k] = v]
            /\ c.priority = Cons(k, RemoveAt(priority, PositionOf(priority, k)))
        BY <2>2 DEF Insert1
      <3> QED
        BY <3>1, <3>2 DEF MoveToFront
    <2> QED
      BY <1>1, <1>3, <1>4, <2>3, SameSequenceOperators DEF LRU!Put, LRU!PutResident
  <1>5. CASE k \notin Resident /\ Len(priority) < EffectiveCapacity
    <2>1. Len(priority) \in Nat /\ (Len(priority) = 0 => priority = <<>>)
      BY <1>2
    <2>2. ~(Len(priority) >= maxSize /\ priority # <<>>)
      BY <1>2, <1>5, <2>1, MaxSizeAssumption DEF EffectiveCapacity
    <2>3. MadeRoom(k) = Books
      BY <1>5, <2>2 DEF MadeRoom, Resident
    <2>4. c.cache = [cache EXCEPT ![k] = v] /\ c.priority = Cons(k, priority)
      BY <2>3 DEF Insert1, Books
    <2> QED
      BY <1>1, <1>3, <1>5, <2>4, SameSequenceOperators DEF LRU!Put, LRU!PutNew
  <1>6. CASE k \notin Resident /\ Len(priority) >= EffectiveCapacity
    <2> DEFINE w == Last(priority)
    <2>1. /\ Len(priority) \in Nat /\ Len(priority) > 0 /\ Len(priority) >= maxSize
          /\ priority # <<>>
      BY <1>2, <1>6, MaxSizeAssumption DEF EffectiveCapacity
    <2>2. w \in ToSet(priority) /\ w \in Resident /\ w # k
      BY <1>2, <1>6, <2>1 DEF Last, ToSet
    <2>3. \E i \in 1..Len(priority) : priority[i] = w
      BY <2>2 DEF ToSet
    <2>4. MadeRoom(k) = [cache |-> [cache EXCEPT ![w] = None],
                         priority |-> RemoveAt(priority, PositionOf(priority, w)),
                         key2node |-> key2node \ {w}]
      BY <1>2, <1>6, <2>1, <2>2, <2>3 DEF MadeRoom, Remove1, Books, Resident
    <2>5. RemoveAt(priority, PositionOf(priority, w)) = Front(priority)
      BY <1>2, <2>1, RemoveLast
    <2>6. /\ c.cache = [[cache EXCEPT ![w] = None] EXCEPT ![k] = v]
          /\ c.priority = Cons(k, Front(priority))
      BY <2>4, <2>5 DEF Insert1
    <2>7. Front(Cons(k, priority)) = Cons(k, Front(priority)) /\ Last(Cons(k, priority)) = w
      BY <1>2, <2>1, FrontOfCons
    <2>8. [[cache EXCEPT ![w] = None] EXCEPT ![k] = v]
            = [[cache EXCEPT ![k] = v] EXCEPT ![w] = None]
      BY <1>2, <2>2
    <2> HIDE DEF w, c
    <2> QED
      BY <1>1, <1>3, <1>6, <2>6, <2>7, <2>8, SameSequenceOperators
      DEF LRU!Put, LRU!PutEvict
  <1>7. EffectiveCapacity \in Int /\ Len(priority) \in Int
    BY <1>2, MaxSizeAssumption DEF EffectiveCapacity
  <1> QED
    BY <1>4, <1>5, <1>6, <1>7

(* The array-based cache implements the abstract one, with one resident    *)
(* key where maxSize asks for none (lines 17 to 65).                       *)
THEOREM Refinement == Spec => RefinesLRU
  <1>1. Init => LRU!Init
    BY DEF Init, LRU!Init
  <1>2. IInv /\ [Next]_vars => [LRU!Next]_(LRU!vars)
    <2> SUFFICES ASSUME IInv, [Next]_vars PROVE [LRU!Next]_(LRU!vars)
      OBVIOUS
    <2>1. ASSUME NEW k \in Keys, get(k) PROVE LRU!Get(k)
      <3>1. ~trapped /\ LRU!Resident = Resident
        BY <2>1 DEF get, LRU!Resident, Resident
      <3>2. CASE cache[k] = None
        BY <2>1, <3>1, <3>2 DEF get, LRU!Get, Resident
      <3>3. CASE cache[k] # None
        <4>1. k \in Resident /\ cache[k] \in KeyTyped
          BY <3>1, <3>3 DEF Resident, IInv, GetNeverTraps
        <4>2. cache' = cache /\ priority' = MoveToFront(priority, k)
          BY <2>1, <3>1, <3>3, <4>1, GetMovesToFront DEF get, SetBooks
        <4>3. result' = cache[k]
          BY <2>1, <3>3, <4>1 DEF get
        <4> QED
          BY <3>1, <4>1, <4>2, <4>3, SameSequenceOperators DEF LRU!Get
      <3> QED
        BY <3>2, <3>3
    <2>2. ASSUME NEW k \in Keys, NEW v \in Values, set(k, v) PROVE LRU!Put(k, v)
      BY <2>2, SetIsPut
    <2>3. CASE UNCHANGED vars
      BY <2>3 DEF vars, LRU!vars
    <2> QED
      BY <2>1, <2>2, <2>3 DEF Next, LRU!Next
  <1> QED
    BY <1>1, <1>2, Invariance, PTL DEF Spec, RefinesLRU, LRU!Spec
=============================================================================
