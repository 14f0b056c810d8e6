-------------------------- MODULE LRUCacheNewProofs -------------------------
(***************************************************************************)
(* What holds of LRUCacheNew for every capacity, every finite set of keys, *)
(* every set of values and every supply of addresses that exceeds the      *)
(* capacity.                                                               *)
(*                                                                         *)
(* The lemmas of the first part are about heaps alone: a heap is Linked    *)
(* along a function that says which node sits at which position, and the   *)
(* splices of DoublyLinkedList take linked heaps to linked heaps along     *)
(* that function with a position taken out or put in.  So no induction     *)
(* along the pointers is needed.                                           *)
(***************************************************************************)
EXTENDS LRUCacheNew, FiniteSetTheorems, SequenceTheorems, TLAPS

-----------------------------------------------------------------------------
(* What the operators on orders of use return, element by element. *)

(* ToSet holds the elements at each index. *)
LEMMA ToSetElements ==
  ASSUME NEW S, NEW s \in Seq(S)
  PROVE  ToSet(s) = {s[j] : j \in 1..Len(s)}
  <1>1. DOMAIN s = 1..Len(s)
    OBVIOUS
  <1> QED
    BY <1>1, Zenon DEF ToSet

(* Cons puts its argument first and shifts the rest by one. *)
LEMMA ConsElements ==
  ASSUME NEW S, NEW s \in Seq(S), NEW e \in S
  PROVE  /\ Cons(e, s) \in Seq(S)
         /\ Len(Cons(e, s)) = Len(s) + 1
         /\ Cons(e, s)[1] = e
         /\ \A j \in 2..(Len(s) + 1) : Cons(e, s)[j] = s[j - 1]
  BY DEF Cons

(* Front drops the last element and leaves the others where they are. *)
LEMMA FrontElements ==
  ASSUME NEW S, NEW s \in Seq(S), Len(s) > 0
  PROVE  /\ Front(s) \in Seq(S)
         /\ Len(Front(s)) = Len(s) - 1
         /\ \A j \in 1..(Len(s) - 1) : Front(s)[j] = s[j]
  <1> DEFINE n == Len(s) - 1
  <1>1. n \in Nat /\ n <= Len(s)
    OBVIOUS
  <1> HIDE DEF n
  <1>2. /\ SubSeq(s, 1, n) \in Seq(S) /\ Len(SubSeq(s, 1, n)) = n
        /\ \A j \in 1..n : SubSeq(s, 1, n)[j] = s[j]
    BY <1>1
  <1> QED
    BY <1>2 DEF Front, n

(* RemoveAt closes the gap that its index leaves. *)
LEMMA RemoveAtElements ==
  ASSUME NEW S, NEW s \in Seq(S), NEW i \in 1..Len(s)
  PROVE  /\ RemoveAt(s, i) \in Seq(S)
         /\ Len(RemoveAt(s, i)) = Len(s) - 1
         /\ \A j \in 1..(i - 1) : RemoveAt(s, i)[j] = s[j]
         /\ \A j \in i..(Len(s) - 1) : RemoveAt(s, i)[j] = s[j + 1]
  <1> DEFINE left == SubSeq(s, 1, i - 1)
             right == SubSeq(s, i + 1, Len(s))
  <1>1. /\ left \in Seq(S) /\ Len(left) = i - 1
        /\ \A j \in 1..(i - 1) : left[j] = s[j]
    OBVIOUS
  <1>2. /\ right \in Seq(S) /\ Len(right) = Len(s) - i
        /\ \A j \in 1..(Len(s) - i) : right[j] = s[i + j]
    OBVIOUS
  <1>3. RemoveAt(s, i) = left \o right
    BY DEF RemoveAt
  <1> HIDE DEF left, right
  <1>4. left \o right \in Seq(S) /\ Len(left \o right) = Len(s) - 1
    <2>1. left \o right \in Seq(S)
      BY <1>1, <1>2
    <2>2. Len(left \o right) = Len(left) + Len(right)
      BY <1>1, <1>2, ConcatProperties
    <2> QED
      BY <1>1, <1>2, <2>1, <2>2
  <1>5. \A j \in 1..(i - 1) : (left \o right)[j] = s[j]
    BY <1>1, <1>2
  <1>6. ASSUME NEW j \in i..(Len(s) - 1)
        PROVE  (left \o right)[j] = s[j + 1]
    <2>1. j \in 1..(Len(left) + Len(right)) /\ j > Len(left)
      BY <1>1, <1>2
    <2>2. (left \o right)[j] = right[j - Len(left)]
      BY <1>1, <1>2, <2>1, ConcatProperties
    <2>3. j - (i - 1) \in 1..(Len(s) - i) /\ i + (j - (i - 1)) = j + 1
      OBVIOUS
    <2> QED
      BY <1>1, <1>2, <2>2, <2>3
  <1> QED
    BY <1>3, <1>4, <1>5, <1>6

(* PositionOf finds an element of a sequence. *)
LEMMA PositionOfElement ==
  ASSUME NEW S, NEW s \in Seq(S), NEW e \in ToSet(s)
  PROVE  PositionOf(s, e) \in 1..Len(s) /\ s[PositionOf(s, e)] = e
  <1>1. \E p \in DOMAIN s : e = s[p]
    BY DEF ToSet
  <1>2. PositionOf(s, e) \in DOMAIN s /\ e = s[PositionOf(s, e)]
    BY <1>1, Zenon DEF PositionOf
  <1>3. DOMAIN s = 1..Len(s)
    OBVIOUS
  <1> QED
    BY <1>2, <1>3, Zenon

(* MoveToFront rotates the elements up to the position of e by one. *)
LEMMA MoveToFrontElements ==
  ASSUME NEW S, NEW s \in Seq(S), NEW e \in ToSet(s)
  PROVE  LET p == PositionOf(s, e)
             m == MoveToFront(s, e)
         IN  /\ p \in 1..Len(s) /\ s[p] = e
             /\ m \in Seq(S) /\ Len(m) = Len(s) /\ m[1] = e
             /\ \A j \in 2..p : m[j] = s[j - 1]
             /\ \A j \in (p + 1)..Len(s) : m[j] = s[j]
  <1> DEFINE p == PositionOf(s, e)
             r == RemoveAt(s, p)
             m == MoveToFront(s, e)
  <1>1. p \in 1..Len(s) /\ s[p] = e /\ e \in S
    BY PositionOfElement
  <1> HIDE DEF p
  <1>2. /\ r \in Seq(S) /\ Len(r) = Len(s) - 1
        /\ \A j \in 1..(p - 1) : r[j] = s[j]
        /\ \A j \in p..(Len(s) - 1) : r[j] = s[j + 1]
    BY <1>1, RemoveAtElements
  <1>3. m = Cons(e, r)
    BY DEF MoveToFront, p
  <1> HIDE DEF r, m
  <1>4. /\ m \in Seq(S) /\ Len(m) = Len(r) + 1 /\ m[1] = e
        /\ \A j \in 2..(Len(r) + 1) : m[j] = r[j - 1]
    <2>1. r \in Seq(S) /\ e \in S
      BY <1>1, <1>2
    <2> QED
      BY <2>1, <1>3, ConsElements
  <1>5. ASSUME NEW j \in 2..p PROVE m[j] = s[j - 1]
    BY <1>1, <1>2, <1>4
  <1>6. ASSUME NEW j \in (p + 1)..Len(s) PROVE m[j] = s[j]
    <2>1. j \in 2..(Len(r) + 1) /\ j - 1 \in p..(Len(s) - 1) /\ (j - 1) + 1 = j
      BY <1>1, <1>2
    <2> QED
      BY <1>2, <1>4, <2>1
  <1>7. /\ m \in Seq(S) /\ Len(m) = Len(s) /\ m[1] = e
    BY <1>2, <1>4
  <1> QED
    BY <1>1, <1>5, <1>6, <1>7 DEF p, m

(* Bringing an element to the front changes the order and nothing else. *)
LEMMA MoveToFrontDistinct ==
  ASSUME NEW S, NEW s \in Seq(S), NEW e \in ToSet(s), IsInjective(s)
  PROVE  IsInjective(MoveToFront(s, e)) /\ ToSet(MoveToFront(s, e)) = ToSet(s)
  <1> DEFINE p == PositionOf(s, e)
             m == MoveToFront(s, e)
             old(j) == IF j = 1 THEN p ELSE IF j <= p THEN j - 1 ELSE j
             new(j) == IF j = p THEN 1 ELSE IF j < p THEN j + 1 ELSE j
  <1>1. /\ p \in 1..Len(s) /\ s[p] = e
        /\ m \in Seq(S) /\ Len(m) = Len(s) /\ m[1] = e
        /\ \A j \in 2..p : m[j] = s[j - 1]
        /\ \A j \in (p + 1)..Len(s) : m[j] = s[j]
    BY MoveToFrontElements, Zenon
  <1> HIDE DEF p, m
  <1>2. \A j \in 1..Len(s) : old(j) \in 1..Len(s) /\ m[j] = s[old(j)]
    BY <1>1
  <1>3. \A j, k \in 1..Len(s) : j # k => old(j) # old(k)
    BY <1>1
  <1>4. \A j \in 1..Len(s) : new(j) \in 1..Len(s) /\ old(new(j)) = j
    BY <1>1
  <1> HIDE DEF old, new
  <1>5. IsInjective(m)
    <2>1. SUFFICES ASSUME NEW i \in 1..Len(s), NEW j \in 1..Len(s), i # j
                   PROVE  m[i] # m[j]
      BY <1>1 DEF IsInjective
    <2>2. /\ old(i) \in 1..Len(s) /\ old(j) \in 1..Len(s) /\ old(i) # old(j)
          /\ m[i] = s[old(i)] /\ m[j] = s[old(j)]
      BY <1>2, <1>3, <2>1
    <2> QED
      BY <2>2 DEF IsInjective
  <1>6. ToSet(s) = {s[j] : j \in 1..Len(s)} /\ ToSet(m) = {m[j] : j \in 1..Len(s)}
    BY <1>1, ToSetElements
  <1>7. \A j \in 1..Len(s) : new(j) \in 1..Len(s) /\ m[new(j)] = s[j]
    BY <1>2, <1>4
  <1>8. ToSet(m) \subseteq ToSet(s)
    BY <1>2, <1>6
  <1>9. ToSet(s) \subseteq ToSet(m)
    BY <1>6, <1>7
  <1> QED
    BY <1>5, <1>8, <1>9 DEF m

(* A sequence without repetition stays one when a new element joins it. *)
LEMMA ConsDistinct ==
  ASSUME NEW S, NEW s \in Seq(S), NEW e \in S, IsInjective(s), e \notin ToSet(s)
  PROVE  /\ IsInjective(Cons(e, s))
         /\ ToSet(Cons(e, s)) = ToSet(s) \cup {e}
  <1> DEFINE c == Cons(e, s)
  <1>1. /\ c \in Seq(S) /\ Len(c) = Len(s) + 1 /\ c[1] = e
        /\ \A j \in 2..(Len(s) + 1) : c[j] = s[j - 1]
    BY ConsElements
  <1> HIDE DEF c
  <1>2. ToSet(s) = {s[j] : j \in 1..Len(s)} /\ ToSet(c) = {c[j] : j \in 1..Len(c)}
    BY <1>1, ToSetElements
  <1>3. \A j \in 1..Len(c) : j = 1 \/ (j \in 2..(Len(s) + 1) /\ j - 1 \in 1..Len(s))
    BY <1>1
  <1>4. \A j \in 1..Len(s) : /\ j + 1 \in 2..(Len(s) + 1) /\ j + 1 \in 1..Len(c)
                            /\ (j + 1) - 1 = j
    BY <1>1
  <1>5. IsInjective(c)
    <2>1. SUFFICES ASSUME NEW i \in 1..Len(c), NEW j \in 1..Len(c), c[i] = c[j]
                   PROVE  i = j
      BY <1>1 DEF IsInjective
    <2>2. \A k \in 1..Len(s) : s[k] # e
      BY <1>2
    <2>3. CASE i = 1 \/ j = 1
      BY <1>1, <1>3, <2>1, <2>2, <2>3
    <2>4. CASE i # 1 /\ j # 1
      <3>1. /\ i - 1 \in 1..Len(s) /\ j - 1 \in 1..Len(s) /\ s[i - 1] = s[j - 1]
        BY <1>1, <1>3, <2>1, <2>4
      <3>2. i - 1 = j - 1
        BY <3>1 DEF IsInjective
      <3> QED
        BY <3>2
    <2> QED
      BY <2>3, <2>4
  <1>6. ToSet(c) \subseteq ToSet(s) \cup {e}
    <2> SUFFICES ASSUME NEW j \in 1..Len(c) PROVE c[j] \in ToSet(s) \cup {e}
      BY <1>2
    <2>1. CASE j = 1
      BY <1>1, <2>1
    <2>2. CASE j \in 2..(Len(s) + 1) /\ j - 1 \in 1..Len(s)
      <3>1. c[j] = s[j - 1]
        BY <1>1, <2>2
      <3> QED
        BY <1>2, <2>2, <3>1
    <2> QED
      BY <1>3, <2>1, <2>2
  <1>7. ToSet(s) \subseteq ToSet(c)
    <2> SUFFICES ASSUME NEW j \in 1..Len(s) PROVE s[j] \in ToSet(c)
      BY <1>2
    <2>1. c[j + 1] = s[j]
      BY <1>1, <1>4
    <2> QED
      BY <1>2, <1>4, <2>1
  <1>8. e \in ToSet(c)
    BY <1>1, <1>2
  <1> QED
    BY <1>5, <1>6, <1>7, <1>8 DEF c

(* Without its last element, a sequence that repeats nothing repeats       *)
(* nothing, and holds the others.                                          *)
LEMMA FrontDistinct ==
  ASSUME NEW S, NEW s \in Seq(S), Len(s) > 0, IsInjective(s)
  PROVE  IsInjective(Front(s)) /\ ToSet(Front(s)) = ToSet(s) \ {Last(s)}
  <1> DEFINE f == Front(s)
             n == Len(s)
  <1>1. /\ n \in Nat \ {0} /\ f \in Seq(S) /\ Len(f) = n - 1
        /\ \A j \in 1..(n - 1) : f[j] = s[j]
    BY FrontElements
  <1>2. Last(s) = s[n]
    BY DEF Last
  <1> HIDE DEF f
  <1>3. ToSet(s) = {s[j] : j \in 1..n} /\ ToSet(f) = {f[j] : j \in 1..(n - 1)}
    BY <1>1, ToSetElements
  <1>4. \A i, j \in 1..n : i # j => s[i] # s[j]
    BY DEF IsInjective
  <1> HIDE DEF n
  <1>5. n \in 1..n /\ \A j \in 1..(n - 1) : j \in 1..n /\ j # n
    BY <1>1
  <1>6. \A j \in 1..n : j # n => j \in 1..(n - 1)
    BY <1>1
  <1>7. IsInjective(f)
    BY <1>1, <1>4, <1>5 DEF IsInjective
  <1>8. ToSet(f) \subseteq ToSet(s) \ {Last(s)}
    BY <1>1, <1>2, <1>3, <1>4, <1>5
  <1>9. ToSet(s) \ {Last(s)} \subseteq ToSet(f)
    BY <1>1, <1>2, <1>3, <1>6
  <1> QED
    BY <1>7, <1>8, <1>9 DEF f

-----------------------------------------------------------------------------
(* What the comparison with capacity in put comes to. *)
LEMMA CapacityInNat ==
  /\ EffectiveCapacity \in Nat
  /\ \A n \in Nat \ {0} : n > Capacity <=> n > EffectiveCapacity
  BY CapacityAssumption DEF EffectiveCapacity

(* The heaps of well-typed pointers. *)
Pointers == [AllNodes -> AllNodes \cup {None}]
Heaps == [next : Pointers, prev : Pointers]

(* The seatings of m nodes between the sentinels, no node seated twice. *)
Seatings(m) ==
  {a \in [0..(m + 1) -> AllNodes] :
     /\ a[0] = HeadNode /\ a[m + 1] = TailNode
     /\ \A i, j \in 0..(m + 1) : i # j => a[i] # a[j]}

(* The heap h is a two-way list of the nodes that the seating a of m       *)
(* nodes names, in its order, and ends at the sentinels.                   *)
Linked(h, a, m) ==
  /\ h \in Heaps /\ a \in Seatings(m)
  /\ \A i \in 0..m : h.next[a[i]] = a[i + 1] /\ h.prev[a[i + 1]] = a[i]
  /\ h.prev[HeadNode] = None /\ h.next[TailNode] = None

(* The seating a of m nodes without the node at position p. *)
Without(a, m, p) == [i \in 0..m |-> IF i < p THEN a[i] ELSE a[i + 1]]

(* The seating a of m nodes with the node x before the others. *)
With(a, m, x) ==
  [i \in 0..(m + 2) |-> IF i = 0 THEN HeadNode ELSE IF i = 1 THEN x ELSE a[i - 1]]

(* What the optional-chaining setters change. *)
LEMMA Setters ==
  ASSUME NEW h \in Heaps, NEW n \in AllNodes, NEW x \in AllNodes
  PROVE  /\ SetNext(h, n, x) = [next |-> [h.next EXCEPT ![n] = x], prev |-> h.prev]
         /\ SetPrev(h, n, x) = [next |-> h.next, prev |-> [h.prev EXCEPT ![n] = x]]
         /\ SetNext(h, n, x) \in Heaps /\ SetPrev(h, n, x) \in Heaps
  <1>1. n # None
    BY NodeAssumption DEF AllNodes
  <1> QED
    BY <1>1 DEF SetNext, SetPrev, Heaps, Pointers

(* removeNode splices its node out of the list. *)
LEMMA RemoveNodeLinked ==
  ASSUME NEW m \in Nat, NEW a, NEW h, Linked(h, a, m), NEW p \in 1..m
  PROVE  Linked(RemoveNode(h, a[p]), Without(a, m, p), m - 1)
  <1> DEFINE l == a[p - 1]
             r == a[p + 1]
             g == RemoveNode(h, a[p])
             b == Without(a, m, p)
  <1>1. /\ h \in Heaps /\ a \in [0..(m + 1) -> AllNodes]
        /\ \A i \in 0..m : h.next[a[i]] = a[i + 1] /\ h.prev[a[i + 1]] = a[i]
        /\ \A i, j \in 0..(m + 1) : i # j => a[i] # a[j]
        /\ a[0] = HeadNode /\ a[m + 1] = TailNode
        /\ h.prev[HeadNode] = None /\ h.next[TailNode] = None
    BY DEF Linked, Seatings
  <1>2. /\ p - 1 \in 0..m /\ p \in 0..m /\ p + 1 \in 0..(m + 1)
        /\ (p - 1) + 1 = p /\ p - 1 \in 0..(m + 1) /\ p \in 0..(m + 1)
    OBVIOUS
  <1>3. /\ l \in AllNodes /\ r \in AllNodes /\ a[p] \in AllNodes
        /\ h.prev[a[p]] = l /\ h.next[a[p]] = r /\ l # a[p] /\ r # a[p]
    BY <1>1, <1>2
  <1>4. g = [next |-> [h.next EXCEPT ![l] = r], prev |-> [h.prev EXCEPT ![r] = l]]
    <2> DEFINE h1 == SetNext(h, l, r)
    <2>1. h1 = [next |-> [h.next EXCEPT ![l] = r], prev |-> h.prev] /\ h1 \in Heaps
      BY <1>1, <1>3, Setters
    <2> HIDE DEF h1
    <2>2. h1.next[a[p]] = r /\ h1.prev[a[p]] = l
      BY <1>1, <1>3, <2>1 DEF Heaps, Pointers
    <2>3. g = SetPrev(h1, r, l)
      BY <1>3, <2>2 DEF RemoveNode, h1
    <2>4. g = [next |-> h1.next, prev |-> [h1.prev EXCEPT ![r] = l]]
      BY <1>3, <2>1, <2>3, Setters
    <2> QED
      BY <2>1, <2>4
  <1> HIDE DEF g
  <1>5. g \in Heaps
    BY <1>1, <1>3, <1>4 DEF Heaps, Pointers
  <1>6. \A i \in 0..m : b[i] = IF i < p THEN a[i] ELSE a[i + 1]
    BY DEF Without
  <1>7. b \in [0..m -> AllNodes]
    BY <1>1 DEF Without
  <1> HIDE DEF b, l, r
  <1>8. b \in Seatings(m - 1)
    <2>1. (m - 1) + 1 = m
      OBVIOUS
    <2>2. b[0] = HeadNode /\ b[m] = TailNode
      BY <1>1, <1>6
    <2>3. \A i, j \in 0..m : i # j => b[i] # b[j]
      BY <1>1, <1>6
    <2> QED
      BY <1>7, <2>1, <2>2, <2>3 DEF Seatings
  <1>9. /\ \A x \in AllNodes : g.next[x] = IF x = l THEN r ELSE h.next[x]
        /\ \A x \in AllNodes : g.prev[x] = IF x = r THEN l ELSE h.prev[x]
    BY <1>1, <1>3, <1>4 DEF Heaps, Pointers
  <1>10. ASSUME NEW i \in 0..(m - 1)
         PROVE  g.next[b[i]] = b[i + 1] /\ g.prev[b[i + 1]] = b[i]
    <2>1. CASE i = p - 1
      BY <1>2, <1>3, <1>6, <1>9, <2>1 DEF l, r
    <2>2. CASE i < p - 1
      <3>1. b[i] = a[i] /\ b[i + 1] = a[i + 1] /\ a[i] # l /\ a[i + 1] # r
        BY <1>1, <1>2, <1>6, <2>2 DEF l, r
      <3> QED
        BY <1>1, <1>9, <3>1
    <2>3. CASE i > p - 1
      <3>1. /\ b[i] = a[i + 1] /\ b[i + 1] = a[(i + 1) + 1]
            /\ a[i + 1] # l /\ a[(i + 1) + 1] # r
        BY <1>1, <1>2, <1>6, <2>3 DEF l, r
      <3>2. /\ i + 1 \in 0..m /\ a[i + 1] \in AllNodes /\ a[(i + 1) + 1] \in AllNodes
        BY <1>1
      <3>3. /\ h.next[a[i + 1]] = a[(i + 1) + 1] /\ h.prev[a[(i + 1) + 1]] = a[i + 1]
        BY <1>1, <3>2
      <3> QED
        BY <1>9, <3>1, <3>2, <3>3
    <2> QED
      BY <2>1, <2>2, <2>3
  <1>11. g.prev[HeadNode] = None /\ g.next[TailNode] = None
    <2>1. HeadNode # r /\ TailNode # l
      BY <1>1, <1>2 DEF l, r
    <2> QED
      BY <1>1, <1>9, <2>1 DEF AllNodes
  <1> QED
    BY <1>5, <1>8, <1>10, <1>11 DEF Linked, g, b

(* addToHead splices a node that is not in the list in behind the head. *)
LEMMA AddToHeadLinked ==
  ASSUME NEW m \in Nat, NEW a, NEW h, Linked(h, a, m),
         NEW x \in Nodes, \A i \in 0..(m + 1) : a[i] # x
  PROVE  Linked(AddToHead(h, x), With(a, m, x), m + 1)
  <1> DEFINE f == a[1]
             g == AddToHead(h, x)
             b == With(a, m, x)
  <1>1. /\ h \in Heaps /\ a \in [0..(m + 1) -> AllNodes]
        /\ \A i \in 0..m : h.next[a[i]] = a[i + 1] /\ h.prev[a[i + 1]] = a[i]
        /\ \A i, j \in 0..(m + 1) : i # j => a[i] # a[j]
        /\ a[0] = HeadNode /\ a[m + 1] = TailNode
        /\ h.prev[HeadNode] = None /\ h.next[TailNode] = None
    BY DEF Linked, Seatings
  <1>2. /\ x \in AllNodes /\ f \in AllNodes /\ HeadNode \in AllNodes
        /\ x # HeadNode /\ x # TailNode /\ x # f /\ f # HeadNode
        /\ h.next[HeadNode] = f
    <2>1. x \in AllNodes /\ HeadNode \in AllNodes /\ x # HeadNode /\ x # TailNode
      BY NodeAssumption DEF AllNodes
    <2>2. 0 \in 0..m /\ 0 + 1 = 1 /\ 1 \in 0..(m + 1) /\ 0 \in 0..(m + 1)
      OBVIOUS
    <2> QED
      BY <1>1, <2>1, <2>2
  <1>3. g = [next |-> [[h.next EXCEPT ![x] = f] EXCEPT ![HeadNode] = x],
             prev |-> [[h.prev EXCEPT ![x] = HeadNode] EXCEPT ![f] = x]]
    <2> DEFINE h0 == SetNext(h, x, f)
               h1 == SetPrev(h0, x, HeadNode)
               h2 == SetPrev(h1, f, x)
    <2>1. h0 = [next |-> [h.next EXCEPT ![x] = f], prev |-> h.prev] /\ h0 \in Heaps
      BY <1>1, <1>2, Setters
    <2> HIDE DEF h0
    <2>2. h1 = [next |-> h0.next, prev |-> [h0.prev EXCEPT ![x] = HeadNode]] /\ h1 \in Heaps
      BY <1>2, <2>1, Setters
    <2> HIDE DEF h1
    <2>3. h1.next[HeadNode] = f
      BY <1>1, <1>2, <2>1, <2>2 DEF Heaps, Pointers
    <2>4. h2 = [next |-> h1.next, prev |-> [h1.prev EXCEPT ![f] = x]] /\ h2 \in Heaps
      BY <1>2, <2>2, Setters
    <2>5. g = SetNext(h2, HeadNode, x)
      BY <1>2, <2>3 DEF AddToHead, h0, h1
    <2> HIDE DEF h2
    <2>6. g = [next |-> [h2.next EXCEPT ![HeadNode] = x], prev |-> h2.prev]
      BY <1>2, <2>4, <2>5, Setters
    <2> QED
      BY <2>1, <2>2, <2>4, <2>6
  <1> HIDE DEF g
  <1>4. g \in Heaps
    BY <1>1, <1>2, <1>3 DEF Heaps, Pointers
  <1>5. /\ \A y \in AllNodes : g.next[y] = IF y = HeadNode THEN x
                                           ELSE IF y = x THEN f ELSE h.next[y]
        /\ \A y \in AllNodes : g.prev[y] = IF y = f THEN x
                                           ELSE IF y = x THEN HeadNode ELSE h.prev[y]
    BY <1>1, <1>2, <1>3 DEF Heaps, Pointers
  <1>6. /\ b[0] = HeadNode /\ b[1] = x
        /\ \A i \in 2..(m + 2) : b[i] = a[i - 1] /\ i - 1 \in 1..(m + 1)
    BY DEF With
  <1>7. b \in [0..((m + 1) + 1) -> AllNodes]
    BY <1>1, <1>2 DEF With
  <1> HIDE DEF b, f
  <1>8. b \in Seatings(m + 1)
    <2>1. b[0] = HeadNode /\ b[(m + 1) + 1] = TailNode
      BY <1>1, <1>6
    <2>2. ASSUME NEW i \in 0..((m + 1) + 1), NEW j \in 0..((m + 1) + 1), i < j
          PROVE  b[i] # b[j]
      <3>1. j = 1 \/ j \in 2..(m + 2)
        BY <2>2
      <3>2. i = 0 \/ i = 1 \/ (i \in 2..(m + 2) /\ i - 1 # j - 1)
        BY <2>2
      <3>3. CASE j = 1
        BY <1>2, <1>6, <2>2, <3>2, <3>3
      <3>4. CASE j \in 2..(m + 2)
        <4>1. b[j] = a[j - 1] /\ j - 1 \in 0..(m + 1) /\ j - 1 # 0
          BY <1>6, <3>4
        <4>2. CASE i = 0
          BY <1>1, <1>6, <4>1, <4>2
        <4>3. CASE i = 1
          BY <1>6, <4>1, <4>3
        <4>4. CASE i \in 2..(m + 2) /\ i - 1 # j - 1
          <5>1. b[i] = a[i - 1] /\ i - 1 \in 0..(m + 1)
            BY <1>6, <4>4
          <5> QED
            BY <1>1, <4>1, <4>4, <5>1
        <4> QED
          BY <3>2, <4>2, <4>3, <4>4
      <3> QED
        BY <3>1, <3>3, <3>4
    <2>3. \A i, j \in 0..((m + 1) + 1) : i # j => b[i] # b[j]
      BY <2>2
    <2> QED
      BY <1>7, <2>1, <2>3 DEF Seatings
  <1>9. ASSUME NEW i \in 0..(m + 1)
        PROVE  g.next[b[i]] = b[i + 1] /\ g.prev[b[i + 1]] = b[i]
    <2>1. CASE i = 0
      <3>1. b[i] = HeadNode /\ b[i + 1] = x
        BY <1>6, <2>1
      <3> QED
        BY <1>2, <1>5, <3>1
    <2>2. CASE i = 1
      <3>1. b[i] = x /\ b[i + 1] = f
        BY <1>6, <2>2 DEF f
      <3> QED
        BY <1>2, <1>5, <3>1
    <2>3. CASE i \in 2..(m + 1)
      <3>1. /\ b[i] = a[i - 1] /\ b[i + 1] = a[(i - 1) + 1]
            /\ i - 1 \in 1..m /\ i - 1 \in 0..m
        BY <1>6, <2>3
      <3>2. /\ a[i - 1] \in AllNodes /\ a[(i - 1) + 1] \in AllNodes
            /\ a[i - 1] # HeadNode /\ a[i - 1] # x /\ a[(i - 1) + 1] # f
            /\ a[(i - 1) + 1] # x
        <4>1. /\ i - 1 \in 0..(m + 1) /\ (i - 1) + 1 \in 0..(m + 1) /\ 1 \in 0..(m + 1)
              /\ i - 1 # 0 /\ (i - 1) + 1 # 1 /\ 0 \in 0..(m + 1)
          BY <2>3
        <4> QED
          BY <1>1, <4>1 DEF f
      <3>3. h.next[a[i - 1]] = a[(i - 1) + 1] /\ h.prev[a[(i - 1) + 1]] = a[i - 1]
        BY <1>1, <3>1
      <3> QED
        BY <1>5, <3>1, <3>2, <3>3
    <2> QED
      BY <2>1, <2>2, <2>3
  <1>10. g.prev[HeadNode] = None /\ g.next[TailNode] = None
    BY <1>1, <1>2, <1>5, NodeAssumption DEF AllNodes
  <1> QED
    BY <1>4, <1>8, <1>9, <1>10 DEF Linked, g, b

(* Releasing nodes that are not in the list does not disturb it. *)
LEMMA ScrubLinked ==
  ASSUME NEW m \in Nat, NEW a, NEW h, Linked(h, a, m), NEW kept,
         \A i \in 1..m : a[i] \in kept
  PROVE  Linked([next |-> Scrub(h.next, kept), prev |-> Scrub(h.prev, kept)], a, m)
  <1> DEFINE g == [next |-> Scrub(h.next, kept), prev |-> Scrub(h.prev, kept)]
  <1>1. /\ h \in Heaps /\ a \in [0..(m + 1) -> AllNodes]
        /\ \A i \in 0..m : h.next[a[i]] = a[i + 1] /\ h.prev[a[i + 1]] = a[i]
        /\ a[0] = HeadNode /\ a[m + 1] = TailNode
        /\ h.prev[HeadNode] = None /\ h.next[TailNode] = None
    BY DEF Linked, Seatings
  <1>2. g \in Heaps
    BY <1>1 DEF Scrub, Heaps, Pointers
  <1>3. \A y \in AllNodes \cap (kept \cup {HeadNode, TailNode}) :
          g.next[y] = h.next[y] /\ g.prev[y] = h.prev[y]
    BY DEF Scrub
  <1> HIDE DEF g
  <1>4. \A i \in 0..(m + 1) : a[i] \in AllNodes \cap (kept \cup {HeadNode, TailNode})
    <2> SUFFICES ASSUME NEW i \in 0..(m + 1)
                 PROVE  a[i] \in kept \cup {HeadNode, TailNode}
      BY <1>1
    <2>1. i = 0 \/ i = m + 1 \/ i \in 1..m
      OBVIOUS
    <2> QED
      BY <1>1, <2>1
  <1>5. \A i \in 0..m : i \in 0..(m + 1) /\ i + 1 \in 0..(m + 1)
    OBVIOUS
  <1>6. \A i \in 0..m : g.next[a[i]] = a[i + 1] /\ g.prev[a[i + 1]] = a[i]
    BY <1>1, <1>3, <1>4, <1>5
  <1>7. g.prev[HeadNode] = None /\ g.next[TailNode] = None
    BY <1>1, <1>3 DEF AllNodes
  <1> QED
    BY <1>2, <1>6, <1>7 DEF Linked, g

-----------------------------------------------------------------------------
(* The seating that a dictionary c and an order of use r call for. *)
Seats(c, r) ==
  [i \in 0..(Len(r) + 1) |->
     IF i = 0 THEN HeadNode ELSE IF i > Len(r) THEN TailNode ELSE c[r[i]]]

(* A heap h, a dictionary c, payloads kf and vf and a set of live nodes    *)
(* are those of a cache whose keys were last used in the order r.          *)
Coherent(h, c, r, kf, vf, kept) ==
  /\ r \in Seq(Keys) /\ IsInjective(r)
  /\ c \in [Keys -> Nodes \cup {None}]
  /\ {k \in Keys : c[k] # None} = ToSet(r)
  /\ kf \in [AllNodes -> Keys \cup {None}] /\ vf \in [AllNodes -> Values \cup {None}]
  /\ kept = {c[k] : k \in ToSet(r)}
  /\ \A k \in ToSet(r) : kf[c[k]] = k /\ vf[c[k]] \in Values
  /\ Linked(h, Seats(c, r), Len(r))

(* What an order and the seats it calls for have in common. *)
LEMMA SeatsOfKeys ==
  ASSUME NEW h, NEW c, NEW r, NEW kf, NEW vf, NEW kept,
         Coherent(h, c, r, kf, vf, kept)
  PROVE  /\ Len(r) \in Nat
         /\ \A i \in 1..Len(r) : /\ r[i] \in ToSet(r) /\ r[i] \in Keys
                                 /\ Seats(c, r)[i] = c[r[i]] /\ c[r[i]] \in kept
         /\ \A k \in ToSet(r) : /\ k \in Keys /\ c[k] \in Nodes /\ c[k] \in kept
                               /\ \E i \in 1..Len(r) : r[i] = k /\ Seats(c, r)[i] = c[k]
         /\ kept \subseteq Nodes
         /\ \A j, k \in ToSet(r) : c[j] = c[k] => j = k
  <1>1. r \in Seq(Keys) /\ kept = {c[k] : k \in ToSet(r)}
    BY DEF Coherent
  <1>2. Len(r) \in Nat /\ ToSet(r) = {r[i] : i \in 1..Len(r)}
        /\ \A i \in 1..Len(r) : r[i] \in Keys
    BY <1>1 DEF ToSet
  <1>3. \A i \in 1..Len(r) : Seats(c, r)[i] = c[r[i]]
    BY <1>2 DEF Seats
  <1>4. \A k \in ToSet(r) : k \in Keys /\ c[k] \in Nodes
    BY DEF Coherent
  <1>5. \A j, k \in ToSet(r) : c[j] = c[k] => j = k
    BY DEF Coherent
  <1> QED
    BY <1>1, <1>2, <1>3, <1>4, <1>5

(* A repetition-free sequence is as long as it has elements. *)
LEMMA DistinctCardinality ==
  ASSUME NEW S, NEW s \in Seq(S), IsInjective(s)
  PROVE  IsFiniteSet(ToSet(s)) /\ Cardinality(ToSet(s)) = Len(s)
  <1>1. Len(s) \in Nat /\ ToSet(s) = {s[i] : i \in 1..Len(s)}
    BY DEF ToSet
  <1>2. s \in [1..Len(s) -> ToSet(s)]
    BY <1>1
  <1>3. s \in Bijection(1..Len(s), ToSet(s))
    BY <1>1, <1>2 DEF Bijection, Injection, Surjection, IsInjective
  <1>4. ExistsBijection(1..Len(s), ToSet(s))
    BY <1>3 DEF ExistsBijection
  <1> QED
    BY <1>1, <1>4, FS_NatBijection, FS_CountingElements

(* moveToHead of a resident key's node, whatever becomes of its value. *)
LEMMA RefreshCoherent ==
  ASSUME NEW h, NEW c, NEW r, NEW kf, NEW vf, NEW kept,
         Coherent(h, c, r, kf, vf, kept), NEW k \in ToSet(r)
  PROVE  Coherent(MoveToHead(h, c[k]), c, MoveToFront(r, k), kf, vf, kept)
  <1> DEFINE m == Len(r)
             a == Seats(c, r)
             f == MoveToFront(r, k)
             p == PositionOf(r, k)
             x == c[k]
  <1>1. /\ r \in Seq(Keys) /\ IsInjective(r) /\ m \in Nat /\ k \in Keys /\ x \in Nodes
        /\ Linked(h, a, m)
    BY SeatsOfKeys DEF Coherent
  <1>2. /\ f \in Seq(Keys) /\ Len(f) = m /\ f[1] = k
        /\ p \in 1..m /\ r[p] = k
        /\ \A j \in 2..p : f[j] = r[j - 1]
        /\ \A j \in (p + 1)..m : f[j] = r[j]
    <2>1. r \in Seq(Keys) /\ k \in ToSet(r)
      BY <1>1
    <2> HIDE DEF m, a, x
    <2>2. /\ PositionOf(r, k) \in 1..Len(r) /\ r[PositionOf(r, k)] = k
          /\ f \in Seq(Keys) /\ Len(f) = Len(r) /\ f[1] = k
          /\ \A j \in 2..p : f[j] = r[j - 1]
          /\ \A j \in (p + 1)..Len(r) : f[j] = r[j]
      BY <2>1, MoveToFrontElements, Zenon
    <2> QED
      BY <2>2 DEF m
  <1>3. IsInjective(f) /\ ToSet(f) = ToSet(r)
    BY <1>1, MoveToFrontDistinct
  <1> HIDE DEF f, p
  <1>4. a[p] = x
    BY <1>2, SeatsOfKeys
  <1> DEFINE b == Without(a, m, p)
             d == With(b, m - 1, x)
  <1>5. Linked(RemoveNode(h, x), b, m - 1)
    BY <1>1, <1>2, <1>4, RemoveNodeLinked
  <1>6. \A i \in 0..((m - 1) + 1) : b[i] # x
    <2>1. /\ a \in Seatings(m) /\ \A i \in 0..m : b[i] = IF i < p THEN a[i] ELSE a[i + 1]
      BY <1>1 DEF Linked, Without
    <2> HIDE DEF a, b
    <2> QED
      BY <1>1, <1>2, <1>4, <2>1 DEF Seatings
  <1>7. Linked(MoveToHead(h, x), d, (m - 1) + 1)
    <2>1. m - 1 \in Nat
      BY <1>1, <1>2
    <2> HIDE DEF b, x, m
    <2> QED
      BY <1>1, <1>5, <1>6, <2>1, AddToHeadLinked DEF MoveToHead
  <1>8. d = Seats(c, f)
    <2>1. /\ DOMAIN d = 0..(m + 1) /\ d = [i \in 0..(m + 1) |-> d[i]]
          /\ Seats(c, f) = [i \in 0..(m + 1) |-> Seats(c, f)[i]]
      BY <1>1, <1>2 DEF With, Seats
    <2>2. ASSUME NEW i \in 0..(m + 1) PROVE d[i] = Seats(c, f)[i]
      <3>1. /\ d[i] = IF i = 0 THEN HeadNode ELSE IF i = 1 THEN x ELSE b[i - 1]
            /\ (i > 1 => b[i - 1] = IF i - 1 < p THEN a[i - 1] ELSE a[(i - 1) + 1])
        BY <1>1 DEF With, Without
      <3>2. Seats(c, f)[i] = IF i = 0 THEN HeadNode ELSE IF i > m THEN TailNode ELSE c[f[i]]
        BY <1>2 DEF Seats
      <3>3. \A j \in 0..(m + 1) :
              a[j] = IF j = 0 THEN HeadNode ELSE IF j > m THEN TailNode ELSE c[r[j]]
        BY DEF Seats
      <3> HIDE DEF a, b, d
      <3>4. CASE i = 0
        BY <3>1, <3>2, <3>4
      <3>5. CASE i = 1
        BY <1>2, <3>1, <3>2, <3>5
      <3>6. CASE i \in 2..p
        <4>1. i - 1 \in 0..(m + 1) /\ i - 1 # 0 /\ ~(i - 1 > m) /\ ~(i > m) /\ i - 1 < p
          BY <1>1, <1>2, <3>6
        <4> QED
          BY <1>2, <3>1, <3>2, <3>3, <3>6, <4>1
      <3>7. CASE i \in (p + 1)..m
        <4>1. (i - 1) + 1 = i /\ i # 0 /\ i # 1 /\ i > 1 /\ ~(i - 1 < p) /\ ~(i > m)
          BY <1>2, <3>7
        <4> QED
          BY <1>2, <3>1, <3>2, <3>3, <3>7, <4>1
      <3>8. CASE i = m + 1
        <4>1. (i - 1) + 1 = i /\ i # 0 /\ i # 1 /\ i > 1 /\ ~(i - 1 < p) /\ i > m
          BY <1>1, <1>2, <3>8
        <4> QED
          BY <3>1, <3>2, <3>3, <4>1
      <3>9. i = 0 \/ i = 1 \/ i \in 2..p \/ i \in (p + 1)..m \/ i = m + 1
        <4>1. m \in Nat /\ p \in 1..m /\ i \in 0..(m + 1)
          BY <1>1, <1>2
        <4> HIDE DEF m
        <4> QED
          BY <4>1
      <3> QED
        BY <3>4, <3>5, <3>6, <3>7, <3>8, <3>9
    <2> HIDE DEF d
    <2> QED
      BY <2>1, <2>2
  <1>9. Linked(MoveToHead(h, x), Seats(c, f), Len(f))
    <2>1. (m - 1) + 1 = Len(f)
      BY <1>1, <1>2
    <2> HIDE DEF d, m
    <2> QED
      BY <1>7, <1>8, <2>1
  <1> QED
    BY <1>2, <1>3, <1>9 DEF Coherent, f

(* addToHead of a new node x for a key k that is not resident. *)
LEMMA EnlistCoherent ==
  ASSUME NEW h, NEW c, NEW r, NEW kf, NEW vf, NEW kept,
         Coherent(h, c, r, kf, vf, kept),
         NEW k \in Keys, k \notin ToSet(r), NEW v \in Values,
         NEW x \in Nodes, x \notin kept
  PROVE  Coherent(AddToHead(h, x), [c EXCEPT ![k] = x], Cons(k, r),
                  [kf EXCEPT ![x] = k], [vf EXCEPT ![x] = v], kept \cup {x})
  <1> DEFINE m == Len(r)
             a == Seats(c, r)
             f == Cons(k, r)
             c1 == [c EXCEPT ![k] = x]
             kf1 == [kf EXCEPT ![x] = k]
             vf1 == [vf EXCEPT ![x] = v]
             d == With(a, m, x)
  <1>1. /\ r \in Seq(Keys) /\ IsInjective(r) /\ m \in Nat /\ Linked(h, a, m)
        /\ c \in [Keys -> Nodes \cup {None}] /\ {j \in Keys : c[j] # None} = ToSet(r)
        /\ kf \in [AllNodes -> Keys \cup {None}] /\ vf \in [AllNodes -> Values \cup {None}]
        /\ kept = {c[j] : j \in ToSet(r)}
        /\ \A j \in ToSet(r) : kf[c[j]] = j /\ vf[c[j]] \in Values
    BY SeatsOfKeys DEF Coherent
  <1>2. x # None /\ x # HeadNode /\ x # TailNode /\ x \in AllNodes
    BY NodeAssumption DEF AllNodes
  <1>3. /\ f \in Seq(Keys) /\ Len(f) = m + 1 /\ f[1] = k
        /\ \A j \in 2..(m + 1) : f[j] = r[j - 1]
    BY <1>1, ConsElements
  <1>4. IsInjective(f) /\ ToSet(f) = ToSet(r) \cup {k}
    BY <1>1, ConsDistinct
  <1>5. \A i \in 0..(m + 1) : a[i] # x
    <2>1. \A i \in 1..m : a[i] \in kept
      BY SeatsOfKeys
    <2>2. a[0] = HeadNode /\ a[m + 1] = TailNode
      BY <1>1 DEF Linked, Seatings
    <2> HIDE DEF a
    <2>3. \A i \in 0..(m + 1) : i = 0 \/ i = m + 1 \/ i \in 1..m
      BY <1>1
    <2> QED
      BY <1>2, <2>1, <2>2, <2>3
  <1>6. Linked(AddToHead(h, x), d, m + 1)
    <2> HIDE DEF a, m
    <2> QED
      BY <1>1, <1>5, AddToHeadLinked
  <1>7. d = Seats(c1, f)
    <2>1. /\ d = [i \in 0..(m + 2) |-> d[i]]
          /\ Seats(c1, f) = [i \in 0..(m + 2) |-> Seats(c1, f)[i]]
      BY <1>1, <1>3 DEF With, Seats
    <2>2. ASSUME NEW i \in 0..(m + 2) PROVE d[i] = Seats(c1, f)[i]
      <3>1. d[i] = IF i = 0 THEN HeadNode ELSE IF i = 1 THEN x ELSE a[i - 1]
        BY DEF With
      <3>2. Seats(c1, f)[i] =
              IF i = 0 THEN HeadNode ELSE IF i > m + 1 THEN TailNode ELSE c1[f[i]]
        BY <1>1, <1>3 DEF Seats
      <3>3. \A j \in 0..(m + 1) :
              a[j] = IF j = 0 THEN HeadNode ELSE IF j > m THEN TailNode ELSE c[r[j]]
        BY DEF Seats
      <3> HIDE DEF a, d, f
      <3>4. CASE i = 0
        BY <3>1, <3>2, <3>4
      <3>5. CASE i = 1
        <4>1. ~(i > m + 1) /\ c1[f[i]] = x
          BY <1>1, <1>3, <3>5
        <4> QED
          BY <3>1, <3>2, <3>5, <4>1
      <3>6. CASE i \in 2..(m + 1)
        <4>1. /\ i - 1 \in 1..m /\ i - 1 \in 0..(m + 1) /\ i - 1 # 0 /\ ~(i - 1 > m)
              /\ i # 0 /\ i # 1 /\ ~(i > m + 1)
          BY <1>1, <3>6
        <4>2. f[i] = r[i - 1] /\ r[i - 1] \in Keys /\ r[i - 1] # k
          <5>1. r[i - 1] \in ToSet(r) /\ r[i - 1] \in Keys
            BY <4>1, SeatsOfKeys
          <5> QED
            BY <1>3, <3>6, <5>1
        <4>3. c1[f[i]] = c[r[i - 1]]
          BY <1>1, <4>2
        <4> QED
          BY <3>1, <3>2, <3>3, <4>1, <4>3
      <3>7. CASE i = m + 2
        <4>1. /\ i - 1 = m + 1 /\ i - 1 \in 0..(m + 1) /\ i - 1 # 0 /\ i - 1 > m
              /\ i # 0 /\ i # 1 /\ i > m + 1
          BY <1>1, <3>7
        <4> QED
          BY <3>1, <3>2, <3>3, <4>1
      <3>8. i = 0 \/ i = 1 \/ i \in 2..(m + 1) \/ i = m + 2
        <4>1. m \in Nat /\ i \in 0..(m + 2)
          BY <1>1
        <4> HIDE DEF m
        <4> QED
          BY <4>1
      <3> QED
        BY <3>4, <3>5, <3>6, <3>7, <3>8
    <2> HIDE DEF d
    <2> QED
      BY <2>1, <2>2
  <1>8. Linked(AddToHead(h, x), Seats(c1, f), Len(f))
    BY <1>3, <1>6, <1>7
  <1> HIDE DEF f, a, d, m
  <1>9. /\ c1 \in [Keys -> Nodes \cup {None}]
        /\ c1[k] = x /\ \A j \in Keys \ {k} : c1[j] = c[j]
    BY <1>1
  <1>10. {j \in Keys : c1[j] # None} = ToSet(f)
    BY <1>1, <1>2, <1>4, <1>9
  <1>11. ToSet(r) \subseteq Keys \ {k} /\ \A j \in ToSet(r) : c[j] \in AllNodes /\ c[j] # x
    BY <1>1, SeatsOfKeys DEF AllNodes
  <1>12. /\ kf1 \in [AllNodes -> Keys \cup {None}]
         /\ kf1[x] = k /\ \A y \in AllNodes \ {x} : kf1[y] = kf[y]
    BY <1>1, <1>2
  <1>13. /\ vf1 \in [AllNodes -> Values \cup {None}]
         /\ vf1[x] = v /\ \A y \in AllNodes \ {x} : vf1[y] = vf[y]
    BY <1>1, <1>2
  <1> HIDE DEF c1, kf1, vf1
  <1>14. kept \cup {x} = {c1[j] : j \in ToSet(f)}
    <2>1. \A j \in ToSet(r) : c1[j] = c[j]
      BY <1>9, <1>11
    <2> QED
      BY <1>1, <1>4, <1>9, <2>1
  <1>15. \A j \in ToSet(f) : kf1[c1[j]] = j /\ vf1[c1[j]] \in Values
    <2>1. \A j \in ToSet(r) : c1[j] = c[j] /\ c[j] \in AllNodes \ {x}
      BY <1>9, <1>11
    <2>2. \A j \in ToSet(r) : kf1[c1[j]] = j /\ vf1[c1[j]] \in Values
      BY <1>1, <1>12, <1>13, <2>1
    <2>3. kf1[c1[k]] = k /\ vf1[c1[k]] \in Values
      BY <1>9, <1>12, <1>13
    <2> QED
      BY <1>4, <2>2, <2>3
  <1> QED
    BY <1>3, <1>4, <1>8, <1>9, <1>10, <1>12, <1>13, <1>14, <1>15
    DEF Coherent, c1, f, kf1, vf1

(* The dictionary c without the key w. *)
Cut(c, w) == [c EXCEPT ![w] = None]

(* removeTail of a list that is not empty, and the removal of the evicted  *)
(* key from the dictionary: nothing retains the node afterwards.           *)
LEMMA EvictCoherent ==
  ASSUME NEW h, NEW c, NEW r, NEW kf, NEW vf, NEW kept,
         Coherent(h, c, r, kf, vf, kept), Len(r) > 0
  PROVE  LET w == Last(r)
             e == c[w]
             c2 == Cut(c, w)
             h2 == RemoveNode(h, e)
         IN  /\ w \in ToSet(r) /\ LastNode(h) = e /\ e \in Nodes
             /\ Coherent(h2, c2, Front(r), kf, vf, kept \ {e})
             /\ ToSet(Front(r)) = ToSet(r) \ {w}
             /\ ~Retained(e, h2, c2, kept \ {e})
  <1> DEFINE m == Len(r)
             a == Seats(c, r)
             f == Front(r)
             w == Last(r)
             e == c[w]
             c2 == Cut(c, w)
             h2 == RemoveNode(h, e)
             b == Without(a, m, m)
  <1>1. /\ r \in Seq(Keys) /\ IsInjective(r) /\ m \in Nat \ {0} /\ Linked(h, a, m)
        /\ c \in [Keys -> Nodes \cup {None}] /\ {j \in Keys : c[j] # None} = ToSet(r)
        /\ kf \in [AllNodes -> Keys \cup {None}] /\ vf \in [AllNodes -> Values \cup {None}]
        /\ kept = {c[j] : j \in ToSet(r)}
        /\ \A j \in ToSet(r) : kf[c[j]] = j /\ vf[c[j]] \in Values
    BY SeatsOfKeys DEF Coherent
  <1>2. /\ w = r[m] /\ m \in 1..m /\ w \in ToSet(r) /\ w \in Keys /\ e \in Nodes
        /\ a[m] = e /\ kf[e] = w
    <2>1. w = r[m] /\ m \in 1..m
      BY <1>1 DEF Last
    <2> QED
      BY <1>1, <2>1, SeatsOfKeys
  <1>3. /\ f \in Seq(Keys) /\ Len(f) = m - 1 /\ \A j \in 1..(m - 1) : f[j] = r[j]
    BY <1>1, FrontElements
  <1>4. IsInjective(f) /\ ToSet(f) = ToSet(r) \ {w}
    BY <1>1, FrontDistinct
  <1>5. LastNode(h) = e
    <2>1. /\ h.prev[a[m + 1]] = a[m] /\ a[m + 1] = TailNode /\ a[0] = HeadNode
      BY <1>1 DEF Linked, Seatings
    <2> HIDE DEF a
    <2> QED
      BY <1>2, <2>1, NodeAssumption DEF LastNode
  <1>6. Linked(h2, b, m - 1)
    <2> HIDE DEF a, m, w
    <2> QED
      BY <1>1, <1>2, RemoveNodeLinked
  <1>7. b = Seats(c2, f)
    <2>1. /\ b = [i \in 0..m |-> b[i]]
          /\ Seats(c2, f) = [i \in 0..m |-> Seats(c2, f)[i]]
      BY <1>1, <1>3 DEF Without, Seats
    <2>2. ASSUME NEW i \in 0..m PROVE b[i] = Seats(c2, f)[i]
      <3>1. b[i] = IF i < m THEN a[i] ELSE a[i + 1]
        BY DEF Without
      <3>2. Seats(c2, f)[i] =
              IF i = 0 THEN HeadNode ELSE IF i > m - 1 THEN TailNode ELSE c2[f[i]]
        BY <1>1, <1>3 DEF Seats
      <3>3. \A j \in 0..(m + 1) :
              a[j] = IF j = 0 THEN HeadNode ELSE IF j > m THEN TailNode ELSE c[r[j]]
        BY DEF Seats
      <3> HIDE DEF a, b, f, w
      <3>4. CASE i = 0
        BY <1>1, <3>1, <3>2, <3>3, <3>4
      <3>5. CASE i \in 1..(m - 1)
        <4>1. /\ i \in 1..m /\ i # m /\ i # 0 /\ i < m /\ ~(i > m - 1) /\ ~(i > m)
              /\ i \in 0..(m + 1)
          BY <1>1, <3>5
        <4>2. r[i] # w /\ r[i] \in Keys
          BY <1>1, <1>2, <4>1 DEF IsInjective
        <4>3. c2[f[i]] = c[r[i]]
          BY <1>1, <1>3, <3>5, <4>2 DEF Cut
        <4> QED
          BY <3>1, <3>2, <3>3, <4>1, <4>3
      <3>6. CASE i = m
        <4>1. /\ ~(i < m) /\ i # 0 /\ i > m - 1 /\ i + 1 \in 0..(m + 1) /\ i + 1 # 0
              /\ i + 1 > m
          BY <1>1, <3>6
        <4> QED
          BY <3>1, <3>2, <3>3, <4>1
      <3>7. i = 0 \/ i \in 1..(m - 1) \/ i = m
        <4>1. m \in Nat \ {0} /\ i \in 0..m
          BY <1>1
        <4> HIDE DEF m
        <4> QED
          BY <4>1
      <3> QED
        BY <3>4, <3>5, <3>6, <3>7
    <2> HIDE DEF b
    <2> QED
      BY <2>1, <2>2
  <1>8. Linked(h2, Seats(c2, f), Len(f))
    BY <1>3, <1>6, <1>7
  <1> HIDE DEF f, a, b, m, w, h2
  <1>9. /\ c2 \in [Keys -> Nodes \cup {None}]
        /\ c2[w] = None /\ \A j \in Keys \ {w} : c2[j] = c[j]
    BY <1>1, <1>2 DEF Cut
  <1>10. {j \in Keys : c2[j] # None} = ToSet(f)
    BY <1>1, <1>4, <1>9
  <1>11. \A j \in ToSet(f) : j \in ToSet(r) /\ c2[j] = c[j] /\ c[j] # e
    <2>1. \A j \in ToSet(f) : j \in ToSet(r) /\ j \in Keys \ {w}
      BY <1>1, <1>4
    <2>2. \A j \in ToSet(r) : c[j] = e => j = w
      BY <1>2, SeatsOfKeys
    <2> QED
      BY <1>9, <2>1, <2>2
  <1> HIDE DEF c2
  <1>12. kept \ {e} = {c2[j] : j \in ToSet(f)}
    <2>1. kept \ {e} \subseteq {c2[j] : j \in ToSet(f)}
      <3> SUFFICES ASSUME NEW j \in ToSet(r), c[j] # e
                   PROVE  c[j] \in {c2[i] : i \in ToSet(f)}
        BY <1>1
      <3>1. j \in ToSet(f)
        BY <1>4
      <3> QED
        BY <1>11, <3>1
    <2>2. \A j \in ToSet(f) : c2[j] \in kept \ {e}
      BY <1>1, <1>11
    <2> HIDE DEF e
    <2> QED
      BY <2>1, <2>2
  <1>13. Coherent(h2, c2, f, kf, vf, kept \ {e})
    BY <1>1, <1>3, <1>4, <1>8, <1>9, <1>10, <1>11, <1>12 DEF Coherent
  <1>14. ~Retained(e, h2, c2, kept \ {e})
    <2>1. \A k \in Keys : c2[k] # e
      BY <1>1, <1>2, <1>9, <1>10, <1>11, NodeAssumption
    <2> DEFINE g == Seats(c2, f)
               n == Len(f)
    <2>2. /\ n \in Nat /\ g[0] = HeadNode /\ g[n + 1] = TailNode
          /\ h2.prev[HeadNode] = None /\ h2.next[TailNode] = None
          /\ \A i \in 0..n : h2.next[g[i]] = g[i + 1] /\ h2.prev[g[i + 1]] = g[i]
      BY <1>3, <1>8 DEF Linked, Seatings
    <2>3. \A i \in 1..n : g[i] \in kept \ {e}
      BY <1>13, SeatsOfKeys
    <2>4. \A y \in kept \ {e} : \E i \in 1..n : g[i] = y
      <3> SUFFICES ASSUME NEW j \in ToSet(f) PROVE \E i \in 1..n : g[i] = c2[j]
        BY <1>12
      <3> QED
        BY <1>13, SeatsOfKeys
    <2>5. \A i \in 0..(n + 1) : g[i] # e
      <3>1. \A i \in 0..(n + 1) : i = 0 \/ i = n + 1 \/ i \in 1..n
        BY <2>2
      <3>2. e # HeadNode /\ e # TailNode
        BY <1>2, NodeAssumption
      <3> HIDE DEF g, n
      <3> QED
        BY <2>2, <2>3, <3>1, <3>2
    <2>6. e # None
      BY <1>2, NodeAssumption
    <2> HIDE DEF g, n
    <2>7. \A i \in 1..n : /\ i \in 0..n /\ i - 1 \in 0..n /\ (i - 1) + 1 = i
                         /\ i + 1 \in 0..(n + 1) /\ i - 1 \in 0..(n + 1)
      BY <2>2
    <2>8. ASSUME NEW i \in 1..n PROVE h2.next[g[i]] # e /\ h2.prev[g[i]] # e
      <3>1. h2.next[g[i]] = g[i + 1] /\ g[i + 1] # e
        BY <2>2, <2>5, <2>7
      <3>2. h2.prev[g[i]] = g[i - 1] /\ g[i - 1] # e
        BY <2>2, <2>5, <2>7
      <3> QED
        BY <3>1, <3>2
    <2>9. h2.next[HeadNode] # e /\ h2.prev[TailNode] # e
      <3>1. 0 \in 0..n /\ n \in 0..n /\ 0 + 1 \in 0..(n + 1) /\ n \in 0..(n + 1)
        BY <2>2
      <3>2. h2.next[HeadNode] = g[0 + 1] /\ h2.prev[TailNode] = g[n]
        BY <2>2, <3>1
      <3> QED
        BY <2>5, <3>1, <3>2
    <2>10. \A y \in (kept \ {e}) \cup {HeadNode, TailNode} : h2.next[y] # e /\ h2.prev[y] # e
      BY <2>2, <2>4, <2>6, <2>8, <2>9
    <2> QED
      BY <2>1, <2>10 DEF Retained
  <1> QED
    BY <1>2, <1>4, <1>5, <1>13, <1>14 DEF f, w, c2, h2

(* Reference counting clears the fields of what it releases. *)
LEMMA ScrubCoherent ==
  ASSUME NEW h, NEW c, NEW r, NEW kf, NEW vf, NEW kept,
         Coherent(h, c, r, kf, vf, kept)
  PROVE  Coherent([next |-> Scrub(h.next, kept), prev |-> Scrub(h.prev, kept)],
                  c, r, Scrub(kf, kept), Scrub(vf, kept), kept)
  <1>1. /\ \A k \in ToSet(r) : c[k] \in kept /\ c[k] \in AllNodes
        /\ \A i \in 1..Len(r) : Seats(c, r)[i] \in kept
        /\ Len(r) \in Nat
    BY SeatsOfKeys DEF AllNodes
  <1>2. Linked([next |-> Scrub(h.next, kept), prev |-> Scrub(h.prev, kept)],
               Seats(c, r), Len(r))
    BY <1>1, ScrubLinked DEF Coherent
  <1>3. /\ Scrub(kf, kept) \in [AllNodes -> Keys \cup {None}]
        /\ Scrub(vf, kept) \in [AllNodes -> Values \cup {None}]
    BY DEF Scrub, Coherent
  <1>4. \A k \in ToSet(r) : /\ Scrub(kf, kept)[c[k]] = kf[c[k]]
                          /\ Scrub(vf, kept)[c[k]] = vf[c[k]]
    BY <1>1 DEF Scrub
  <1> QED
    BY <1>2, <1>3, <1>4 DEF Coherent

-----------------------------------------------------------------------------
(* The inductive invariant: the four invariants need one another.  The     *)
(* splices are right because the nodes stand where the order of use says,  *)
(* the eviction because they carry their keys, and a node can be allocated *)
(* because the evicted ones are released.                                  *)
IInv == TypeOK /\ ListMirrorsRecency /\ CacheNamesItsNode /\ EvictedNodesReleased

(* A state of the invariant is coherent. *)
LEMMA InvIsCoherent ==
  ASSUME IInv
  PROVE  /\ Coherent(heap, cache, recency, key, value, live)
         /\ Resident = ToSet(recency) /\ Len(recency) \in Nat
         /\ Len(recency) <= EffectiveCapacity
         /\ result \in Values \cup {None}
  <1> DEFINE n == Len(recency)
             a == Seats(cache, recency)
  <1>1. /\ recency \in Seq(Keys) /\ n \in Nat /\ IsInjective(recency)
        /\ Resident = ToSet(recency) /\ Resident = {k \in Keys : cache[k] # None}
        /\ cache \in [Keys -> Nodes \cup {None}] /\ live \subseteq Nodes
        /\ key \in [AllNodes -> Keys \cup {None}]
        /\ value \in [AllNodes -> Values \cup {None}]
        /\ result \in Values \cup {None}
    BY DEF IInv, TypeOK, ListMirrorsRecency, Resident
  <1>2. /\ live = {cache[k] : k \in ToSet(recency)}
        /\ \A k \in ToSet(recency) : key[cache[k]] = k /\ value[cache[k]] \in Values
    <2>1. live = {cache[k] : k \in Resident}
      BY DEF IInv, EvictedNodesReleased
    <2>2. \A k \in Resident : cache[k] \in live /\ key[cache[k]] = k
      BY DEF IInv, CacheNamesItsNode
    <2>3. \A x \in live : value[x] \in Values
      BY DEF IInv, TypeOK
    <2> QED
      BY <1>1, <2>1, <2>2, <2>3
  <1>3. n <= EffectiveCapacity
    <2>1. Cardinality(Resident) = n
      BY <1>1, DistinctCardinality
    <2> QED
      BY <2>1 DEF IInv, EvictedNodesReleased
  <1>4. heap \in Heaps /\ heap.next = next /\ heap.prev = prev
    BY DEF IInv, TypeOK, heap, Heaps, Pointers
  <1>5. \A i \in 1..n : /\ recency[i] \in ToSet(recency) /\ recency[i] \in Keys
                       /\ cache[recency[i]] \in Nodes
    BY <1>1 DEF ToSet
  <1>6. \A i \in 0..(n + 1) : a[i] = At(i)
    BY DEF Seats, At
  <1>7. /\ a[0] = HeadNode /\ a[n + 1] = TailNode
        /\ \A i \in 1..n : a[i] = cache[recency[i]]
    BY <1>1 DEF Seats
  <1>8. a \in [0..(n + 1) -> AllNodes]
    BY <1>1, <1>5 DEF Seats, AllNodes
  <1>9. ASSUME NEW i \in 0..(n + 1), NEW j \in 0..(n + 1), i # j
        PROVE  a[i] # a[j]
    <2> HIDE DEF a, n
    <2>1. /\ i = 0 \/ i = n + 1 \/ i \in 1..n
          /\ j = 0 \/ j = n + 1 \/ j \in 1..n
      BY <1>1
    <2>2. CASE i \in 1..n /\ j \in 1..n
      <3>1. recency[i] # recency[j]
        BY <1>1, <1>9, <2>2 DEF IsInjective, n
      <3>2. key[a[i]] = recency[i] /\ key[a[j]] = recency[j]
        BY <1>2, <1>5, <1>7, <2>2
      <3> QED
        BY <3>1, <3>2
    <2>3. CASE i \in 1..n /\ j \notin 1..n
      BY <1>5, <1>7, <2>1, <2>3, NodeAssumption
    <2>4. CASE i \notin 1..n /\ j \in 1..n
      BY <1>5, <1>7, <2>1, <2>4, NodeAssumption
    <2>5. CASE i \notin 1..n /\ j \notin 1..n
      BY <1>7, <1>9, <2>1, <2>5, NodeAssumption
    <2> QED
      BY <2>2, <2>3, <2>4, <2>5
  <1>10. a \in Seatings(n)
    BY <1>7, <1>8, <1>9 DEF Seatings
  <1>11. /\ \A i \in 0..n : next[a[i]] = a[i + 1] /\ prev[a[i + 1]] = a[i]
         /\ prev[HeadNode] = None /\ next[TailNode] = None
    <2>1. \A i \in 0..n : i \in 0..(n + 1) /\ i + 1 \in 0..(n + 1)
      BY <1>1
    <2>2. \A i \in 0..n : next[At(i)] = At(i + 1) /\ prev[At(i + 1)] = At(i)
      BY DEF IInv, ListMirrorsRecency
    <2>3. prev[HeadNode] = None /\ next[TailNode] = None
      BY DEF IInv, ListMirrorsRecency
    <2> HIDE DEF a, n
    <2> QED
      BY <1>6, <2>1, <2>2, <2>3
  <1>12. Linked(heap, a, n)
    BY <1>4, <1>10, <1>11 DEF Linked
  <1> QED
    BY <1>1, <1>2, <1>3, <1>12 DEF Coherent

(* A step to a coherent state within the capacity keeps the invariant. *)
LEMMA CoherentIsInv ==
  ASSUME Coherent(heap', cache', recency', key', value', live'),
         Len(recency') <= EffectiveCapacity, result' \in Values \cup {None}
  PROVE  IInv'
  <1> DEFINE n == Len(recency')
             a == Seats(cache', recency')
  <1>1. /\ recency' \in Seq(Keys) /\ IsInjective(recency')
        /\ cache' \in [Keys -> Nodes \cup {None}]
        /\ {k \in Keys : cache'[k] # None} = ToSet(recency')
        /\ key' \in [AllNodes -> Keys \cup {None}]
        /\ value' \in [AllNodes -> Values \cup {None}]
        /\ live' = {cache'[k] : k \in ToSet(recency')}
        /\ \A k \in ToSet(recency') : key'[cache'[k]] = k /\ value'[cache'[k]] \in Values
        /\ Linked(heap', a, n)
    BY DEF Coherent
  <1>2. n \in Nat /\ live' \subseteq Nodes
    BY SeatsOfKeys
  <1>3. Resident' = ToSet(recency')
    BY <1>1 DEF Resident
  <1>4. heap'.next = next' /\ heap'.prev = prev'
    BY DEF heap
  <1>5. /\ next' \in Pointers /\ prev' \in Pointers
        /\ \A i \in 0..n : next'[a[i]] = a[i + 1] /\ prev'[a[i + 1]] = a[i]
        /\ prev'[HeadNode] = None /\ next'[TailNode] = None
    BY <1>1, <1>4 DEF Linked, Heaps
  <1>6. TypeOK'
    <2>1. \A x \in live' : key'[x] \in Keys /\ value'[x] \in Values
      BY <1>1
    <2> QED
      BY <1>1, <1>2, <1>5, <2>1 DEF TypeOK, Pointers
  <1>7. ListMirrorsRecency'
    <2>1. \A i \in 0..(n + 1) : a[i] = At(i)'
      BY DEF Seats, At
    <2>2. \A i \in 0..n : i \in 0..(n + 1) /\ i + 1 \in 0..(n + 1)
      BY <1>2
    <2>3. \A i \in 0..n : next'[At(i)'] = At(i + 1)' /\ prev'[At(i + 1)'] = At(i)'
      <3> HIDE DEF a, n
      <3> QED
        BY <1>5, <2>1, <2>2
    <2> QED
      BY <1>1, <1>3, <1>5, <2>3 DEF ListMirrorsRecency
  <1>8. CacheNamesItsNode'
    BY <1>1, <1>3 DEF CacheNamesItsNode
  <1>9. EvictedNodesReleased'
    BY <1>1, <1>3, DistinctCardinality DEF EvictedNodesReleased
  <1> QED
    BY <1>6, <1>7, <1>8, <1>9 DEF IInv

-----------------------------------------------------------------------------
(* The empty list of the initialiser. *)
LEMMA InitInv == Init => IInv
  <1> SUFFICES ASSUME Init PROVE IInv
    OBVIOUS
  <1>1. recency = <<>> /\ Len(recency) = 0 /\ recency \in Seq(Keys) /\ ToSet(recency) = {}
    BY DEF Init, ToSet
  <1>2. /\ next \in [AllNodes -> AllNodes \cup {None}]
        /\ prev \in [AllNodes -> AllNodes \cup {None}]
        /\ next[HeadNode] = TailNode /\ prev[TailNode] = HeadNode
        /\ prev[HeadNode] = None /\ next[TailNode] = None
    BY NodeAssumption DEF Init, AllNodes
  <1>3. Resident = {} /\ live = {} /\ cache \in [Keys -> Nodes \cup {None}]
    BY DEF Init, Resident
  <1>4. TypeOK
    BY <1>1, <1>2, <1>3 DEF Init, TypeOK
  <1>5. ListMirrorsRecency
    <2>1. At(0) = HeadNode /\ At(0 + 1) = TailNode
      BY <1>1 DEF At
    <2>2. \A i \in 0..Len(recency) : i = 0
      BY <1>1
    <2> QED
      BY <1>1, <1>2, <1>3, <2>1, <2>2 DEF ListMirrorsRecency, IsInjective
  <1>6. CacheNamesItsNode
    BY <1>3 DEF CacheNamesItsNode
  <1>7. EvictedNodesReleased
    BY <1>3, FS_EmptySet, CapacityInNat DEF EvictedNodesReleased
  <1> QED
    BY <1>4, <1>5, <1>6, <1>7 DEF IInv

(* The insertion of a new node below capacity, and at capacity: there the  *)
(* node that leaves is that of the key used least recently.                *)
LEMMA InsertCoherent ==
  ASSUME IInv, NEW k \in Keys, NEW v \in Values, NEW n \in Nodes \ live,
         cache[k] = None, Insert(k, v, n)
  PROVE  LET grown == Cons(k, recency)
             c1    == [cache EXCEPT ![k] = n]
             key1  == [key EXCEPT ![n] = k]
             val1  == [value EXCEPT ![n] = v]
         IN  IF Len(grown) > EffectiveCapacity
             THEN /\ cache' = [c1 EXCEPT ![Last(grown)] = None]
                  /\ live' = (live \cup {n}) \ {c1[Last(grown)]}
                  /\ value' = Scrub(val1, live')
                  /\ Coherent(heap', cache', Front(grown), key', value', live')
             ELSE /\ cache' = c1 /\ live' = live \cup {n}
                  /\ value' = Scrub(val1, live')
                  /\ Coherent(heap', cache', grown, key', value', live')
  <1> DEFINE grown == Cons(k, recency)
             c1 == [cache EXCEPT ![k] = n]
             h1 == AddToHead(heap, n)
             key1 == [key EXCEPT ![n] = k]
             val1 == [value EXCEPT ![n] = v]
             over == Cardinality({j \in Keys : c1[j] # None}) > Capacity
             e == IF over THEN LastNode(h1) ELSE None
             c2 == IF e = None THEN c1 ELSE [c1 EXCEPT ![key1[e]] = None]
             h2 == IF e = None THEN h1 ELSE RemoveNode(h1, e)
             others == (live \cup {n}) \ {e}
             kept == IF e = None \/ Retained(e, h2, c2, others)
                     THEN live \cup {n} ELSE others
  <1>1. /\ cache' = c2 /\ live' = kept
        /\ key' = Scrub(key1, kept) /\ value' = Scrub(val1, kept)
        /\ next' = Scrub(h2.next, kept) /\ prev' = Scrub(h2.prev, kept)
    BY DEF Insert, SetHeap, NewKey, DropEntry
  <1>2. heap' = [next |-> Scrub(h2.next, kept), prev |-> Scrub(h2.prev, kept)]
    BY <1>1 DEF heap
  <1>3. /\ Coherent(heap, cache, recency, key, value, live)
        /\ Len(recency) \in Nat /\ k \notin ToSet(recency)
    BY InvIsCoherent DEF Resident
  <1>4. Coherent(h1, c1, grown, key1, val1, live \cup {n})
    BY <1>3, EnlistCoherent
  <1>5. Len(grown) = Len(recency) + 1
    BY <1>3, ConsElements DEF Coherent
  <1> HIDE DEF grown, c1, h1, key1, val1
  <1>6. over <=> Len(grown) > EffectiveCapacity
    <2>1. /\ {j \in Keys : c1[j] # None} = ToSet(grown)
          /\ grown \in Seq(Keys) /\ IsInjective(grown)
      BY <1>4 DEF Coherent
    <2>2. Cardinality(ToSet(grown)) = Len(grown)
      BY <2>1, DistinctCardinality
    <2>3. Len(grown) \in Nat \ {0}
      BY <1>3, <1>5
    <2> QED
      BY <2>2, <2>1, <2>3, CapacityInNat
  <1> HIDE DEF over
  <1>7. CASE ~over
    <2>1. e = None /\ c2 = c1 /\ h2 = h1 /\ kept = live \cup {n}
      BY <1>7
    <2> HIDE DEF c2, h2, kept, e, others
    <2>2. Coherent(heap', cache', grown, key', value', live')
      BY <1>1, <1>2, <1>4, <2>1, ScrubCoherent
    <2> QED
      BY <1>1, <1>6, <1>7, <2>1, <2>2 DEF grown, c1, val1
  <1>8. CASE over
    <2> DEFINE w == Last(grown)
    <2>1. Len(grown) > 0
      BY <1>3, <1>5
    <2>2. /\ w \in ToSet(grown) /\ LastNode(h1) = c1[w] /\ c1[w] \in Nodes
          /\ key1[c1[w]] = w
          /\ Coherent(RemoveNode(h1, c1[w]), [c1 EXCEPT ![w] = None], Front(grown),
                      key1, val1, (live \cup {n}) \ {c1[w]})
          /\ ~Retained(c1[w], RemoveNode(h1, c1[w]), [c1 EXCEPT ![w] = None],
                       (live \cup {n}) \ {c1[w]})
      <3> HIDE DEF e, c2, h2, others, kept
      <3> HIDE DEF e, c2, h2, others, kept
      <3> DEFINE l1 == live \cup {n}
      <3>0. Coherent(h1, c1, grown, key1, val1, l1) /\ Len(grown) > 0
        BY <1>4, <2>1
      <3> HIDE DEF l1
      <3>1. w \in ToSet(grown)
        BY <3>0, EvictCoherent
      <3>2. LastNode(h1) = c1[w] /\ c1[w] \in Nodes
        BY <3>0, EvictCoherent
      <3>3. key1[c1[w]] = w
        BY <1>4, <3>1 DEF Coherent
      <3>4. Coherent(RemoveNode(h1, c1[w]), Cut(c1, w), Front(grown), key1, val1, l1 \ {c1[w]})
        BY <3>0, EvictCoherent
      <3>5. ~Retained(c1[w], RemoveNode(h1, c1[w]), Cut(c1, w), l1 \ {c1[w]})
        BY <3>0, EvictCoherent
      <3> HIDE DEF w
      <3> QED
        BY <3>1, <3>2, <3>3, <3>4, <3>5 DEF Cut, l1
    <2>3. e = c1[w] /\ e # None
      BY <1>8, <2>2, NodeAssumption
    <2> HIDE DEF w, e
    <2>4. c2 = [c1 EXCEPT ![w] = None] /\ h2 = RemoveNode(h1, c1[w])
      BY <2>2, <2>3
    <2>5. kept = (live \cup {n}) \ {c1[w]}
      BY <2>2, <2>3, <2>4
    <2> HIDE DEF c2, h2, kept, others
    <2>6. Coherent(heap', cache', Front(grown), key', value', live')
      BY <1>1, <1>2, <2>2, <2>4, <2>5, ScrubCoherent
    <2> QED
      BY <1>1, <1>6, <1>8, <2>4, <2>5, <2>6 DEF grown, c1, val1, w
  <1> QED
    BY <1>7, <1>8

(* Every call keeps the inductive invariant. *)
LEMMA NextInv == IInv /\ [Next]_vars => IInv'
  <1> SUFFICES ASSUME IInv, [Next]_vars PROVE IInv'
    OBVIOUS
  <1>1. /\ Coherent(heap, cache, recency, key, value, live)
        /\ Resident = ToSet(recency) /\ recency \in Seq(Keys) /\ IsInjective(recency)
        /\ Len(recency) \in Nat /\ Len(recency) <= EffectiveCapacity
        /\ result \in Values \cup {None}
    BY InvIsCoherent DEF Coherent
  <1>2. ASSUME NEW k \in ToSet(recency)
        PROVE  /\ Coherent(MoveToHead(heap, cache[k]), cache, MoveToFront(recency, k),
                           key, value, live)
               /\ Len(MoveToFront(recency, k)) <= EffectiveCapacity
    BY <1>1, RefreshCoherent, MoveToFrontElements
  <1>3. ASSUME NEW h, SetHeap(h), h \in Heaps PROVE heap' = h
    BY <1>3 DEF SetHeap, heap, Heaps
  <1>4. ASSUME NEW k \in Keys, GetHit(k) PROVE IInv'
    <2> DEFINE h == MoveToHead(heap, cache[k])
               f == MoveToFront(recency, k)
    <2>1. k \in ToSet(recency)
      BY <1>1, <1>4 DEF GetHit, Resident
    <2>2. /\ SetHeap(h) /\ recency' = f
          /\ key' = key /\ value' = value /\ cache' = cache /\ live' = live
          /\ result' = value[cache[k]]
      BY <1>4 DEF GetHit
    <2>3. Coherent(h, cache, f, key, value, live) /\ Len(f) <= EffectiveCapacity
      BY <1>2, <2>1
    <2>4. value[cache[k]] \in Values
      BY <1>1, <2>1 DEF Coherent
    <2> HIDE DEF h, f
    <2>5. heap' = h
      BY <1>3, <2>2, <2>3 DEF Coherent, Linked
    <2> QED
      BY <2>2, <2>3, <2>4, <2>5, CoherentIsInv
  <1>5. ASSUME NEW k \in Keys, GetMiss(k) PROVE IInv'
    <2>1. /\ UNCHANGED <<next, prev, key, value, cache, live, recency>> /\ result' = None
      BY <1>5 DEF GetMiss
    <2>2. heap' = heap
      BY <2>1 DEF heap
    <2> QED
      BY <1>1, <2>1, <2>2, CoherentIsInv
  <1>6. ASSUME NEW k \in Keys, NEW v \in Values, PutHit(k, v) PROVE IInv'
    <2> DEFINE h == MoveToHead(heap, cache[k])
               f == MoveToFront(recency, k)
               val1 == [value EXCEPT ![cache[k]] = v]
    <2>1. k \in ToSet(recency)
      BY <1>1, <1>6 DEF PutHit, Resident
    <2>2. /\ SetHeap(h) /\ recency' = f
          /\ key' = key /\ value' = val1 /\ cache' = cache /\ live' = live
          /\ result' = result
      BY <1>6 DEF PutHit
    <2>3. Coherent(h, cache, f, key, value, live) /\ Len(f) <= EffectiveCapacity
      BY <1>2, <2>1
    <2> HIDE DEF h, f
    <2>4. Coherent(h, cache, f, key, val1, live)
      <3>1. /\ val1 \in [AllNodes -> Values \cup {None}]
            /\ \A j \in ToSet(f) : val1[cache[j]] \in Values
        <4>1. /\ value \in [AllNodes -> Values \cup {None}]
              /\ \A j \in ToSet(f) : value[cache[j]] \in Values
          BY <2>3 DEF Coherent
        <4>2. \A j \in ToSet(f) : cache[j] \in AllNodes
          BY <2>3, SeatsOfKeys DEF AllNodes
        <4> QED
          BY <4>1, <4>2
      <3> HIDE DEF val1
      <3> QED
        BY <2>3, <3>1 DEF Coherent
    <2> HIDE DEF val1
    <2>5. heap' = h
      BY <1>3, <2>2, <2>3 DEF Coherent, Linked
    <2> QED
      BY <1>1, <2>2, <2>3, <2>4, <2>5, CoherentIsInv
  <1>7. ASSUME NEW k \in Keys, NEW v \in Values, PutMiss(k, v) PROVE IInv'
    <2> DEFINE grown == Cons(k, recency)
    <2>1. cache[k] = None /\ result' = result
          /\ recency' = IF Len(grown) > EffectiveCapacity THEN Front(grown) ELSE grown
      BY <1>7 DEF PutMiss
    <2>2. PICK n \in Nodes \ live : Insert(k, v, n)
      BY <1>7 DEF PutMiss
    <2>3. Coherent(heap', cache', recency', key', value', live')
      BY <2>1, <2>2, InsertCoherent
    <2>4. grown \in Seq(Keys) /\ Len(grown) = Len(recency) + 1
      BY <1>1, ConsElements
    <2>5. Len(recency') <= EffectiveCapacity
      <3> HIDE DEF grown
      <3>1. CASE Len(grown) > EffectiveCapacity
        <4>1. Len(Front(grown)) = Len(grown) - 1
          BY <1>1, <2>4, FrontElements
        <4> QED
          BY <1>1, <2>1, <2>4, <3>1, <4>1
      <3>2. CASE ~(Len(grown) > EffectiveCapacity)
        BY <1>1, <2>1, <2>4, <3>2, CapacityInNat
      <3> QED
        BY <3>1, <3>2
    <2> QED
      BY <1>1, <2>1, <2>3, <2>5, CoherentIsInv
  <1>8. CASE UNCHANGED vars
    <2>1. /\ UNCHANGED <<next, prev, key, value, cache, live, recency>> /\ result' = result
      BY <1>8 DEF vars
    <2>2. heap' = heap
      BY <2>1 DEF heap
    <2> QED
      BY <1>1, <2>1, <2>2, CoherentIsInv
  <1> QED
    BY <1>4, <1>5, <1>6, <1>7, <1>8 DEF Next, Get, Put

(* The inductive invariant holds in every reachable state. *)
THEOREM Invariance == Spec => []IInv
  BY InitInv, NextInv, PTL DEF Spec

(* The variables keep their types, and every node of the list carries the  *)
(* key that put force-unwraps (ViewController.swift, line 85).             *)
THEOREM TypeCorrect == Spec => []TypeOK
  <1>1. IInv => TypeOK
    BY DEF IInv
  <1> QED
    BY <1>1, Invariance, PTL

(* The pointers spell out the resident keys in the order of their last use *)
(* (lines 31 to 54), in both directions.                                   *)
THEOREM ListAlwaysMirrorsRecency == Spec => []ListMirrorsRecency
  <1>1. IInv => ListMirrorsRecency
    BY DEF IInv
  <1> QED
    BY <1>1, Invariance, PTL

(* The entry of a key is a node that carries the key (lines 75 to 90). *)
THEOREM CacheAlwaysNamesItsNode == Spec => []CacheNamesItsNode
  <1>1. IInv => CacheNamesItsNode
    BY DEF IInv
  <1> QED
    BY <1>1, Invariance, PTL

(* No evicted node outlives the put that evicts it, and at most capacity   *)
(* keys are resident (lines 84 to 88).                                     *)
THEOREM EvictedNodesAlwaysReleased == Spec => []EvictedNodesReleased
  <1>1. IInv => EvictedNodesReleased
    BY DEF IInv
  <1> QED
    BY <1>1, Invariance, PTL

-----------------------------------------------------------------------------
(* The operators on sequences that the abstract cache uses are those of    *)
(* this module.                                                            *)
LEMMA SameSequenceOperators ==
  ASSUME NEW s, NEW e
  PROVE  /\ LRU!MoveToFront(s, e) = MoveToFront(s, e)
         /\ LRU!Cons(e, s) = Cons(e, s)
         /\ LRU!Front(s) = Front(s)
         /\ LRU!Last(s) = Last(s)
  BY DEF LRU!MoveToFront, MoveToFront, LRU!Cons, Cons, LRU!Front, Front,
         LRU!Last, Last, LRU!RemoveAt, RemoveAt, LRU!PositionOf, PositionOf

(* A key is resident for the abstract cache when the dictionary has it. *)
LEMMA SameResidents ==
  ASSUME IInv
  PROVE  /\ LRU!Resident = Resident
         /\ \A k \in Keys : store[k] = IF cache[k] = None THEN None ELSE value[cache[k]]
         /\ \A k \in Resident : k \in Keys /\ cache[k] # None /\ value[cache[k]] \in Values
         /\ store \in [Keys -> Values \cup {None}]
  <1>1. \A k \in Keys : store[k] = IF cache[k] = None THEN None ELSE value[cache[k]]
    BY DEF store
  <1>2. \A k \in Resident : k \in Keys /\ cache[k] # None /\ value[cache[k]] \in Values
    BY InvIsCoherent DEF Coherent, Resident
  <1>3. LRU!Resident = Resident
    BY <1>1, <1>2, NodeAssumption DEF LRU!Resident, Resident
  <1>4. store \in [Keys -> Values \cup {None}]
    BY <1>2 DEF store, Resident
  <1> QED
    BY <1>1, <1>2, <1>3, <1>4

(* put of a resident key. *)
LEMMA PutHitIsPut ==
  ASSUME IInv, NEW k \in Keys, NEW v \in Values, PutHit(k, v)
  PROVE  LRU!PutResident(k, v)
  <1>1. /\ k \in Resident /\ cache' = cache /\ value' = [value EXCEPT ![cache[k]] = v]
        /\ recency' = MoveToFront(recency, k) /\ result' = result
    BY DEF PutHit, Resident
  <1>2. \A j \in Resident : /\ j \in Keys /\ cache[j] \in AllNodes
                           /\ (cache[j] = cache[k] => j = k)
    BY <1>1, InvIsCoherent, SeatsOfKeys DEF AllNodes
  <1>3. value \in [AllNodes -> Values \cup {None}]
    BY DEF IInv, TypeOK
  <1>4. ASSUME NEW j \in Keys
        PROVE  store'[j] = IF j = k THEN v ELSE store[j]
    <2>1. store'[j] = IF cache[j] = None THEN None ELSE value'[cache[j]]
      BY <1>1 DEF store
    <2>2. store[j] = IF cache[j] = None THEN None ELSE value[cache[j]]
      BY DEF store
    <2>3. CASE cache[j] = None
      BY <1>1, <2>1, <2>2, <2>3 DEF Resident
    <2>4. CASE cache[j] # None
      <3>1. j \in Resident
        BY <2>4 DEF Resident
      <3> QED
        BY <1>1, <1>2, <1>3, <2>1, <2>2, <2>4, <3>1
    <2> QED
      BY <2>3, <2>4
  <1>5. store' = [j \in Keys |-> store'[j]] /\ DOMAIN store = Keys
    BY DEF store
  <1>6. store' = [store EXCEPT ![k] = v]
    <2>1. [store EXCEPT ![k] = v] = [j \in Keys |-> IF j = k THEN v ELSE store[j]]
      BY DEF store
    <2> QED
      BY <1>4, <1>5, <2>1
  <1> QED
    BY <1>1, <1>6, SameResidents, SameSequenceOperators DEF LRU!PutResident

(* put of a new key, below capacity and at capacity. *)
LEMMA PutMissIsPut ==
  ASSUME IInv, NEW k \in Keys, NEW v \in Values, PutMiss(k, v)
  PROVE  LRU!PutNew(k, v) \/ LRU!PutEvict(k, v)
  <1> DEFINE grown == Cons(k, recency)
             w == Last(grown)
  <1>1. /\ cache[k] = None /\ k \notin Resident /\ result' = result
        /\ recency' = IF Len(grown) > EffectiveCapacity THEN Front(grown) ELSE grown
    BY DEF PutMiss, Resident
  <1>2. PICK n \in Nodes \ live : Insert(k, v, n)
    BY DEF PutMiss
  <1> DEFINE c1 == [cache EXCEPT ![k] = n]
             val1 == [value EXCEPT ![n] = v]
  <1>3. IF Len(grown) > EffectiveCapacity
        THEN /\ cache' = [c1 EXCEPT ![w] = None]
             /\ live' = (live \cup {n}) \ {c1[w]}
             /\ value' = Scrub(val1, live')
             /\ Coherent(heap', cache', Front(grown), key', value', live')
        ELSE /\ cache' = c1 /\ live' = live \cup {n}
             /\ value' = Scrub(val1, live')
             /\ Coherent(heap', cache', grown, key', value', live')
    BY <1>1, <1>2, InsertCoherent
  <1>4. /\ recency \in Seq(Keys) /\ Len(recency) \in Nat
        /\ cache \in [Keys -> Nodes \cup {None}] /\ value \in [AllNodes -> Values \cup {None}]
        /\ \A j \in Resident : cache[j] \in live
        /\ n \in AllNodes /\ n # None
    BY NodeAssumption DEF IInv, TypeOK, CacheNamesItsNode, AllNodes
  <1>5. Len(grown) = Len(recency) + 1
    BY <1>4, ConsElements
  <1> HIDE DEF grown, w
  <1>6. ASSUME NEW j \in Keys
        PROVE  /\ j = k => c1[j] = n /\ val1[c1[j]] = v
               /\ j # k => c1[j] = cache[j]
               /\ j # k /\ cache[j] # None => val1[cache[j]] = value[cache[j]]
    <2>1. j # k /\ cache[j] # None => cache[j] \in live /\ cache[j] # n /\ cache[j] \in AllNodes
      BY <1>4 DEF Resident, IInv, TypeOK, AllNodes
    <2> QED
      BY <1>4, <2>1
  <1> HIDE DEF c1, val1
  <1>7. ASSUME NEW j \in Keys
        PROVE  store'[j] = IF cache'[j] = None THEN None ELSE value'[cache'[j]]
    BY DEF store
  <1>8. \A j \in Keys : store[j] = IF cache[j] = None THEN None ELSE value[cache[j]]
    BY DEF store
  <1>9. store' = [j \in Keys |-> store'[j]] /\ DOMAIN store = Keys
    BY DEF store
  <1>10. CASE Len(grown) > EffectiveCapacity
    <2>1. /\ cache' = [c1 EXCEPT ![w] = None] /\ value' = Scrub(val1, live')
          /\ Coherent(heap', cache', Front(grown), key', value', live')
      BY <1>3, <1>10
    <2>2. \A j \in Keys : cache'[j] # None => cache'[j] \in live' /\ cache'[j] \in AllNodes
      BY <2>1, SeatsOfKeys DEF Coherent, AllNodes
    <2>3. c1 \in [Keys -> Nodes \cup {None}]
      BY <1>4 DEF c1
    <2>4. ASSUME NEW j \in Keys
          PROVE  store'[j] = IF j = w THEN None ELSE IF j = k THEN v ELSE store[j]
      <3>1. cache'[j] = IF j = w THEN None ELSE c1[j]
        BY <2>1, <2>3
      <3>2. cache'[j] # None => value'[cache'[j]] = val1[cache'[j]]
        BY <2>1, <2>2 DEF Scrub
      <3> QED
        BY <1>4, <1>6, <1>7, <1>8, <3>1, <3>2
    <2>5. store' = [[store EXCEPT ![k] = v] EXCEPT ![w] = None]
      <3>1. [[store EXCEPT ![k] = v] EXCEPT ![w] = None]
              = [j \in Keys |-> IF j = w THEN None ELSE IF j = k THEN v ELSE store[j]]
        BY <1>9
      <3> QED
        BY <1>9, <2>4, <3>1
    <2>6. Len(recency) >= EffectiveCapacity /\ recency' = Front(grown)
      BY <1>1, <1>4, <1>5, <1>10, CapacityInNat
    <2> QED
      BY <1>1, <2>5, <2>6, SameResidents, SameSequenceOperators DEF LRU!PutEvict, grown, w
  <1>11. CASE ~(Len(grown) > EffectiveCapacity)
    <2>1. /\ cache' = c1 /\ value' = Scrub(val1, live')
          /\ Coherent(heap', cache', grown, key', value', live')
      BY <1>3, <1>11
    <2>2. \A j \in Keys : cache'[j] # None => cache'[j] \in live' /\ cache'[j] \in AllNodes
      BY <2>1, SeatsOfKeys DEF Coherent, AllNodes
    <2>3. ASSUME NEW j \in Keys
          PROVE  store'[j] = IF j = k THEN v ELSE store[j]
      <3>1. cache'[j] # None => value'[cache'[j]] = val1[cache'[j]]
        BY <2>1, <2>2 DEF Scrub
      <3> QED
        BY <1>4, <1>6, <1>7, <1>8, <2>1, <3>1
    <2>4. store' = [store EXCEPT ![k] = v]
      <3>1. [store EXCEPT ![k] = v] = [j \in Keys |-> IF j = k THEN v ELSE store[j]]
        BY <1>9
      <3> QED
        BY <1>9, <2>3, <3>1
    <2>5. Len(recency) < EffectiveCapacity /\ recency' = grown
      BY <1>1, <1>4, <1>5, <1>11, CapacityInNat
    <2> QED
      BY <1>1, <2>4, <2>5, SameResidents, SameSequenceOperators DEF LRU!PutNew, grown
  <1> QED
    BY <1>10, <1>11

(* The pointer-level cache implements the abstract one for every capacity, *)
(* 0 included (lines 67 to 90).                                            *)
THEOREM Refinement == Spec => RefinesLRU
  <1>1. Init => LRU!Init
    BY DEF Init, LRU!Init, store
  <1>2. IInv /\ [Next]_vars => [LRU!Next]_(LRU!vars)
    <2> SUFFICES ASSUME IInv, [Next]_vars PROVE [LRU!Next]_(LRU!vars)
      OBVIOUS
    <2>1. ASSUME NEW k \in Keys, GetHit(k) PROVE LRU!Get(k)
      <3>1. /\ k \in Resident /\ recency' = MoveToFront(recency, k)
            /\ result' = value[cache[k]] /\ UNCHANGED <<cache, value>>
        BY <2>1 DEF GetHit, Resident
      <3>2. store' = store
        BY <3>1 DEF store
      <3>3. store[k] = value[cache[k]] /\ LRU!Resident = Resident
        BY <3>1, SameResidents
      <3> QED
        BY <3>1, <3>2, <3>3, SameSequenceOperators DEF LRU!Get
    <2>2. ASSUME NEW k \in Keys, GetMiss(k) PROVE LRU!Get(k)
      <3>1. /\ k \notin Resident /\ cache[k] = None
            /\ result' = None /\ UNCHANGED <<cache, value, recency>>
        BY <2>2 DEF GetMiss, Resident
      <3>2. store' = store
        BY <3>1 DEF store
      <3>3. store[k] = None /\ LRU!Resident = Resident
        BY <3>1, SameResidents
      <3> QED
        BY <3>1, <3>2, <3>3 DEF LRU!Get
    <2>3. ASSUME NEW k \in Keys, NEW v \in Values, Put(k, v) PROVE LRU!Put(k, v)
      BY <2>3, PutHitIsPut, PutMissIsPut DEF Put, LRU!Put
    <2>4. CASE UNCHANGED vars
      BY <2>4 DEF vars, LRU!vars, store
    <2> QED
      BY <2>1, <2>2, <2>3, <2>4 DEF Next, Get, LRU!Next
  <1> QED
    BY <1>1, <1>2, Invariance, PTL DEF Spec, RefinesLRU, LRU!Spec
=============================================================================
