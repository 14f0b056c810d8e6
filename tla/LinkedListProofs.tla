-------------------------- MODULE LinkedListProofs --------------------------
(***************************************************************************)
(* Proofs about LinkedList.swift, for any number of lists, values and      *)
(* nodes.                                                                  *)
(*                                                                         *)
(* The inductive invariant says that the nodes lie in rows: one for each   *)
(* list, and one more for those that only the caller's reference keeps     *)
(* alive.  Each operation is shown to draw new rows (Drawn), reference     *)
(* counting to leave exactly the nodes on them (Collected), and the values *)
(* on the rows to be what the abstract lists of values become (Leads).     *)
(***************************************************************************)
EXTENDS LinkedList, FiniteSetTheorems, SequenceTheorems, WellFoundedInduction, TLAPS

(* A set of numbers that is not empty has a least one. *)
LEMMA Least ==
  ASSUME NEW T \in SUBSET Nat, T # {}
  PROVE  \E m \in T : \A k \in T : m <= k
<1>1. PICK x \in T : \A y \in T : ~ (<<y, x>> \in OpToRel(<, Nat))
  BY NatLessThanWellFounded, WFMin
<1>2. \A y \in T : ~(y < x)
  BY <1>1 DEF OpToRel
<1>3. QED
  BY <1>2

(* A walk of k steps from n. *)
Steps(h, n, k) == CHOOSE at : at = [i \in 0..k |-> IF i = 0 THEN n ELSE Following(h, at[i - 1])]

(* The function that WalkFrom defines by recursion exists. *)
LEMMA StepsAre ==
  ASSUME NEW h, NEW n, NEW k \in Nat
  PROVE  Steps(h, n, k) = [i \in 0..k |-> IF i = 0 THEN n ELSE Following(h, Steps(h, n, k)[i - 1])]
<1> DEFINE T == {j \in Nat : ~ \E f : f = [i \in 0..j |-> IF i = 0 THEN n ELSE Following(h, f[i - 1])]}
<1>1. T = {}
  <2>1. SUFFICES ASSUME T # {} PROVE FALSE
    OBVIOUS
  <2>2. PICK m \in T : \A j \in T : m <= j
    <3>1. T \in SUBSET Nat OBVIOUS
    <3>2. QED BY <2>1, <3>1, Least
  <2>3. m # 0
    <3> DEFINE f == [i \in 0..0 |-> n]
    <3>1. f = [i \in 0..0 |-> IF i = 0 THEN n ELSE Following(h, f[i - 1])] OBVIOUS
    <3>2. QED BY <3>1
  <2>4. m - 1 \in Nat /\ m - 1 \notin T
    BY <2>2, <2>3
  <2>5. PICK f : f = [i \in 0..(m - 1) |-> IF i = 0 THEN n ELSE Following(h, f[i - 1])]
    BY <2>4
  <2> DEFINE g == [i \in 0..m |-> IF i = m THEN Following(h, f[m - 1]) ELSE f[i]]
  <2>6. g = [i \in 0..m |-> IF i = 0 THEN n ELSE Following(h, g[i - 1])]
    <3>1. SUFFICES ASSUME NEW i \in 0..m
      PROVE g[i] = IF i = 0 THEN n ELSE Following(h, g[i - 1])
      OBVIOUS
    <3>2. CASE i = 0 BY <2>3, <2>5, <3>2, <2>4
    <3>3. CASE i = m BY <2>3, <3>3, <2>4
    <3>4. CASE i # 0 /\ i # m
      <4>1. i \in 0..(m - 1) /\ i - 1 \in 0..m /\ i - 1 # m BY <3>4
      <4>2. g[i] = f[i] /\ g[i - 1] = f[i - 1] BY <4>1
      <4>3. QED BY <2>5, <4>1, <4>2, <3>4
    <3>5. QED BY <3>2, <3>3, <3>4
  <2>7. QED BY <2>2, <2>6
<1>2. \E f : f = [i \in 0..k |-> IF i = 0 THEN n ELSE Following(h, f[i - 1])]
  BY <1>1
<1>3. QED BY <1>2 DEF Steps

(* WalkFrom in terms of that function. *)
LEMMA WalkIs ==
  ASSUME NEW h, NEW n
  PROVE  LET at == Steps(h, n, Cardinality(Nodes))
             met == {i \in 1..Cardinality(Nodes) : at[i - 1] # None}
         IN  WalkFrom(h, n) = [i \in 1..Cardinality(met) |-> at[i - 1]]
BY DEF WalkFrom, Steps

NodeOrNone == Nodes \cup {None}

(* s is what a walk along the nexts of h meets. *)
Strung(h, s) ==
  /\ s \in Seq(Nodes)
  /\ \A i, j \in 1..Len(s) : s[i] = s[j] => i = j
  /\ \A i \in 1..Len(s) : h.next[s[i]] = IF i < Len(s) THEN s[i + 1] ELSE None

First(s) == IF s = <<>> THEN None ELSE s[1]

(* 1..k has k elements. *)
LEMMA SizeOfInterval ==
  ASSUME NEW k \in Nat
  PROVE  IsFiniteSet(1..k) /\ Cardinality(1..k) = k
<1>1. 1 \in Int /\ k \in Int
  OBVIOUS
<1>2. /\ IsFiniteSet(1..k)
      /\ Cardinality(1..k) = IF 1 > k THEN 0 ELSE k - 1 + 1
  BY <1>1, FS_Interval
<1>3. QED
  BY <1>2

(* A sequence of different nodes is no longer than there are nodes. *)
LEMMA NoLongerThanNodes ==
  ASSUME NEW s \in Seq(Nodes), \A i, j \in 1..Len(s) : s[i] = s[j] => i = j
  PROVE  Len(s) <= Cardinality(Nodes) /\ Len(s) \in Nat /\ Cardinality(Nodes) \in Nat
<1>1. Len(s) \in Nat
  OBVIOUS
<1>2. IsFiniteSet(1..Len(s)) /\ Cardinality(1..Len(s)) = Len(s)
  BY <1>1, SizeOfInterval
<1>3. IsFiniteSet(Nodes) /\ Cardinality(Nodes) \in Nat
  BY NodesAssumption, FS_CardinalityType
<1>4. s \in Injection(1..Len(s), Nodes)
  BY DEF Injection, IsInjective
<1>5. QED
  BY <1>1, <1>2, <1>3, <1>4, FS_Injection

(* A walk from the first node of a strung sequence meets that sequence. *)
LEMMA WalkOfRow ==
  ASSUME NEW h, NEW s, Strung(h, s)
  PROVE  WalkFrom(h, First(s)) = s
<1> DEFINE N == Cardinality(Nodes)
           n == First(s)
           at == Steps(h, n, N)
           met == {i \in 1..N : at[i - 1] # None}
           T == {i \in 0..N : at[i] # IF i < Len(s) THEN s[i + 1] ELSE None}
<1>1. Len(s) <= N /\ Len(s) \in Nat /\ N \in Nat
  BY NoLongerThanNodes DEF Strung
<1>2. at = [i \in 0..N |-> IF i = 0 THEN n ELSE Following(h, at[i - 1])]
  BY <1>1, StepsAre
<1>3. \A i \in 1..Len(s) : s[i] \in Nodes /\ s[i] # None
  BY NodesAssumption DEF Strung
<1>4. n = IF 0 < Len(s) THEN s[1] ELSE None
  BY DEF First, Strung
<1>5. \A i \in 1..Len(s) : h.next[s[i]] = IF i < Len(s) THEN s[i + 1] ELSE None
  BY DEF Strung
<1> HIDE DEF N, n, at
<1>6. T = {}
  <2>1. SUFFICES ASSUME T # {} PROVE FALSE
    OBVIOUS
  <2>2. PICK m \in T : \A j \in T : m <= j
    <3>1. T \in SUBSET Nat OBVIOUS
    <3>2. QED BY <2>1, <3>1, Least
  <2>3. m # 0
    <3>1. at[0] = n BY <1>1, <1>2
    <3>2. QED BY <1>4, <3>1
  <2>4. m \in 1..N /\ m - 1 \in 0..N /\ m - 1 \notin T
    BY <2>2, <2>3, <1>1
  <2>5. at[m - 1] = IF m - 1 < Len(s) THEN s[m] ELSE None
    BY <2>4
  <2>6. at[m] = Following(h, at[m - 1])
    BY <1>2, <2>4
  <2>7. at[m] = IF m < Len(s) THEN s[m + 1] ELSE None
    <3>1. CASE m - 1 < Len(s)
      <4>1. m \in 1..Len(s) BY <3>1, <2>4, <1>1
      <4>2. at[m] = h.next[s[m]] BY <4>1, <2>5, <2>6, <1>3 DEF Following
      <4>3. QED BY <4>1, <4>2, <1>5
    <3>2. CASE ~(m - 1 < Len(s)) BY <3>2, <2>5, <2>6, <2>4, <1>1 DEF Following
    <3>3. QED BY <3>1, <3>2
  <2>8. QED BY <2>2, <2>7
<1>7. \A i \in 1..N : at[i - 1] = IF i <= Len(s) THEN s[i] ELSE None
  <2>1. SUFFICES ASSUME NEW i \in 1..N PROVE at[i - 1] = IF i <= Len(s) THEN s[i] ELSE None
    OBVIOUS
  <2>2. i - 1 \in 0..N /\ (i - 1 < Len(s) <=> i <= Len(s)) /\ (i - 1) + 1 = i BY <1>1
  <2>3. QED BY <1>6, <2>2
<1>8. met = 1..Len(s)
  BY <1>1, <1>3, <1>7
<1>9. Cardinality(met) = Len(s)
  BY <1>1, <1>8, SizeOfInterval
<1>10. WalkFrom(h, n) = [i \in 1..Cardinality(met) |-> at[i - 1]]
  BY WalkIs DEF at, N
<1> HIDE DEF met
<1>11. [i \in 1..Len(s) |-> at[i - 1]] = [i \in 1..Len(s) |-> s[i]]
  BY <1>7, <1>1
<1>12. s = [i \in 1..Len(s) |-> s[i]]
  BY DEF Strung
<1>13. QED
  BY <1>9, <1>10, <1>11, <1>12 DEF n

-----------------------------------------------------------------------------
(* The heaps of well-typed pointers. *)
Heaps == [next : [Nodes -> NodeOrNone], previous : [Nodes -> NodeOrNone],
          value : [Nodes -> Values \cup {None}], head : [Lists -> NodeOrNone]]

(* The nodes of the heap lie in rows: one for each list, and one more for  *)
(* those that only the caller's reference keeps.                           *)
Outside == CHOOSE x : x \notin Lists
Rows == Lists \cup {Outside}

(* The nodes that some row holds. *)
On(rows) == {n \in Nodes : \E r \in Rows : \E i \in 1..Len(rows[r]) : rows[r][i] = n}

(* No node is at two places. *)
Apart(rows) ==
  \A q, r \in Rows : \A i \in 1..Len(rows[q]), j \in 1..Len(rows[r]) :
    rows[q][i] = rows[r][j] => q = r /\ i = j

(* next leads along every row and ends there. *)
Forward(h, rows) ==
  \A r \in Rows : \A i \in 1..Len(rows[r]) :
    h.next[rows[r][i]] = IF i < Len(rows[r]) THEN rows[r][i + 1] ELSE None

(* previous leads back; at the start of a row it leads to no row. *)
Backward(h, rows) ==
  \A r \in Rows : \A i \in 1..Len(rows[r]) :
    IF i = 1 THEN h.previous[rows[r][i]] \notin On(rows)
             ELSE h.previous[rows[r][i]] = rows[r][i - 1]

(* Each list starts at the first node of its row. *)
Headed(h, rows) == \A l \in Lists : h.head[l] = First(rows[l])

(* Every node of a row carries a value. *)
Valued(h, rows) == \A n \in On(rows) : h.value[n] \in Values

(* The rows are what h links together; of other nodes it says nothing.     *)
Drawn(h, rows) ==
  /\ h \in Heaps /\ rows \in [Rows -> Seq(Nodes)]
  /\ Apart(rows) /\ Forward(h, rows) /\ Backward(h, rows)
  /\ Headed(h, rows) /\ Valued(h, rows)

(* No pointer leads out of the rows, and the other nodes are free.         *)
Tidy(h, rows) ==
  /\ Drawn(h, rows)
  /\ \A n \in On(rows) : h.previous[n] \in On(rows) \cup {None}
  /\ \A n \in Nodes \ On(rows) :
       h.next[n] = None /\ h.previous[n] = None /\ h.value[n] = None

(* The caller's reference n is on a row, and keeps the last row alive.     *)
Reaches(rows, n) ==
  /\ n \in On(rows) \cup {None}
  /\ rows[Outside] # <<>> => rows[Outside][1] = n

(* The row of the caller is no list. *)
LEMMA OutsideNoList == Outside \notin Lists
BY NoSetContainsEverything DEF Outside

(* The types of the fields of a heap. *)
LEMMA HeapFields ==
  ASSUME NEW h \in Heaps
  PROVE  /\ h.next \in [Nodes -> NodeOrNone] /\ h.previous \in [Nodes -> NodeOrNone]
         /\ h.value \in [Nodes -> Values \cup {None}] /\ h.head \in [Lists -> NodeOrNone]
BY DEF Heaps

(* What Collect leaves of a node. *)
LEMMA CollectFields ==
  ASSUME NEW h \in Heaps, NEW roots
  PROVE  /\ Collect(h, roots) \in Heaps
         /\ Collect(h, roots).head = h.head
         /\ \A n \in Nodes :
              /\ Collect(h, roots).next[n] = IF n \in Alive(h, roots) THEN h.next[n] ELSE None
              /\ Collect(h, roots).value[n] = IF n \in Alive(h, roots) THEN h.value[n] ELSE None
              /\ Collect(h, roots).previous[n] =
                   IF n \in Alive(h, roots) /\ h.previous[n] \in Alive(h, roots)
                   THEN h.previous[n] ELSE None
BY HeapFields DEF Collect, Heaps, NodeOrNone

(* A node of a row is a node. *)
LEMMA OnRow ==
  ASSUME NEW rows \in [Rows -> Seq(Nodes)], NEW r \in Rows, NEW i \in 1..Len(rows[r])
  PROVE  rows[r][i] \in On(rows) /\ rows[r][i] \in Nodes /\ rows[r][i] # None
<1>1. rows[r] \in Seq(Nodes)
  OBVIOUS
<1>2. rows[r][i] \in Nodes
  BY <1>1
<1>3. QED
  BY <1>2, NodesAssumption DEF On

(* The length and the first node of a row. *)
LEMMA FirstOfRow ==
  ASSUME NEW rows \in [Rows -> Seq(Nodes)], NEW r \in Rows
  PROVE  /\ Len(rows[r]) \in Nat
         /\ rows[r] = <<>> <=> Len(rows[r]) = 0
         /\ First(rows[r]) = IF Len(rows[r]) = 0 THEN None ELSE rows[r][1]
         /\ First(rows[r]) \in On(rows) \cup {None}
<1>1. rows[r] \in Seq(Nodes)
  OBVIOUS
<1>2. Len(rows[r]) \in Nat /\ (rows[r] = <<>> <=> Len(rows[r]) = 0)
  BY <1>1
<1>3. Len(rows[r]) # 0 => 1 \in 1..Len(rows[r])
  BY <1>2
<1>4. QED
  BY <1>2, <1>3, OnRow DEF First

(* The nodes that live are those of the rows. *)
LEMMA RowsAlive ==
  ASSUME NEW h, NEW rows, Drawn(h, rows), NEW n, Reaches(rows, n)
  PROVE  Alive(h, {n}) = On(rows)
<1>1. /\ h \in Heaps /\ rows \in [Rows -> Seq(Nodes)] /\ On(rows) \in SUBSET Nodes
      /\ Forward(h, rows) /\ Headed(h, rows)
  BY DEF Drawn, On
<1>2. Lists \subseteq Rows /\ Outside \in Rows
  BY DEF Rows
<1>3. {n} \cup {h.head[l] : l \in Lists} \subseteq On(rows) \cup {None}
  <2>1. n \in On(rows) \cup {None} BY DEF Reaches
  <2>2. \A l \in Lists : h.head[l] \in On(rows) \cup {None}
    BY <1>1, <1>2, FirstOfRow DEF Headed
  <2>3. QED BY <2>1, <2>2
<1>4. ASSUME NEW m \in On(rows) PROVE h.next[m] \in On(rows) \cup {None}
  <2>1. PICK r \in Rows : \E i \in 1..Len(rows[r]) : rows[r][i] = m
    BY DEF On
  <2>2. PICK i \in 1..Len(rows[r]) : rows[r][i] = m
    BY <2>1
  <2>3. CASE i < Len(rows[r])
    <3>1. i + 1 \in 1..Len(rows[r]) BY <1>1, <2>3, FirstOfRow
    <3>2. QED BY <1>1, <2>2, <2>3, <3>1, OnRow DEF Forward
  <2>4. CASE ~(i < Len(rows[r])) BY <1>1, <2>2, <2>4 DEF Forward
  <2>5. QED BY <2>3, <2>4
<1>5. ASSUME NEW S \in SUBSET Nodes,
             ({n} \cup {h.head[l] : l \in Lists}) \cap Nodes \subseteq S,
             \A m \in S : h.next[m] \in S \cup {None}
      PROVE  On(rows) \subseteq S
  <2>1. SUFFICES ASSUME NEW r \in Rows PROVE \A i \in 1..Len(rows[r]) : rows[r][i] \in S
    BY DEF On
  <2>2. Len(rows[r]) \in Nat BY <1>1, FirstOfRow
  <2> DEFINE T == {i \in 1..Len(rows[r]) : rows[r][i] \notin S}
  <2>3. T = {}
    <3>1. SUFFICES ASSUME T # {} PROVE FALSE
      OBVIOUS
    <3>2. PICK i \in T : \A j \in T : i <= j
      <4>1. T \in SUBSET Nat OBVIOUS
      <4>2. QED BY <3>1, <4>1, Least
    <3>3. i \in 1..Len(rows[r]) /\ rows[r][i] \in Nodes /\ rows[r] # <<>>
      BY <1>1, <2>2, OnRow, FirstOfRow
    <3>4. i # 1
      <4>1. ASSUME i = 1 PROVE FALSE
        <5>1. First(rows[r]) = rows[r][1] BY <1>1, <2>2, <3>3, FirstOfRow
        <5>2. rows[r][1] \in {n} \cup {h.head[l] : l \in Lists}
          <6>1. CASE r \in Lists BY <1>1, <5>1, <6>1 DEF Headed
          <6>2. CASE r = Outside BY <3>3, <6>2 DEF Reaches
          <6>3. QED BY <6>1, <6>2 DEF Rows
        <5>3. QED BY <1>5, <3>3, <4>1, <5>2, <3>2
      <4>2. QED BY <4>1
    <3>5. i - 1 \in 1..Len(rows[r]) /\ i - 1 < Len(rows[r]) /\ (i - 1) + 1 = i /\ i - 1 < i
      BY <2>2, <3>3, <3>4
    <3>6. rows[r][i - 1] \in S
      BY <3>2, <3>5
    <3>7. h.next[rows[r][i - 1]] = rows[r][i]
      BY <1>1, <3>5 DEF Forward
    <3>8. QED BY <1>5, <3>2, <3>3, <3>6, <3>7, NodesAssumption
  <2>4. QED BY <2>3
<1> DEFINE starts == {n} \cup {h.head[l] : l \in Lists}
           closed(S) == starts \cap Nodes \subseteq S /\ \A m \in S : h.next[m] \in S \cup {None}
<1>6. \A S \in SUBSET Nodes : closed(S) => On(rows) \subseteq S
  BY <1>5
<1>7. On(rows) \subseteq Nodes /\ starts \cap Nodes \subseteq On(rows)
      /\ \A m \in On(rows) : h.next[m] \in On(rows) \cup {None}
  BY <1>1, <1>3, <1>4, NodesAssumption
<1>8. Alive(h, {n}) = {m \in Nodes : \A S \in SUBSET Nodes : closed(S) => m \in S}
  BY DEF Alive, ReachableFrom
<1> HIDE DEF starts
<1>9. QED
  BY <1>6, <1>7, <1>8

(* Reference counting tidies a heap up and changes neither the lists nor   *)
(* the values in them.                                                     *)
LEMMA Collected ==
  ASSUME NEW h, NEW rows, Drawn(h, rows), NEW n, Reaches(rows, n)
  PROVE  /\ Tidy(Collect(h, {n}), rows)
         /\ \A m \in On(rows) : Collect(h, {n}).value[m] = h.value[m]
<1> DEFINE c == Collect(h, {n})
<1>1. /\ h \in Heaps /\ rows \in [Rows -> Seq(Nodes)] /\ Apart(rows)
      /\ Forward(h, rows) /\ Backward(h, rows) /\ Headed(h, rows) /\ Valued(h, rows)
  BY DEF Drawn
<1>2. Alive(h, {n}) = On(rows)
  BY RowsAlive
<1>3. /\ c \in Heaps /\ c.head = h.head
      /\ \A m \in Nodes :
           /\ c.next[m] = IF m \in On(rows) THEN h.next[m] ELSE None
           /\ c.value[m] = IF m \in On(rows) THEN h.value[m] ELSE None
           /\ c.previous[m] =
                IF m \in On(rows) /\ h.previous[m] \in On(rows) THEN h.previous[m] ELSE None
  <2> DEFINE roots == {n}
  <2>1. Alive(h, roots) = On(rows) BY <1>2
  <2> HIDE DEF roots
  <2>2. LET k == Collect(h, roots)
        IN  /\ k \in Heaps /\ k.head = h.head
            /\ \A m \in Nodes :
                 /\ k.next[m] = IF m \in On(rows) THEN h.next[m] ELSE None
                 /\ k.value[m] = IF m \in On(rows) THEN h.value[m] ELSE None
                 /\ k.previous[m] =
                      IF m \in On(rows) /\ h.previous[m] \in On(rows) THEN h.previous[m] ELSE None
    BY <1>1, <2>1, CollectFields
  <2>3. QED BY <2>2 DEF roots
<1> HIDE DEF c
<1>4. On(rows) \subseteq Nodes /\ None \notin On(rows)
  BY NodesAssumption DEF On
<1>5. Forward(c, rows)
  BY <1>1, <1>3, OnRow DEF Forward
<1>6. Backward(c, rows)
  <2>1. ASSUME NEW r \in Rows, NEW i \in 1..Len(rows[r])
        PROVE  IF i = 1 THEN c.previous[rows[r][i]] \notin On(rows)
                        ELSE c.previous[rows[r][i]] = rows[r][i - 1]
    <3>1. rows[r][i] \in On(rows) /\ rows[r][i] \in Nodes BY <1>1, OnRow
    <3>2. CASE i = 1 BY <1>1, <1>3, <1>4, <3>1, <3>2 DEF Backward
    <3>3. CASE i # 1
      <4>1. i - 1 \in 1..Len(rows[r]) BY <1>1, <3>3, FirstOfRow
      <4>2. rows[r][i - 1] \in On(rows) BY <1>1, <4>1, OnRow
      <4>3. QED BY <1>1, <1>3, <3>1, <3>3, <4>2 DEF Backward
    <3>4. QED BY <3>2, <3>3
  <2>2. QED BY <2>1 DEF Backward
<1>7. Headed(c, rows) /\ Valued(c, rows)
  BY <1>1, <1>3, <1>4 DEF Headed, Valued
<1>8. /\ \A m \in On(rows) : c.previous[m] \in On(rows) \cup {None}
      /\ \A m \in Nodes \ On(rows) : c.next[m] = None /\ c.previous[m] = None /\ c.value[m] = None
      /\ \A m \in On(rows) : c.value[m] = h.value[m]
  BY <1>3, <1>4
<1>9. QED
  BY <1>1, <1>3, <1>5, <1>6, <1>7, <1>8 DEF Tidy, Drawn, c

-----------------------------------------------------------------------------
(* What the assignment to next changes. *)
LEMMA SetNextFields ==
  ASSUME NEW h \in Heaps, NEW n \in NodeOrNone, NEW m \in NodeOrNone
  PROVE  LET k == SetNext(h, n, m)
         IN  /\ k \in Heaps /\ k.next = [h.next EXCEPT ![n] = m] /\ k.previous = h.previous
             /\ k.value = h.value /\ k.head = h.head
<1>1. n = None => [h.next EXCEPT ![n] = m] = h.next
  BY HeapFields, NodesAssumption
<1>2. QED
  BY <1>1, HeapFields, NodesAssumption DEF SetNext, Heaps, NodeOrNone

(* What the assignment to previous changes. *)
LEMMA SetPreviousFields ==
  ASSUME NEW h \in Heaps, NEW n \in NodeOrNone, NEW m \in NodeOrNone
  PROVE  LET k == SetPrevious(h, n, m)
         IN  /\ k \in Heaps /\ k.next = h.next /\ k.previous = [h.previous EXCEPT ![n] = m]
             /\ k.value = h.value /\ k.head = h.head
<1>1. n = None => [h.previous EXCEPT ![n] = m] = h.previous
  BY HeapFields, NodesAssumption
<1>2. QED
  BY <1>1, HeapFields, NodesAssumption DEF SetPrevious, Heaps, NodeOrNone

(* What the assignment to head changes. *)
LEMMA SetHeadFields ==
  ASSUME NEW h \in Heaps, NEW l \in Lists, NEW n \in NodeOrNone
  PROVE  LET k == SetHead(h, l, n)
         IN  /\ k \in Heaps /\ k.next = h.next /\ k.previous = h.previous
             /\ k.value = h.value /\ k.head = [h.head EXCEPT ![l] = n]
BY HeapFields DEF SetHead, Heaps

(* The chain of a list is its row. *)
LEMMA ChainIs ==
  ASSUME NEW h, NEW rows, Drawn(h, rows), NEW l \in Lists
  PROVE  Chain(h, l) = rows[l] /\ h.head[l] = First(rows[l])
<1>1. l \in Rows /\ h.head[l] = First(rows[l])
  BY DEF Drawn, Headed, Rows
<1>2. Strung(h, rows[l])
  BY <1>1 DEF Drawn, Strung, Apart, Forward
<1>3. QED
  BY <1>1, <1>2, WalkOfRow DEF Chain

Inserted(s, i, e) ==
  [j \in 1..(Len(s) + 1) |-> IF j <= i THEN s[j] ELSE IF j = i + 1 THEN e ELSE s[j - 1]]

(* n is on no row, and nothing leads to it from there or away from it.     *)
Blank(h, rows, n) ==
  /\ n \in Nodes \ On(rows) /\ h.next[n] = None /\ h.previous[n] = None
  /\ \A r \in Rows : rows[r] # <<>> => h.previous[rows[r][1]] # n

(* The pointers after insert(node, at:). *)
LEMMA InsertNodeFields ==
  ASSUME NEW h, NEW rows, Drawn(h, rows), NEW l \in Lists, NEW i \in 0..Len(rows[l]),
         NEW n, Blank(h, rows, n)
  PROVE  LET k      == InsertNode(h, l, n, i)
             before == IF i = 0 THEN None ELSE rows[l][i]
             after  == IF i < Len(rows[l]) THEN rows[l][i + 1] ELSE None
         IN  /\ k \in Heaps /\ k.value = h.value
             /\ k.head = IF i = 0 THEN [h.head EXCEPT ![l] = n] ELSE h.head
             /\ \A m \in Nodes :
                  /\ k.next[m] = IF m = n THEN after ELSE IF m = before THEN n ELSE h.next[m]
                  /\ k.previous[m] = IF m = n THEN before ELSE IF m = after THEN n ELSE h.previous[m]
<1> DEFINE s == rows[l]
           before == IF i = 0 THEN None ELSE s[i]
           after == IF i < Len(s) THEN s[i + 1] ELSE None
<1>1. h \in Heaps /\ rows \in [Rows -> Seq(Nodes)] /\ l \in Rows /\ s \in Seq(Nodes)
  BY DEF Drawn, Rows
<1>2. Len(s) \in Nat /\ i \in Nat /\ i <= Len(s)
  BY <1>1
<1>3. n \in Nodes /\ n \notin On(rows) /\ n # None /\ h.next[n] = None /\ h.previous[n] = None
  BY NodesAssumption DEF Blank
<1>4. before \in NodeOrNone /\ before # n /\ (i # 0 => before \in Nodes /\ before # None)
  <2>1. i # 0 => i \in 1..Len(s) BY <1>2
  <2>2. QED BY <1>1, <1>3, <2>1, OnRow DEF NodeOrNone
<1>5. after \in NodeOrNone /\ after # n
  <2>1. i < Len(s) => i + 1 \in 1..Len(s) BY <1>2
  <2>2. QED BY <1>1, <1>3, <2>1, OnRow DEF NodeOrNone
<1>6. n \in NodeOrNone
  BY <1>3 DEF NodeOrNone
<1>7. CASE i = 0
  <2>1. h.head[l] = after
    BY <1>1, <1>2, <1>7, ChainIs, FirstOfRow
  <2> DEFINE h1 == SetNext(h, n, after)
             h2 == SetPrevious(h1, after, n)
             h3 == SetHead(h2, l, n)
  <2>2. InsertNode(h, l, n, i) = h3
    BY <1>7, <2>1 DEF InsertNode
  <2> HIDE DEF s, before, after
  <2>3. /\ h1 \in Heaps /\ h1.next = [h.next EXCEPT ![n] = after] /\ h1.previous = h.previous
        /\ h1.value = h.value /\ h1.head = h.head
    BY <1>1, <1>5, <1>6, SetNextFields
  <2> HIDE DEF h1
  <2>4. /\ h2 \in Heaps /\ h2.next = h1.next /\ h2.previous = [h1.previous EXCEPT ![after] = n]
        /\ h2.value = h1.value /\ h2.head = h1.head
    BY <2>3, <1>5, <1>6, SetPreviousFields
  <2> HIDE DEF h2
  <2>5. /\ h3 \in Heaps /\ h3.next = h2.next /\ h3.previous = h2.previous
        /\ h3.value = h2.value /\ h3.head = [h2.head EXCEPT ![l] = n]
    BY <2>4, <1>6, SetHeadFields
  <2> HIDE DEF h3
  <2>6. before = None BY <1>7 DEF before
  <2>7. \A m \in Nodes :
          /\ h3.next[m] = IF m = n THEN after ELSE IF m = before THEN n ELSE h.next[m]
          /\ h3.previous[m] = IF m = n THEN before ELSE IF m = after THEN n ELSE h.previous[m]
    BY <1>1, <1>3, <1>5, <2>3, <2>4, <2>5, <2>6, HeapFields, NodesAssumption
  <2>8. QED BY <1>7, <2>2, <2>3, <2>4, <2>5, <2>7 DEF s, before, after
<1>8. CASE i # 0
  <2>1. NodeAt(h, l, i - 1) = before
    <3>1. (i - 1) + 1 = i BY <1>2
    <3>2. QED BY <1>8, <3>1, ChainIs DEF NodeAt
  <2>2. h.next[before] = after
    BY <1>1, <1>2, <1>8 DEF Drawn, Forward
  <2> DEFINE h1 == SetPrevious(h, n, before)
             h2 == SetNext(h1, n, after)
             h3 == SetPrevious(h2, after, n)
             h4 == SetNext(h3, before, n)
  <2>3. InsertNode(h, l, n, i) = h4
    BY <1>8, <2>1, <2>2 DEF InsertNode
  <2> HIDE DEF s, before, after
  <2>4. /\ h1 \in Heaps /\ h1.next = h.next /\ h1.previous = [h.previous EXCEPT ![n] = before]
        /\ h1.value = h.value /\ h1.head = h.head
    BY <1>1, <1>4, <1>6, SetPreviousFields
  <2> HIDE DEF h1
  <2>5. /\ h2 \in Heaps /\ h2.next = [h1.next EXCEPT ![n] = after] /\ h2.previous = h1.previous
        /\ h2.value = h1.value /\ h2.head = h1.head
    BY <2>4, <1>5, <1>6, SetNextFields
  <2> HIDE DEF h2
  <2>6. /\ h3 \in Heaps /\ h3.next = h2.next /\ h3.previous = [h2.previous EXCEPT ![after] = n]
        /\ h3.value = h2.value /\ h3.head = h2.head
    BY <2>5, <1>5, <1>6, SetPreviousFields
  <2> HIDE DEF h3
  <2>7. /\ h4 \in Heaps /\ h4.next = [h3.next EXCEPT ![before] = n] /\ h4.previous = h3.previous
        /\ h4.value = h3.value /\ h4.head = h3.head
    BY <2>6, <1>4, <1>6, SetNextFields
  <2> HIDE DEF h4
  <2>8. \A m \in Nodes :
          /\ h4.next[m] = IF m = n THEN after ELSE IF m = before THEN n ELSE h.next[m]
          /\ h4.previous[m] = IF m = n THEN before ELSE IF m = after THEN n ELSE h.previous[m]
    BY <1>1, <1>3, <1>4, <1>5, <2>4, <2>5, <2>6, <2>7, HeapFields, NodesAssumption
  <2>9. QED BY <1>8, <2>3, <2>4, <2>5, <2>6, <2>7, <2>8 DEF s, before, after
<1>9. QED
  BY <1>7, <1>8

(* Inserted element by element. *)
LEMMA InsertedElements ==
  ASSUME NEW S, NEW s \in Seq(S), NEW i \in 0..Len(s), NEW e \in S
  PROVE  /\ Inserted(s, i, e) \in Seq(S) /\ Len(Inserted(s, i, e)) = Len(s) + 1
         /\ \A j \in 1..(Len(s) + 1) : Inserted(s, i, e)[j] =
              IF j <= i THEN s[j] ELSE IF j = i + 1 THEN e ELSE s[j - 1]
<1> DEFINE t == Inserted(s, i, e)
<1>1. Len(s) \in Nat /\ Len(s) + 1 \in Nat /\ i \in Nat /\ i <= Len(s)
  OBVIOUS
<1>2. \A j \in 1..(Len(s) + 1) : t[j] = IF j <= i THEN s[j] ELSE IF j = i + 1 THEN e ELSE s[j - 1]
  BY DEF Inserted
<1>3. \A j \in 1..(Len(s) + 1) : t[j] \in S
  <2>1. SUFFICES ASSUME NEW j \in 1..(Len(s) + 1) PROVE t[j] \in S
    OBVIOUS
  <2>2. CASE j <= i
    <3>1. j \in 1..Len(s) BY <1>1, <2>2
    <3>2. QED BY <1>2, <2>2, <3>1
  <2>3. CASE j = i + 1 BY <1>1, <1>2, <2>3
  <2>4. CASE ~(j <= i) /\ j # i + 1
    <3>1. j - 1 \in 1..Len(s) BY <1>1, <2>4
    <3>2. QED BY <1>2, <2>4, <3>1
  <2>5. QED BY <2>2, <2>3, <2>4
<1>4. t = [j \in 1..(Len(s) + 1) |-> t[j]]
  BY DEF Inserted
<1> HIDE DEF t
<1>5. t \in [1..(Len(s) + 1) -> S]
  BY <1>3, <1>4
<1>6. t \in Seq(S) /\ Len(t) = Len(s) + 1
  BY <1>1, <1>5, LenProperties, SeqDef
<1>7. QED
  BY <1>2, <1>6 DEF t

(* Where the elements of one row after an insertion were before.           *)
LEMMA InsertedOnRows ==
  ASSUME NEW rows \in [Rows -> Seq(Nodes)], NEW l \in Rows, NEW i \in 0..Len(rows[l]),
         NEW n \in Nodes \ On(rows), Apart(rows),
         NEW new, new = [rows EXCEPT ![l] = Inserted(rows[l], i, n)]
  PROVE  /\ new \in [Rows -> Seq(Nodes)] /\ Apart(new) /\ On(new) = On(rows) \cup {n}
         /\ Len(new[l]) = Len(rows[l]) + 1
         /\ \A j \in 1..Len(new[l]) : new[l][j] =
              IF j <= i THEN rows[l][j] ELSE IF j = i + 1 THEN n ELSE rows[l][j - 1]
         /\ \A r \in Rows : r # l => new[r] = rows[r]
<1> DEFINE s == rows[l]
           t == Inserted(s, i, n)
           old(j) == IF j <= i THEN j ELSE j - 1
<1>1. l \in Rows /\ s \in Seq(Nodes) /\ Len(s) \in Nat /\ i \in Nat /\ i <= Len(s) /\ i \in 0..Len(s)
      /\ n \in Nodes
  OBVIOUS
<1> HIDE DEF s
<1>2. /\ t \in Seq(Nodes) /\ Len(t) = Len(s) + 1
      /\ \A j \in 1..(Len(s) + 1) : t[j] = IF j <= i THEN s[j] ELSE IF j = i + 1 THEN n ELSE s[j - 1]
  BY <1>1, InsertedElements
<1>3. new \in [Rows -> Seq(Nodes)] /\ new[l] = t /\ \A r \in Rows : r # l => new[r] = rows[r]
  BY <1>1, <1>2 DEF s
<1> HIDE DEF t
<1>4. \A j \in 1..Len(t) : j # i + 1 => old(j) \in 1..Len(s) /\ t[j] = s[old(j)]
  BY <1>1, <1>2
<1>5. \A j, k \in 1..Len(t) : j # i + 1 /\ k # i + 1 /\ old(j) = old(k) => j = k
  BY <1>1, <1>2
<1>6. s = rows[l] BY DEF s
<1>7. \A r \in Rows : \A j \in 1..Len(rows[r]) : rows[r][j] \in On(rows) /\ rows[r][j] # n
  BY OnRow
<1>8. t[i + 1] = n /\ i + 1 \in 1..Len(t)
  BY <1>1, <1>2
<1>9. \A j \in 1..Len(t) : t[j] = n <=> j = i + 1
  BY <1>1, <1>4, <1>7, <1>8, <1>6
<1>10. Apart(new)
  <2>1. SUFFICES ASSUME NEW q \in Rows, NEW r \in Rows,
                        NEW j \in 1..Len(new[q]), NEW k \in 1..Len(new[r]),
                        new[q][j] = new[r][k]
                 PROVE  q = r /\ j = k
    BY DEF Apart
  <2> HIDE DEF old
  <2>2. CASE q = l /\ r = l
    <3>1. j \in 1..Len(t) /\ k \in 1..Len(t) /\ t[j] = t[k] BY <1>3, <2>1, <2>2
    <3>2. CASE j = i + 1 \/ k = i + 1 BY <1>9, <2>2, <3>1, <3>2
    <3>3. CASE j # i + 1 /\ k # i + 1
      <4>1. s[old(j)] = s[old(k)] /\ old(j) \in 1..Len(s) /\ old(k) \in 1..Len(s)
        BY <1>4, <3>1, <3>3
      <4>2. old(j) = old(k) BY <1>1, <4>1, <1>6 DEF Apart
      <4>3. QED BY <1>5, <2>2, <3>1, <3>3, <4>2
    <3>4. QED BY <3>2, <3>3
  <2>3. CASE q = l /\ r # l
    <3>1. j \in 1..Len(t) /\ k \in 1..Len(rows[r]) /\ t[j] = rows[r][k] BY <1>3, <2>1, <2>3
    <3>2. j # i + 1 BY <1>7, <1>8, <3>1
    <3>3. QED BY <1>1, <1>4, <2>3, <3>1, <3>2, <1>6 DEF Apart
  <2>4. CASE q # l /\ r = l
    <3>1. k \in 1..Len(t) /\ j \in 1..Len(rows[q]) /\ t[k] = rows[q][j] BY <1>3, <2>1, <2>4
    <3>2. k # i + 1 BY <1>7, <1>8, <3>1
    <3>3. QED BY <1>1, <1>4, <2>4, <3>1, <3>2, <1>6 DEF Apart
  <2>5. CASE q # l /\ r # l BY <1>3, <2>1, <2>5 DEF Apart
  <2>6. QED BY <2>2, <2>3, <2>4, <2>5
<1>11. On(new) = On(rows) \cup {n}
  <2>1. ASSUME NEW m \in On(new) PROVE m \in On(rows) \cup {n}
    <3>1. PICK r \in Rows : \E j \in 1..Len(new[r]) : new[r][j] = m BY DEF On
    <3>2. PICK j \in 1..Len(new[r]) : new[r][j] = m BY <3>1
    <3>3. CASE r = l
      <4>1. j \in 1..Len(t) /\ t[j] = m BY <1>3, <3>2, <3>3
      <4>2. CASE j = i + 1 BY <1>8, <4>1, <4>2
      <4>3. CASE j # i + 1 BY <1>1, <1>4, <1>7, <4>1, <4>3, <1>6
      <4>4. QED BY <4>2, <4>3
    <3>4. CASE r # l BY <1>3, <1>7, <3>2, <3>4
    <3>5. QED BY <3>3, <3>4
  <2>2. n \in On(new)
    <3>1. i + 1 \in 1..Len(new[l]) /\ new[l][i + 1] = n BY <1>3, <1>8
    <3>2. QED BY <1>1, <1>3, <3>1 DEF On
  <2>3. ASSUME NEW m \in On(rows) PROVE m \in On(new)
    <3>1. PICK r \in Rows : \E j \in 1..Len(rows[r]) : rows[r][j] = m BY DEF On
    <3>2. PICK j \in 1..Len(rows[r]) : rows[r][j] = m BY <3>1
    <3>3. CASE r = l
      <4>1. CASE j <= i
        <5>1. j \in 1..Len(t) /\ t[j] = m BY <1>1, <1>2, <3>2, <3>3, <4>1, <1>6
        <5>2. QED BY <1>1, <1>3, <5>1, OnRow
      <4>2. CASE ~(j <= i)
        <5>1. j + 1 \in 1..Len(t) /\ t[j + 1] = m BY <1>1, <1>2, <3>2, <3>3, <4>2, <1>6
        <5>2. QED BY <1>1, <1>3, <5>1, OnRow
      <4>3. QED BY <4>1, <4>2
    <3>4. CASE r # l BY <1>3, <3>2, <3>4, OnRow
    <3>5. QED BY <3>3, <3>4
  <2>4. QED BY <2>1, <2>2, <2>3
<1>12. QED
  BY <1>2, <1>3, <1>10, <1>11, <1>6

(* Inserting a node that is on no row puts it into its list's row.         *)
LEMMA InsertNodeDrawn ==
  ASSUME NEW h, NEW rows, Drawn(h, rows), NEW l \in Lists, NEW i \in 0..Len(rows[l]),
         NEW n, Blank(h, rows, n), h.value[n] \in Values
  PROVE  LET k   == InsertNode(h, l, n, i)
             new == [rows EXCEPT ![l] = Inserted(rows[l], i, n)]
         IN  /\ Drawn(k, new) /\ k.value = h.value
             /\ \A m : m # n /\ Blank(h, rows, m) => Blank(k, new, m)
<1> DEFINE k == InsertNode(h, l, n, i)
           new == [rows EXCEPT ![l] = Inserted(rows[l], i, n)]
           s == rows[l]
           t == new[l]
           before == IF i = 0 THEN None ELSE s[i]
           after == IF i < Len(s) THEN s[i + 1] ELSE None
<1>1. /\ h \in Heaps /\ rows \in [Rows -> Seq(Nodes)] /\ Apart(rows)
      /\ Forward(h, rows) /\ Backward(h, rows) /\ Headed(h, rows) /\ Valued(h, rows)
      /\ l \in Rows /\ n \in Nodes \ On(rows) /\ n \in Nodes /\ None \notin On(rows) /\ None # n
  BY NodesAssumption DEF Drawn, Rows, Blank, On
<1>2. /\ k \in Heaps /\ k.value = h.value
      /\ k.head = IF i = 0 THEN [h.head EXCEPT ![l] = n] ELSE h.head
      /\ \A m \in Nodes :
           /\ k.next[m] = IF m = n THEN after ELSE IF m = before THEN n ELSE h.next[m]
           /\ k.previous[m] = IF m = n THEN before ELSE IF m = after THEN n ELSE h.previous[m]
  BY InsertNodeFields
<1>3. /\ new \in [Rows -> Seq(Nodes)] /\ Apart(new) /\ On(new) = On(rows) \cup {n}
      /\ Len(t) = Len(s) + 1
      /\ \A j \in 1..Len(t) : t[j] = IF j <= i THEN s[j] ELSE IF j = i + 1 THEN n ELSE s[j - 1]
      /\ \A r \in Rows : r # l => new[r] = rows[r]
  BY <1>1, InsertedOnRows
<1>4. s = rows[l] /\ t = new[l] /\ Len(s) \in Nat /\ i \in Nat /\ i <= Len(s) /\ Len(t) \in Nat
  BY <1>1, <1>3, FirstOfRow
<1> HIDE DEF k, new, s, t
<1>5. \A r \in Rows : \A j \in 1..Len(rows[r]) :
        rows[r][j] \in On(rows) /\ rows[r][j] # n /\ rows[r][j] \in Nodes /\ rows[r][j] # None
  BY <1>1, OnRow
<1>6. \A j \in 1..Len(s) : /\ s[j] \in On(rows) /\ s[j] # n /\ s[j] \in Nodes /\ s[j] # None
                           /\ s[j] = before <=> j = i
                           /\ s[j] = after <=> j = i + 1
  <2>1. SUFFICES ASSUME NEW j \in 1..Len(s)
                 PROVE  (s[j] = before <=> j = i) /\ (s[j] = after <=> j = i + 1)
    BY <1>1, <1>4, <1>5
  <2>2. s[j] # None BY <1>1, <1>4, <1>5
  <2>3. s[j] = before <=> j = i
    <3>1. CASE i = 0 BY <1>4, <2>2, <3>1
    <3>2. CASE i # 0
      <4>1. i \in 1..Len(s) BY <1>4, <3>2
      <4>2. s[j] = s[i] => j = i BY <1>1, <1>4, <4>1 DEF Apart
      <4>3. QED BY <3>2, <4>2
    <3>3. QED BY <3>1, <3>2
  <2>4. s[j] = after <=> j = i + 1
    <3>1. CASE ~(i < Len(s)) BY <1>4, <2>2, <3>1
    <3>2. CASE i < Len(s)
      <4>1. i + 1 \in 1..Len(s) BY <1>4, <3>2
      <4>2. s[j] = s[i + 1] => j = i + 1 BY <1>1, <1>4, <4>1 DEF Apart
      <4>3. QED BY <3>2, <4>2
    <3>3. QED BY <3>1, <3>2
  <2>5. QED BY <2>3, <2>4
<1>7. (i # 0 => i \in 1..Len(s)) /\ (i < Len(s) => i + 1 \in 1..Len(s))
  BY <1>4
<1>8. \A r \in Rows : r # l => \A j \in 1..Len(rows[r]) : rows[r][j] # before /\ rows[r][j] # after
  <2>1. SUFFICES ASSUME NEW r \in Rows, r # l, NEW j \in 1..Len(rows[r])
                 PROVE  rows[r][j] # before /\ rows[r][j] # after
    OBVIOUS
  <2>2. rows[r][j] # None BY <1>5, <2>1
  <2>3. \A x \in 1..Len(s) : rows[r][j] # s[x] BY <1>1, <1>4, <2>1 DEF Apart
  <2>4. QED BY <1>7, <2>2, <2>3
<1>9. before \notin {n} /\ after \notin {n}
  BY <1>1, <1>6, <1>7
<1> HIDE DEF before, after
<1>10. Forward(k, new)
  <2>1. ASSUME NEW r \in Rows, r # l, NEW j \in 1..Len(new[r])
        PROVE  k.next[new[r][j]] = IF j < Len(new[r]) THEN new[r][j + 1] ELSE None
    <3>1. new[r] = rows[r] /\ j \in 1..Len(rows[r]) BY <1>3, <2>1
    <3>2. k.next[rows[r][j]] = h.next[rows[r][j]] BY <1>2, <1>5, <1>8, <2>1, <3>1
    <3>3. QED BY <1>1, <3>1, <3>2 DEF Forward
  <2>2. ASSUME NEW j \in 1..Len(t)
        PROVE  k.next[t[j]] = IF j < Len(t) THEN t[j + 1] ELSE None
    <3>1. j < Len(t) => t[j + 1] = IF j + 1 <= i THEN s[j + 1] ELSE IF j = i THEN n ELSE s[j]
      <4>1. ASSUME j < Len(t)
        PROVE j + 1 \in 1..Len(t) /\ (j + 1 = i + 1 <=> j = i) /\ (j + 1) - 1 = j
        BY <1>3, <1>4, <4>1
      <4>2. QED BY <1>3, <4>1
    <3>2. CASE j < i
      <4>1. j \in 1..Len(s) /\ j < Len(s) /\ j < Len(t) /\ j + 1 <= i /\ j # i
        BY <1>3, <1>4, <3>2
      <4>2. t[j] = s[j] BY <1>3, <3>2
      <4>3. k.next[s[j]] = h.next[s[j]] BY <1>2, <1>6, <4>1
      <4>4. h.next[s[j]] = s[j + 1] BY <1>1, <1>4, <4>1 DEF Forward
      <4>5. QED BY <3>1, <4>1, <4>2, <4>3, <4>4
    <3>3. CASE j = i
      <4>1. j \in 1..Len(s) /\ j < Len(t) /\ ~(j + 1 <= i) BY <1>3, <1>4, <3>3
      <4>2. t[j] = s[j] BY <1>3, <3>3, <1>4
      <4>3. k.next[s[j]] = n BY <1>2, <1>6, <3>3, <4>1
      <4>4. QED BY <3>1, <3>3, <4>1, <4>2, <4>3
    <3>4. CASE j = i + 1
      <4>1. t[j] = n BY <1>3, <1>4, <3>4
      <4>2. k.next[n] = after BY <1>1, <1>2
      <4>3. after = IF j < Len(t) THEN s[j] ELSE None BY <1>3, <1>4, <3>4 DEF after
      <4>4. ~(j + 1 <= i) /\ j # i BY <1>4, <3>4
      <4>5. QED BY <3>1, <4>1, <4>2, <4>3, <4>4
    <3>5. CASE j > i + 1
      <4>1. j - 1 \in 1..Len(s) /\ j - 1 # i /\ (j - 1 < Len(s) <=> j < Len(t)) /\ (j - 1) + 1 = j
        BY <1>3, <1>4, <3>5
      <4>2. t[j] = s[j - 1] BY <1>3, <1>4, <3>5
      <4>3. k.next[s[j - 1]] = h.next[s[j - 1]] BY <1>2, <1>6, <4>1
      <4>4. h.next[s[j - 1]] = IF j - 1 < Len(s) THEN s[j] ELSE None
        BY <1>1, <1>4, <4>1 DEF Forward
      <4>5. ~(j + 1 <= i) /\ j # i BY <1>4, <3>5
      <4>6. QED BY <3>1, <4>1, <4>2, <4>3, <4>4, <4>5
    <3>6. QED BY <1>4, <3>2, <3>3, <3>4, <3>5
  <2>3. QED BY <1>4, <2>1, <2>2 DEF Forward
<1>11. \A m \in Nodes : m \notin On(rows) /\ m # n => m \notin On(new)
  BY <1>3
<1>12. Backward(k, new)
  <2>1. ASSUME NEW r \in Rows, r # l, NEW j \in 1..Len(new[r])
        PROVE  IF j = 1 THEN k.previous[new[r][j]] \notin On(new)
                        ELSE k.previous[new[r][j]] = new[r][j - 1]
    <3>1. new[r] = rows[r] /\ k.previous[new[r][j]] = h.previous[rows[r][j]]
      BY <1>2, <1>3, <1>5, <1>8, <2>1
    <3>2. j = 1 => rows[r] # <<>> BY <1>1, <3>1, <2>1, FirstOfRow
    <3>3. QED BY <1>1, <1>3, <3>1, <3>2, <2>1 DEF Backward, Blank
  <2>2. ASSUME NEW j \in 1..Len(t)
        PROVE  IF j = 1 THEN k.previous[t[j]] \notin On(new)
                        ELSE k.previous[t[j]] = t[j - 1]
    <3>1. j \in Nat /\ 1 <= j /\ j <= Len(t) BY <1>4
    <3>2. j # 1 => t[j - 1] = IF j <= i + 1 THEN s[j - 1] ELSE IF j = i + 2 THEN n ELSE s[j - 2]
      <4>1. ASSUME j # 1
            PROVE  /\ j - 1 \in 1..Len(t) /\ (j - 1 <= i <=> j <= i + 1)
                   /\ (j - 1 = i + 1 <=> j = i + 2) /\ (j - 1) - 1 = j - 2
        BY <1>3, <1>4, <4>1, <3>1
      <4>2. QED BY <1>3, <4>1
    <3>3. CASE j <= i
      <4>1. j \in 1..Len(s) /\ j # i + 1 /\ j <= i + 1 BY <1>3, <1>4, <3>3
      <4>2. t[j] = s[j] BY <1>3, <3>3
      <4>3. k.previous[s[j]] = h.previous[s[j]] BY <1>2, <1>6, <4>1
      <4>4. CASE j = 1
        <5>1. h.previous[s[1]] \notin On(rows) BY <1>1, <1>4, <4>1, <4>4 DEF Backward
        <5>2. s # <<>> BY <1>1, <1>4, <4>1, FirstOfRow
        <5>3. h.previous[s[1]] # n BY <1>1, <1>4, <5>2 DEF Blank
        <5>4. QED BY <1>3, <4>2, <4>3, <4>4, <5>1, <5>3
      <4>5. CASE j # 1
        <5>1. h.previous[s[j]] = s[j - 1] BY <1>1, <1>4, <4>1, <4>5 DEF Backward
        <5>2. QED BY <3>2, <4>1, <4>2, <4>3, <4>5, <5>1
      <4>6. QED BY <4>4, <4>5
    <3>4. CASE j = i + 1
      <4>1. t[j] = n BY <1>3, <1>4, <3>4
      <4>2. k.previous[n] = before BY <1>1, <1>2
      <4>3. CASE j = 1
        <5>1. before = None BY <1>4, <3>4, <4>3 DEF before
        <5>2. QED BY <1>1, <1>3, <4>1, <4>2, <4>3, <5>1
      <4>4. CASE j # 1
        <5>1. before = s[j - 1] BY <1>4, <3>4, <4>4 DEF before
        <5>2. j <= i + 1 BY <1>4, <3>4
        <5>3. QED BY <3>2, <4>1, <4>2, <4>4, <5>1, <5>2
      <4>5. QED BY <4>3, <4>4
    <3>5. CASE j = i + 2
      <4>1. i + 1 \in 1..Len(s) /\ j - 1 = i + 1 /\ ~(j <= i) /\ j # i + 1 /\ ~(j <= i + 1) /\ j # 1
        BY <1>3, <1>4, <3>5
      <4>2. t[j] = s[i + 1] BY <1>3, <4>1
      <4>3. k.previous[s[i + 1]] = n BY <1>2, <1>6, <4>1
      <4>4. QED BY <3>2, <3>5, <4>1, <4>2, <4>3
    <3>6. CASE j > i + 2
      <4>1. /\ j - 1 \in 1..Len(s) /\ j - 1 # 1 /\ j - 1 # i + 1 /\ (j - 1) - 1 = j - 2
            /\ ~(j <= i) /\ j # i + 1 /\ ~(j <= i + 1) /\ j # 1 /\ j # i + 2
        BY <1>3, <1>4, <3>6
      <4>2. t[j] = s[j - 1] BY <1>3, <4>1
      <4>3. k.previous[s[j - 1]] = h.previous[s[j - 1]] BY <1>2, <1>6, <4>1
      <4>4. h.previous[s[j - 1]] = s[j - 2] BY <1>1, <1>4, <4>1 DEF Backward
      <4>5. QED BY <3>2, <4>1, <4>2, <4>3, <4>4
    <3>7. QED BY <1>4, <3>3, <3>4, <3>5, <3>6
  <2>3. QED BY <1>4, <2>1, <2>2 DEF Backward
<1>13. Headed(k, new)
  <2>1. SUFFICES ASSUME NEW m \in Lists PROVE k.head[m] = First(new[m])
    BY DEF Headed
  <2>2. m \in Rows /\ h.head \in [Lists -> NodeOrNone] BY <1>1, HeapFields DEF Rows
  <2>3. CASE m # l BY <1>1, <1>2, <1>3, <2>2, <2>3 DEF Headed
  <2>4. CASE m = l
    <3>1. First(t) = t[1] /\ 1 \in 1..Len(t)
      <4>1. Len(t) # 0 /\ 1 \in 1..Len(t) BY <1>3, <1>4
      <4>2. QED BY <1>1, <1>3, <1>4, <4>1, FirstOfRow
    <3>2. CASE i = 0 BY <1>2, <1>3, <1>4, <2>2, <2>4, <3>1, <3>2
    <3>3. CASE i # 0
      <4>1. First(s) = s[1] BY <1>1, <1>4, <3>3, FirstOfRow
      <4>2. t[1] = s[1] BY <1>3, <1>4, <3>1, <3>3
      <4>3. QED BY <1>1, <1>2, <1>4, <2>4, <3>1, <3>3, <4>1, <4>2 DEF Headed
    <3>4. QED BY <3>2, <3>3
  <2>5. QED BY <2>3, <2>4
<1>14. Valued(k, new)
  BY <1>1, <1>2, <1>3 DEF Valued
<1>15. ASSUME NEW m, m # n, Blank(h, rows, m)
       PROVE  Blank(k, new, m)
  <2>1. m \in Nodes \ On(rows) /\ h.next[m] = None /\ h.previous[m] = None
    BY <1>15 DEF Blank
  <2>2. m # before /\ m # after
    <3>1. \A j \in 1..Len(s) : s[j] # m BY <1>6, <2>1
    <3>2. m # None BY <2>1, NodesAssumption
    <3>3. QED BY <1>7, <3>1, <3>2 DEF before, after
  <2>3. m \in Nodes \ On(new) /\ k.next[m] = None /\ k.previous[m] = None
    BY <1>2, <1>3, <1>15, <2>1, <2>2
  <2>4. ASSUME NEW r \in Rows, new[r] # <<>> PROVE k.previous[new[r][1]] # m
    <3>1. CASE r # l
      <4>1. new[r] = rows[r] /\ 1 \in 1..Len(rows[r]) BY <1>1, <1>3, <2>4, <3>1, FirstOfRow
      <4>2. k.previous[new[r][1]] = h.previous[rows[r][1]] BY <1>2, <1>5, <1>8, <3>1, <4>1
      <4>3. QED BY <1>15, <2>4, <4>1, <4>2 DEF Blank
    <3>2. CASE r = l
      <4>1. 1 \in 1..Len(t) BY <1>3, <1>4
      <4>2. CASE i = 0
        <5>1. t[1] = n BY <1>3, <1>4, <4>1, <4>2
        <5>2. QED BY <1>1, <1>2, <1>4, <2>2, <3>2, <5>1
      <4>3. CASE i # 0
        <5>1. t[1] = s[1] /\ 1 \in 1..Len(s) /\ 1 # i + 1 BY <1>3, <1>4, <4>1, <4>3
        <5>2. k.previous[s[1]] = h.previous[s[1]] BY <1>2, <1>6, <5>1
        <5>3. s # <<>> BY <1>1, <1>4, <5>1, FirstOfRow
        <5>4. QED BY <1>1, <1>4, <1>15, <3>2, <5>1, <5>2, <5>3 DEF Blank
      <4>4. QED BY <4>2, <4>3
    <3>3. QED BY <3>1, <3>2
  <2>5. QED BY <2>3, <2>4 DEF Blank
<1>16. QED
  BY <1>2, <1>3, <1>10, <1>12, <1>13, <1>14, <1>15 DEF Drawn, k, new

(* append(node) is insert(node, at: count). *)
LEMMA AppendIsInsert ==
  ASSUME NEW h, NEW rows, Drawn(h, rows), NEW l \in Lists, NEW n, Blank(h, rows, n)
  PROVE  AppendNode(h, l, n) = InsertNode(h, l, n, Len(rows[l]))
<1> DEFINE s == rows[l]
<1>1. /\ h \in Heaps /\ rows \in [Rows -> Seq(Nodes)] /\ l \in Rows /\ s \in Seq(Nodes)
      /\ n \in Nodes /\ n # None /\ n \in NodeOrNone /\ None \in NodeOrNone /\ h.next[n] = None
  BY NodesAssumption DEF Drawn, Rows, Blank, NodeOrNone
<1>2. Chain(h, l) = s /\ h.head[l] = First(s) /\ Len(s) \in Nat
  BY <1>1, ChainIs
<1>3. SetNext(h, n, None) = h
  <2>1. [h.next EXCEPT ![n] = None] = h.next BY <1>1, HeapFields
  <2>2. QED BY <1>1, <2>1, HeapFields DEF SetNext, Heaps
<1>4. CASE s = <<>>
  <2>1. Len(s) = 0 /\ h.head[l] = None BY <1>2, <1>4 DEF First
  <2>2. SetPrevious(h, None, n) = h BY DEF SetPrevious
  <2>3. QED BY <1>3, <2>1, <2>2 DEF AppendNode, InsertNode
<1>5. CASE s # <<>>
  <2>1. Len(s) # 0 /\ Len(s) \in 1..Len(s) /\ h.head[l] = s[1] /\ 1 \in 1..Len(s)
    BY <1>1, <1>2, <1>5 DEF First
  <2>2. h.head[l] # None BY <1>1, <2>1, OnRow
  <2> DEFINE last == s[Len(s)]
  <2>3. last # None /\ last \in Nodes BY <1>1, <2>1, OnRow
  <2>4. last \in NodeOrNone BY <2>3 DEF NodeOrNone
  <2>5. LastNode(h, l) = last /\ NodeAt(h, l, Len(s) - 1) = last
    <3>1. (Len(s) - 1) + 1 = Len(s) BY <1>2
    <3>2. QED BY <1>2, <3>1 DEF LastNode, NodeAt, Last
  <2>6. h.next[last] = None
    BY <1>1, <2>1 DEF Drawn, Forward
  <2> DEFINE h1 == SetPrevious(h, n, last)
  <2> HIDE DEF last
  <2>7. h1 \in Heaps /\ h1.next = h.next
    BY <1>1, <2>3, <2>4, SetPreviousFields
  <2> HIDE DEF h1
  <2>8. SetNext(h1, n, None) = h1
    <3>1. [h1.next EXCEPT ![n] = None] = h1.next BY <1>1, <2>7, HeapFields
    <3>2. QED BY <1>1, <2>7, <3>1, HeapFields DEF SetNext, Heaps
  <2>9. SetPrevious(h1, None, n) = h1 BY DEF SetPrevious
  <2>10. QED BY <2>1, <2>2, <2>5, <2>6, <2>8, <2>9 DEF AppendNode, InsertNode, h1
<1>6. QED
  BY <1>4, <1>5

-----------------------------------------------------------------------------
Removed(s, p) == [j \in 1..(Len(s) - 1) |-> IF j < p THEN s[j] ELSE s[j + 1]]

(* Removed element by element. *)
LEMMA RemovedElements ==
  ASSUME NEW S, NEW s \in Seq(S), NEW p \in 1..Len(s)
  PROVE  /\ Removed(s, p) \in Seq(S) /\ Len(Removed(s, p)) = Len(s) - 1
         /\ \A j \in 1..(Len(s) - 1) : Removed(s, p)[j] = IF j < p THEN s[j] ELSE s[j + 1]
<1> DEFINE t == Removed(s, p)
<1>1. Len(s) \in Nat /\ Len(s) - 1 \in Nat
  OBVIOUS
<1>2. \A j \in 1..(Len(s) - 1) : t[j] = IF j < p THEN s[j] ELSE s[j + 1]
  BY DEF Removed
<1>3. \A j \in 1..(Len(s) - 1) : j \in 1..Len(s) /\ j + 1 \in 1..Len(s)
  BY <1>1
<1>4. t = [j \in 1..(Len(s) - 1) |-> t[j]]
  BY DEF Removed
<1> HIDE DEF t
<1>5. t \in [1..(Len(s) - 1) -> S]
  BY <1>2, <1>3, <1>4
<1>6. t \in Seq(S) /\ Len(t) = Len(s) - 1
  BY <1>1, <1>5, LenProperties, SeqDef
<1>7. QED
  BY <1>2, <1>6 DEF t

(* Equal nodes of rows that are apart have the same place. *)
LEMMA Together ==
  ASSUME NEW rows, Apart(rows), NEW q \in Rows, NEW r \in Rows,
         NEW i \in 1..Len(rows[q]), NEW j \in 1..Len(rows[r]), rows[q][i] = rows[r][j]
  PROVE  q = r /\ i = j
BY DEF Apart

(* Where the elements of one row after a removal were before. *)
LEMMA RemovedOnRows ==
  ASSUME NEW rows \in [Rows -> Seq(Nodes)], NEW l \in Rows, NEW p \in 1..Len(rows[l]), Apart(rows),
         NEW new, new = [rows EXCEPT ![l] = Removed(rows[l], p)]
  PROVE  /\ new \in [Rows -> Seq(Nodes)] /\ Apart(new) /\ On(new) = On(rows) \ {rows[l][p]}
         /\ Len(new[l]) = Len(rows[l]) - 1
         /\ \A j \in 1..Len(new[l]) : new[l][j] = IF j < p THEN rows[l][j] ELSE rows[l][j + 1]
         /\ \A r \in Rows : r # l => new[r] = rows[r]
<1> DEFINE s == rows[l]
           t == Removed(s, p)
           n == s[p]
           old(j) == IF j < p THEN j ELSE j + 1
<1>1. s \in Seq(Nodes) /\ Len(s) \in Nat /\ p \in 1..Len(s) /\ s = rows[l] /\ n = s[p]
  OBVIOUS
<1> HIDE DEF s, n
<1>2. /\ t \in Seq(Nodes) /\ Len(t) = Len(s) - 1
      /\ \A j \in 1..(Len(s) - 1) : t[j] = IF j < p THEN s[j] ELSE s[j + 1]
  BY <1>1, RemovedElements
<1>3. new \in [Rows -> Seq(Nodes)] /\ new[l] = t /\ \A r \in Rows : r # l => new[r] = rows[r]
  BY <1>1, <1>2
<1> HIDE DEF t
<1>4. \A j \in 1..Len(t) : old(j) \in 1..Len(s) /\ old(j) # p /\ t[j] = s[old(j)]
  BY <1>1, <1>2
<1>5. \A j, k \in 1..Len(t) : old(j) = old(k) => j = k
  BY <1>1, <1>2
<1> HIDE DEF old
<1>6. \A j \in 1..Len(t) : t[j] # n
  BY <1>1, <1>4 DEF Apart
<1>7. Apart(new)
  <2>1. SUFFICES ASSUME NEW q \in Rows, NEW r \in Rows,
                        NEW j \in 1..Len(new[q]), NEW k \in 1..Len(new[r]),
                        new[q][j] = new[r][k]
                 PROVE  q = r /\ j = k
    BY DEF Apart
  <2>2. CASE q = l /\ r = l
    <3>1. j \in 1..Len(t) /\ k \in 1..Len(t) /\ t[j] = t[k] BY <1>3, <2>1, <2>2
    <3>2. s[old(j)] = s[old(k)] /\ old(j) \in 1..Len(s) /\ old(k) \in 1..Len(s)
      BY <1>4, <3>1
    <3>3. old(j) = old(k) BY <1>1, <3>2 DEF Apart
    <3>4. QED BY <1>5, <2>2, <3>1, <3>3
  <2>3. CASE q = l /\ r # l
    <3>1. j \in 1..Len(t) /\ k \in 1..Len(rows[r]) /\ t[j] = rows[r][k] BY <1>3, <2>1, <2>3
    <3>2. QED BY <1>1, <1>4, <2>3, <3>1 DEF Apart
  <2>4. CASE q # l /\ r = l
    <3>1. k \in 1..Len(t) /\ j \in 1..Len(rows[q]) /\ t[k] = rows[q][j] BY <1>3, <2>1, <2>4
    <3>2. old(k) \in 1..Len(rows[l]) /\ rows[l][old(k)] = rows[q][j]
      BY <1>1, <1>4, <3>1
    <3>3. QED BY <2>4, <3>1, <3>2, Together
  <2>5. CASE q # l /\ r # l BY <1>3, <2>1, <2>5 DEF Apart
  <2>6. QED BY <2>2, <2>3, <2>4, <2>5
<1>8. \A r \in Rows : \A j \in 1..Len(rows[r]) : rows[r][j] \in On(rows) /\ (r # l => rows[r][j] # n)
  BY <1>1, OnRow DEF Apart
<1>9. ASSUME NEW m \in On(new) PROVE m \in On(rows) /\ m # n
  <2>1. PICK r \in Rows : \E j \in 1..Len(new[r]) : new[r][j] = m BY DEF On
  <2>2. PICK j \in 1..Len(new[r]) : new[r][j] = m BY <2>1
  <2>3. CASE r = l
    <3>1. j \in 1..Len(t) /\ t[j] = m BY <1>3, <2>2, <2>3
    <3>2. QED BY <1>1, <1>4, <1>6, <1>8, <3>1
  <2>4. CASE r # l BY <1>3, <1>8, <2>2, <2>4
  <2>5. QED BY <2>3, <2>4
<1>10. ASSUME NEW m \in On(rows), m # n PROVE m \in On(new)
  <2>1. PICK r \in Rows : \E j \in 1..Len(rows[r]) : rows[r][j] = m BY DEF On
  <2>2. PICK j \in 1..Len(rows[r]) : rows[r][j] = m BY <2>1
  <2>3. CASE r = l
    <3>1. j \in 1..Len(s) /\ s[j] = m /\ j # p BY <1>1, <1>10, <2>2, <2>3
    <3>2. CASE j < p
      <4>1. j \in 1..Len(t) /\ t[j] = m BY <1>1, <1>2, <3>1, <3>2
      <4>2. QED BY <1>3, <4>1, OnRow
    <3>3. CASE ~(j < p)
      <4>1. j - 1 \in 1..Len(t) /\ t[j - 1] = m BY <1>1, <1>2, <3>1, <3>3
      <4>2. QED BY <1>3, <4>1, OnRow
    <3>4. QED BY <3>2, <3>3
  <2>4. CASE r # l BY <1>3, <2>2, <2>4, OnRow
  <2>5. QED BY <2>3, <2>4
<1>11. On(new) = On(rows) \ {n}
  BY <1>9, <1>10
<1>12. QED
  BY <1>1, <1>2, <1>3, <1>7, <1>11

(* The pointers after remove(node:). *)
LEMMA RemoveNodeFields ==
  ASSUME NEW h, NEW rows, Tidy(h, rows), NEW l \in Lists, NEW p \in 1..Len(rows[l])
  PROVE  LET n      == rows[l][p]
             k      == RemoveNode(h, l, n)
             before == IF p = 1 THEN None ELSE rows[l][p - 1]
             after  == IF p < Len(rows[l]) THEN rows[l][p + 1] ELSE None
         IN  /\ k \in Heaps /\ k.value = h.value
             /\ k.head = IF p = 1 THEN [h.head EXCEPT ![l] = after] ELSE h.head
             /\ \A m \in Nodes :
                  /\ k.next[m] = IF m = n THEN None ELSE IF m = before THEN after ELSE h.next[m]
                  /\ k.previous[m] = IF m = n THEN None ELSE IF m = after THEN before
                                     ELSE h.previous[m]
<1> DEFINE s == rows[l]
           n == s[p]
           before == IF p = 1 THEN None ELSE s[p - 1]
           after == IF p < Len(s) THEN s[p + 1] ELSE None
<1>1. /\ h \in Heaps /\ rows \in [Rows -> Seq(Nodes)] /\ l \in Rows /\ s \in Seq(Nodes)
      /\ Forward(h, rows) /\ Backward(h, rows) /\ Apart(rows)
      /\ \A m \in On(rows) : h.previous[m] \in On(rows) \cup {None}
  BY DEF Tidy, Drawn, Rows
<1>2. Len(s) \in Nat /\ p \in 1..Len(s)
  BY <1>1
<1>3. n \in On(rows) /\ n \in Nodes /\ n # None /\ n \in NodeOrNone /\ None \in NodeOrNone
  BY <1>1, <1>2, OnRow DEF NodeOrNone
<1>4. before \in NodeOrNone /\ before # n /\ (p # 1 => before \in Nodes /\ before # None)
  <2>1. p # 1 => p - 1 \in 1..Len(s) BY <1>2
  <2>2. p # 1 => s[p - 1] # n BY <1>1, <1>2, <2>1 DEF Apart
  <2>3. QED BY <1>1, <1>3, <2>1, <2>2, OnRow DEF NodeOrNone
<1>5. after \in NodeOrNone /\ after # n /\ (after # before \/ after = None)
  <2>1. p < Len(s) => p + 1 \in 1..Len(s) BY <1>2
  <2>2. p < Len(s) => s[p + 1] # n BY <1>1, <1>2, <2>1 DEF Apart
  <2>3. p < Len(s) => s[p + 1] # before
    <3>1. p # 1 => p - 1 \in 1..Len(s) BY <1>2
    <3>2. p # 1 /\ p < Len(s) => s[p + 1] # s[p - 1] BY <1>1, <1>2, <2>1, <3>1 DEF Apart
    <3>3. p < Len(s) => s[p + 1] # None BY <1>1, <2>1, OnRow
    <3>4. QED BY <3>2, <3>3
  <2>4. QED BY <1>1, <1>3, <2>1, <2>2, <2>3, OnRow DEF NodeOrNone
<1>6. after \in NodeOrNone /\ after # n
  BY <1>3, <1>5
<1>7. h.previous[n] = before
  <2>1. CASE p = 1
    <3>1. h.previous[n] \notin On(rows) BY <1>1, <1>2, <2>1 DEF Backward
    <3>2. QED BY <1>1, <1>3, <2>1, <3>1
  <2>2. CASE p # 1 BY <1>1, <1>2, <2>2 DEF Backward
  <2>3. QED BY <2>1, <2>2
<1>8. h.next[n] = after
  BY <1>1, <1>2 DEF Forward
<1> DEFINE h1 == IF before # None THEN SetNext(h, before, after) ELSE SetHead(h, l, after)
           h2 == SetPrevious(h1, after, before)
           h3 == SetPrevious(h2, n, None)
           h4 == SetNext(h3, n, None)
<1>9. RemoveNode(h, l, n) = h4
  BY <1>7, <1>8 DEF RemoveNode
<1>10. p = 1 <=> before = None
  BY <1>4
<1> HIDE DEF s, n, before, after
<1>11. /\ h1 \in Heaps /\ h1.previous = h.previous /\ h1.value = h.value
       /\ h1.next = [h.next EXCEPT ![before] = after]
       /\ h1.head = IF p = 1 THEN [h.head EXCEPT ![l] = after] ELSE h.head
  <2>1. CASE p = 1
    <3>1. h1 = SetHead(h, l, after) /\ before = None BY <1>10, <2>1
    <3>2. [h.next EXCEPT ![None] = after] = h.next BY <1>1, HeapFields, NodesAssumption
    <3> HIDE DEF h1
    <3>3. QED BY <1>1, <1>6, <2>1, <3>1, <3>2, SetHeadFields
  <2>2. CASE p # 1
    <3>1. h1 = SetNext(h, before, after) BY <1>10, <2>2
    <3> HIDE DEF h1
    <3>2. QED BY <1>1, <1>4, <1>6, <2>2, <3>1, SetNextFields
  <2>3. QED BY <2>1, <2>2
<1> HIDE DEF h1
<1>12. /\ h2 \in Heaps /\ h2.next = h1.next /\ h2.previous = [h1.previous EXCEPT ![after] = before]
       /\ h2.value = h1.value /\ h2.head = h1.head
  BY <1>4, <1>6, <1>11, SetPreviousFields
<1> HIDE DEF h2
<1>13. /\ h3 \in Heaps /\ h3.next = h2.next /\ h3.previous = [h2.previous EXCEPT ![n] = None]
       /\ h3.value = h2.value /\ h3.head = h2.head
  BY <1>3, <1>12, SetPreviousFields
<1> HIDE DEF h3
<1>14. /\ h4 \in Heaps /\ h4.next = [h3.next EXCEPT ![n] = None] /\ h4.previous = h3.previous
       /\ h4.value = h3.value /\ h4.head = h3.head
  BY <1>3, <1>13, SetNextFields
<1> HIDE DEF h4
<1>15. \A m \in Nodes :
         /\ h4.next[m] = IF m = n THEN None ELSE IF m = before THEN after ELSE h.next[m]
         /\ h4.previous[m] = IF m = n THEN None ELSE IF m = after THEN before ELSE h.previous[m]
  BY <1>1, <1>3, <1>4, <1>6, <1>11, <1>12, <1>13, <1>14, HeapFields, NodesAssumption
<1>16. h4.head = IF p = 1 THEN [h.head EXCEPT ![l] = after] ELSE h.head
  BY <1>11, <1>12, <1>13, <1>14
<1>17. h4.value = h.value
  BY <1>11, <1>12, <1>13, <1>14
<1>18. QED
  BY <1>9, <1>14, <1>15, <1>16, <1>17 DEF s, n, before, after

(* Removing a node takes it off its row and leaves it blank.               *)
LEMMA RemoveNodeDrawn ==
  ASSUME NEW h, NEW rows, Tidy(h, rows), NEW l \in Lists, NEW p \in 1..Len(rows[l])
  PROVE  LET n   == rows[l][p]
             k   == RemoveNode(h, l, n)
             new == [rows EXCEPT ![l] = Removed(rows[l], p)]
         IN  Drawn(k, new) /\ k.value = h.value /\ Blank(k, new, n)
<1> DEFINE n == rows[l][p]
           k == RemoveNode(h, l, n)
           new == [rows EXCEPT ![l] = Removed(rows[l], p)]
           s == rows[l]
           t == new[l]
           before == IF p = 1 THEN None ELSE s[p - 1]
           after == IF p < Len(s) THEN s[p + 1] ELSE None
<1>1. /\ h \in Heaps /\ rows \in [Rows -> Seq(Nodes)] /\ Apart(rows)
      /\ Forward(h, rows) /\ Backward(h, rows) /\ Headed(h, rows) /\ Valued(h, rows)
      /\ l \in Rows /\ None \notin On(rows)
      /\ \A m \in On(rows) : h.previous[m] \in On(rows) \cup {None}
  BY NodesAssumption DEF Tidy, Drawn, Rows, On
<1>2. /\ k \in Heaps /\ k.value = h.value
      /\ k.head = IF p = 1 THEN [h.head EXCEPT ![l] = after] ELSE h.head
      /\ \A m \in Nodes :
           /\ k.next[m] = IF m = n THEN None ELSE IF m = before THEN after ELSE h.next[m]
           /\ k.previous[m] = IF m = n THEN None ELSE IF m = after THEN before ELSE h.previous[m]
  BY RemoveNodeFields
<1>3. /\ new \in [Rows -> Seq(Nodes)] /\ Apart(new) /\ On(new) = On(rows) \ {n}
      /\ Len(t) = Len(s) - 1
      /\ \A j \in 1..Len(t) : t[j] = IF j < p THEN s[j] ELSE s[j + 1]
      /\ \A r \in Rows : r # l => new[r] = rows[r]
  BY <1>1, RemovedOnRows
<1>4. /\ s = rows[l] /\ t = new[l] /\ n = s[p] /\ Len(s) \in Nat /\ p \in 1..Len(s) /\ p \in Nat
      /\ Len(t) \in Nat
  BY <1>1, <1>3, FirstOfRow
<1> HIDE DEF k, new, s, t, n
<1>5. \A r \in Rows : \A j \in 1..Len(rows[r]) :
        /\ rows[r][j] \in On(rows) /\ rows[r][j] \in Nodes /\ rows[r][j] # None
        /\ r # l => rows[r][j] # n
  BY <1>1, <1>4, OnRow DEF Apart
<1>6. \A j \in 1..Len(s) : /\ s[j] \in On(rows) /\ s[j] \in Nodes /\ s[j] # None
                           /\ s[j] = n <=> j = p
                           /\ s[j] = before <=> j = p - 1
                           /\ s[j] = after <=> j = p + 1
  <2>1. SUFFICES ASSUME NEW j \in 1..Len(s)
                 PROVE  /\ s[j] = n <=> j = p
                        /\ s[j] = before <=> j = p - 1
                        /\ s[j] = after <=> j = p + 1
    BY <1>1, <1>4, <1>5
  <2>2. s[j] # None BY <1>1, <1>4, <1>5
  <2>3. s[j] = n <=> j = p BY <1>1, <1>4 DEF Apart
  <2>4. s[j] = before <=> j = p - 1
    <3>1. CASE p = 1 BY <1>4, <2>2, <3>1
    <3>2. CASE p # 1
      <4>1. p - 1 \in 1..Len(s) BY <1>4, <3>2
      <4>2. s[j] = s[p - 1] => j = p - 1 BY <1>1, <1>4, <4>1 DEF Apart
      <4>3. QED BY <3>2, <4>2
    <3>3. QED BY <3>1, <3>2
  <2>5. s[j] = after <=> j = p + 1
    <3>1. CASE ~(p < Len(s)) BY <1>4, <2>2, <3>1
    <3>2. CASE p < Len(s)
      <4>1. p + 1 \in 1..Len(s) BY <1>4, <3>2
      <4>2. s[j] = s[p + 1] => j = p + 1 BY <1>1, <1>4, <4>1 DEF Apart
      <4>3. QED BY <3>2, <4>2
    <3>3. QED BY <3>1, <3>2
  <2>6. QED BY <2>3, <2>4, <2>5
<1>7. (p # 1 => p - 1 \in 1..Len(s)) /\ (p < Len(s) => p + 1 \in 1..Len(s))
  BY <1>4
<1>8. \A r \in Rows : r # l => \A j \in 1..Len(rows[r]) : rows[r][j] # before /\ rows[r][j] # after
  <2>1. SUFFICES ASSUME NEW r \in Rows, r # l, NEW j \in 1..Len(rows[r])
                 PROVE  rows[r][j] # before /\ rows[r][j] # after
    OBVIOUS
  <2>2. rows[r][j] # None BY <1>5, <2>1
  <2>3. \A x \in 1..Len(s) : rows[r][j] # s[x] BY <1>1, <1>4, <2>1 DEF Apart
  <2>4. QED BY <1>7, <2>2, <2>3
<1>9. n \in On(rows) /\ n \in Nodes
  BY <1>4, <1>6
<1> HIDE DEF before, after
<1>10. Forward(k, new)
  <2>1. ASSUME NEW r \in Rows, r # l, NEW j \in 1..Len(new[r])
        PROVE  k.next[new[r][j]] = IF j < Len(new[r]) THEN new[r][j + 1] ELSE None
    <3>1. new[r] = rows[r] /\ j \in 1..Len(rows[r]) BY <1>3, <2>1
    <3>2. k.next[rows[r][j]] = h.next[rows[r][j]] BY <1>2, <1>5, <1>8, <2>1, <3>1
    <3>3. QED BY <1>1, <3>1, <3>2 DEF Forward
  <2>2. ASSUME NEW j \in 1..Len(t)
        PROVE  k.next[t[j]] = IF j < Len(t) THEN t[j + 1] ELSE None
    <3>1. j \in Nat /\ 1 <= j /\ j <= Len(t) BY <1>4
    <3>2. j < Len(t) => t[j + 1] = IF j + 1 < p THEN s[j + 1] ELSE s[j + 2]
      <4>1. ASSUME j < Len(t) PROVE j + 1 \in 1..Len(t) /\ (j + 1) + 1 = j + 2
        BY <1>3, <1>4, <4>1, <3>1
      <4>2. QED BY <1>3, <4>1
    <3>3. CASE j + 1 < p
      <4>1. j \in 1..Len(s) /\ j < Len(s) /\ j < Len(t) /\ j < p /\ j # p - 1 /\ j # p
        BY <1>3, <1>4, <3>3, <3>1
      <4>2. t[j] = s[j] BY <1>3, <4>1
      <4>3. k.next[s[j]] = h.next[s[j]] BY <1>2, <1>6, <4>1
      <4>4. h.next[s[j]] = s[j + 1] BY <1>1, <1>4, <4>1 DEF Forward
      <4>5. QED BY <3>2, <3>3, <4>1, <4>2, <4>3, <4>4
    <3>4. CASE j + 1 = p
      <4>1. j \in 1..Len(s) /\ j < p /\ j = p - 1 /\ j # p /\ (j < Len(t) <=> p < Len(s)) /\ p + 1 = j + 2
        BY <1>3, <1>4, <3>4, <3>1
      <4>2. t[j] = s[j] BY <1>3, <4>1
      <4>3. k.next[s[j]] = after BY <1>2, <1>6, <4>1
      <4>4. after = IF j < Len(t) THEN s[j + 2] ELSE None BY <4>1 DEF after
      <4>5. QED BY <3>2, <3>4, <4>1, <4>2, <4>3, <4>4
    <3>5. CASE ~(j + 1 <= p)
      <4>1. /\ j + 1 \in 1..Len(s) /\ ~(j < p) /\ j + 1 # p - 1 /\ j + 1 # p
            /\ (j < Len(t) <=> j + 1 < Len(s)) /\ (j + 1) + 1 = j + 2 /\ ~(j + 1 < p)
        BY <1>3, <1>4, <3>5, <3>1
      <4>2. t[j] = s[j + 1] BY <1>3, <4>1
      <4>3. k.next[s[j + 1]] = h.next[s[j + 1]] BY <1>2, <1>6, <4>1
      <4>4. h.next[s[j + 1]] = IF j + 1 < Len(s) THEN s[j + 2] ELSE None
        BY <1>1, <1>4, <4>1 DEF Forward
      <4>5. QED BY <3>2, <4>1, <4>2, <4>3, <4>4
    <3>6. QED BY <1>4, <3>1, <3>3, <3>4, <3>5
  <2>3. QED BY <1>4, <2>1, <2>2 DEF Forward
<1>11. Backward(k, new)
  <2>1. ASSUME NEW r \in Rows, r # l, NEW j \in 1..Len(new[r])
        PROVE  IF j = 1 THEN k.previous[new[r][j]] \notin On(new)
                        ELSE k.previous[new[r][j]] = new[r][j - 1]
    <3>1. new[r] = rows[r] /\ k.previous[new[r][j]] = h.previous[rows[r][j]]
      BY <1>2, <1>3, <1>5, <1>8, <2>1
    <3>2. QED BY <1>1, <1>3, <3>1, <2>1 DEF Backward
  <2>2. ASSUME NEW j \in 1..Len(t)
        PROVE  IF j = 1 THEN k.previous[t[j]] \notin On(new)
                        ELSE k.previous[t[j]] = t[j - 1]
    <3>1. j \in Nat /\ 1 <= j /\ j <= Len(t) BY <1>4
    <3>2. j # 1 => t[j - 1] = IF j - 1 < p THEN s[j - 1] ELSE s[j]
      <4>1. ASSUME j # 1 PROVE j - 1 \in 1..Len(t) /\ (j - 1) + 1 = j
        BY <1>4, <4>1, <3>1
      <4>2. QED BY <1>3, <4>1
    <3>3. CASE j < p
      <4>1. j \in 1..Len(s) /\ j # p + 1 /\ j # p /\ j - 1 < p BY <1>3, <1>4, <3>3, <3>1
      <4>2. t[j] = s[j] BY <1>3, <3>3
      <4>3. k.previous[s[j]] = h.previous[s[j]] BY <1>2, <1>6, <4>1
      <4>4. CASE j = 1 BY <1>1, <1>3, <1>4, <4>1, <4>2, <4>3, <4>4 DEF Backward
      <4>5. CASE j # 1
        <5>1. h.previous[s[j]] = s[j - 1] BY <1>1, <1>4, <4>1, <4>5 DEF Backward
        <5>2. QED BY <3>2, <4>1, <4>2, <4>3, <4>5, <5>1
      <4>6. QED BY <4>4, <4>5
    <3>4. CASE j = p
      <4>1. p + 1 \in 1..Len(s) /\ ~(j < p) /\ j - 1 < p BY <1>3, <1>4, <3>4, <3>1
      <4>2. t[j] = s[p + 1] BY <1>3, <4>1, <3>4
      <4>3. k.previous[s[p + 1]] = before BY <1>2, <1>4, <1>6, <4>1
      <4>4. before = IF j = 1 THEN None ELSE s[j - 1] BY <3>4 DEF before
      <4>5. QED BY <1>1, <1>3, <3>2, <4>1, <4>2, <4>3, <4>4
    <3>5. CASE j > p
      <4>1. /\ j + 1 \in 1..Len(s) /\ ~(j < p) /\ j + 1 # p + 1 /\ j + 1 # p /\ j + 1 # 1 /\ (j + 1) - 1 = j
            /\ ~(j - 1 < p) /\ j # 1
        BY <1>3, <1>4, <3>5, <3>1
      <4>2. t[j] = s[j + 1] BY <1>3, <4>1
      <4>3. k.previous[s[j + 1]] = h.previous[s[j + 1]] BY <1>2, <1>6, <4>1
      <4>4. h.previous[s[j + 1]] = s[j] BY <1>1, <1>4, <4>1 DEF Backward
      <4>5. QED BY <3>2, <4>1, <4>2, <4>3, <4>4
    <3>6. QED BY <1>4, <3>1, <3>3, <3>4, <3>5
  <2>3. QED BY <1>4, <2>1, <2>2 DEF Backward
<1>12. Headed(k, new)
  <2>1. SUFFICES ASSUME NEW m \in Lists PROVE k.head[m] = First(new[m])
    BY DEF Headed
  <2>2. m \in Rows /\ h.head \in [Lists -> NodeOrNone] BY <1>1, HeapFields DEF Rows
  <2>3. CASE m # l BY <1>1, <1>2, <1>3, <2>2, <2>3 DEF Headed
  <2>4. CASE m = l
    <3>1. First(t) = IF Len(t) = 0 THEN None ELSE t[1] BY <1>1, <1>3, <1>4, FirstOfRow
    <3>2. Len(t) # 0 => 1 \in 1..Len(t) BY <1>4
    <3>3. CASE p = 1
      <4>1. Len(t) = Len(s) - 1 BY <1>3
      <4>2. 1 + 1 = 2 OBVIOUS
      <4>3. Len(s) \in Nat /\ Len(s) >= 1 /\ Len(t) \in Nat BY <1>4
      <4>4. 1 < Len(s) <=> ~(Len(t) = 0) BY <4>3, <4>1
      <4>5. after = IF 1 < Len(s) THEN s[1 + 1] ELSE None BY <3>3 DEF after
      <4>6. after = IF Len(t) = 0 THEN None ELSE s[2] BY <4>2, <4>4, <4>5
      <4>7. Len(t) # 0 => t[1] = s[2] BY <1>3, <1>4, <3>2, <3>3
      <4>8. QED BY <1>2, <1>4, <2>2, <2>4, <3>1, <3>3, <4>6, <4>7
    <3>4. CASE p # 1
      <4>1. Len(t) # 0 /\ 1 < p BY <1>3, <1>4, <3>4
      <4>2. t[1] = s[1] BY <1>3, <3>2, <4>1
      <4>3. First(s) = s[1] BY <1>1, <1>4, <3>4, FirstOfRow
      <4>4. QED BY <1>1, <1>2, <1>4, <2>4, <3>1, <3>4, <4>1, <4>2, <4>3 DEF Headed
    <3>5. QED BY <3>3, <3>4
  <2>5. QED BY <2>3, <2>4
<1>13. Valued(k, new)
  BY <1>1, <1>2, <1>3 DEF Valued
<1>14. Blank(k, new, n)
  <2>1. n \in Nodes \ On(new) /\ k.next[n] = None /\ k.previous[n] = None
    BY <1>2, <1>3, <1>9
  <2>2. ASSUME NEW r \in Rows, new[r] # <<>> PROVE k.previous[new[r][1]] # n
    <3>1. 1 \in 1..Len(new[r]) BY <1>1, <1>3, <2>2, FirstOfRow
    <3>2. \A j \in 1..Len(s) : s[j] # None /\ (s[j] = n => j = p) BY <1>6
    <3>3. before # n
      <4>1. n # None BY <1>1, <1>9
      <4>2. p - 1 # p BY <1>4
      <4>3. QED BY <1>7, <3>2, <4>1, <4>2 DEF before
    <3>4. \A m \in On(rows) : m # n /\ h.previous[m] = n => m = after
      <4>1. SUFFICES ASSUME NEW q \in Rows, NEW j \in 1..Len(rows[q]),
                            h.previous[rows[q][j]] = n
                     PROVE  rows[q][j] = after
        BY DEF On
      <4>2. j # 1 BY <1>1, <1>9, <4>1 DEF Backward
      <4>3. j - 1 \in 1..Len(rows[q]) /\ rows[q][j - 1] = n /\ j \in Nat
        BY <1>1, <4>1, <4>2, FirstOfRow DEF Backward
      <4>4. q = l BY <1>5, <4>3
      <4>5. j - 1 = p BY <1>4, <1>6, <4>3, <4>4
      <4>6. j = p + 1 BY <1>4, <4>3, <4>5
      <4>7. QED BY <1>4, <1>6, <4>4, <4>6
    <3>5. new[r][1] \in On(new) /\ new[r][1] \in On(rows) /\ new[r][1] # n /\ new[r][1] \in Nodes
      BY <1>3, <3>1, OnRow
    <3>6. QED BY <1>2, <3>3, <3>4, <3>5
  <2>3. QED BY <2>1, <2>2 DEF Blank
<1>15. QED
  BY <1>2, <1>3, <1>10, <1>11, <1>12, <1>13, <1>14 DEF Drawn, k, new, n

(* Rows that are ends of other rows, one of each, are drawn too.           *)
LEMMA EndsOfRows ==
  ASSUME NEW h, NEW rows, Drawn(h, rows), NEW new \in [Rows -> Seq(Nodes)],
         NEW origin \in [Rows -> Rows], NEW shift \in [Rows -> Nat],
         \A r \in Rows : \A j \in 1..Len(new[r]) :
           /\ j + shift[r] \in 1..Len(rows[origin[r]])
           /\ new[r][j] = rows[origin[r]][j + shift[r]]
           /\ j < Len(new[r]) <=> j + shift[r] < Len(rows[origin[r]]),
         \A q, r \in Rows : new[q] # <<>> /\ new[r] # <<>> /\ origin[q] = origin[r] => q = r
  PROVE  /\ Apart(new) /\ Forward(h, new) /\ Backward(h, new) /\ Valued(h, new)
         /\ On(new) \subseteq On(rows)
<1>1. /\ h \in Heaps /\ rows \in [Rows -> Seq(Nodes)] /\ Apart(rows)
      /\ Forward(h, rows) /\ Backward(h, rows) /\ Headed(h, rows) /\ Valued(h, rows)
  BY DEF Drawn
<1>2. \A r \in Rows : \A j \in 1..Len(new[r]) : new[r] # <<>> /\ j \in Nat /\ shift[r] \in Nat
  BY FirstOfRow
<1>3. On(new) \subseteq On(rows)
  BY <1>1 DEF On
<1>4. Apart(new)
  <2>1. SUFFICES ASSUME NEW q \in Rows, NEW r \in Rows,
                        NEW j \in 1..Len(new[q]), NEW k \in 1..Len(new[r]),
                        new[q][j] = new[r][k]
                 PROVE  q = r /\ j = k
    BY DEF Apart
  <2>2. /\ origin[q] \in Rows /\ origin[r] \in Rows
        /\ j + shift[q] \in 1..Len(rows[origin[q]]) /\ k + shift[r] \in 1..Len(rows[origin[r]])
        /\ rows[origin[q]][j + shift[q]] = rows[origin[r]][k + shift[r]]
    BY <2>1
  <2> DEFINE a == origin[q]
             b == origin[r]
             x == j + shift[q]
             y == k + shift[r]
  <2>3. origin[q] = origin[r] /\ j + shift[q] = k + shift[r]
    <3>1. /\ a \in Rows /\ b \in Rows /\ x \in 1..Len(rows[a]) /\ y \in 1..Len(rows[b])
          /\ rows[a][x] = rows[b][y] /\ Apart(rows)
      BY <1>1, <2>2
    <3> HIDE DEF a, b, x, y
    <3>2. a = b /\ x = y BY ONLY <3>1 DEF Apart
    <3>3. QED BY <3>2 DEF a, b, x, y
  <2>4. q = r
    BY <1>2, <2>1, <2>3
  <2>5. QED BY <1>2, <2>1, <2>3, <2>4
<1>5. Forward(h, new)
  <2>1. SUFFICES ASSUME NEW r \in Rows, NEW j \in 1..Len(new[r])
                 PROVE  h.next[new[r][j]] = IF j < Len(new[r]) THEN new[r][j + 1] ELSE None
    BY DEF Forward
  <2> DEFINE o == origin[r]
             x == j + shift[r]
  <2>2. h.next[new[r][j]] = IF j < Len(new[r]) THEN rows[o][x + 1] ELSE None
    <3>1. /\ o \in Rows /\ x \in 1..Len(rows[o]) /\ new[r][j] = rows[o][x]
          /\ j < Len(new[r]) <=> x < Len(rows[o])
      BY <2>1
    <3>2. Forward(h, rows)
      BY <1>1
    <3> HIDE DEF o, x
    <3>3. h.next[rows[o][x]] = IF x < Len(rows[o]) THEN rows[o][x + 1] ELSE None
      BY ONLY <3>1, <3>2 DEF Forward
    <3>4. QED BY <3>1, <3>3
  <2>3. ASSUME j < Len(new[r]) PROVE new[r][j + 1] = rows[origin[r]][(j + shift[r]) + 1]
    <3>1. j + 1 \in 1..Len(new[r]) /\ (j + 1) + shift[r] = (j + shift[r]) + 1
      BY <1>2, <2>1, <2>3, FirstOfRow
    <3>2. QED BY <3>1
  <2>4. QED BY <2>2, <2>3
<1>6. Backward(h, new)
  <2>1. SUFFICES ASSUME NEW r \in Rows, NEW j \in 1..Len(new[r])
                 PROVE  IF j = 1 THEN h.previous[new[r][j]] \notin On(new)
                                 ELSE h.previous[new[r][j]] = new[r][j - 1]
    BY DEF Backward
  <2> DEFINE o == origin[r]
             i == j + shift[r]
  <2>2. /\ o \in Rows /\ i \in 1..Len(rows[o]) /\ new[r][j] = rows[o][i] /\ j \in Nat /\ j >= 1
        /\ shift[r] \in Nat /\ i \in Nat /\ new[r] # <<>>
    BY <1>2, <2>1
  <2>3. CASE j # 1
    <3>1. j - 1 \in 1..Len(new[r]) /\ (j - 1) + shift[r] = i - 1 /\ i # 1
      BY <2>1, <2>2, <2>3
    <3>2. new[r][j - 1] = rows[o][i - 1] BY <3>1
    <3>3. QED BY <1>1, <2>2, <2>3, <3>1, <3>2 DEF Backward
  <2>4. CASE j = 1 /\ i = 1 BY <1>1, <1>3, <2>2, <2>4 DEF Backward
  <2>5. CASE j = 1 /\ i # 1
    <3>1. h.previous[new[r][j]] = rows[o][i - 1] /\ i - 1 \in 1..Len(rows[o])
      BY <1>1, <2>2, <2>5, FirstOfRow DEF Backward
    <3>2. ASSUME rows[o][i - 1] \in On(new) PROVE FALSE
      <4>1. PICK q \in Rows : \E x \in 1..Len(new[q]) : new[q][x] = rows[o][i - 1]
        BY <3>2 DEF On
      <4>2. PICK x \in 1..Len(new[q]) : new[q][x] = rows[o][i - 1] BY <4>1
      <4>3. /\ origin[q] \in Rows /\ x + shift[q] \in 1..Len(rows[origin[q]])
            /\ rows[origin[q]][x + shift[q]] = rows[o][i - 1] /\ new[q] # <<>> /\ x \in Nat
        BY <1>2, <4>2
      <4> DEFINE b == origin[q]
                 y == x + shift[q]
                 z == i - 1
      <4>4. b \in Rows /\ y \in 1..Len(rows[b]) /\ rows[b][y] = rows[o][z] /\ z \in 1..Len(rows[o])
           /\ o \in Rows /\ Apart(rows)
        BY <1>1, <2>2, <3>1, <4>3
      <4> HIDE DEF o, i, b, y, z
      <4>5. b = o /\ y = z BY ONLY <4>4 DEF Apart
      <4>6. origin[q] = o /\ x + shift[q] = i - 1 BY <4>5 DEF b, y, z
      <4>7. q = r BY <2>2, <4>3, <4>6 DEF o
      <4>8. x + shift[r] = (j + shift[r]) - 1 BY <4>6, <4>7 DEF i
      <4>9. x = 0 BY <2>2, <2>5, <4>3, <4>8
      <4>10. QED BY <4>2, <4>9
    <3>3. QED BY <2>5, <3>1, <3>2
  <2>6. QED BY <2>3, <2>4, <2>5
<1>7. Valued(h, new)
  BY <1>1, <1>3 DEF Valued
<1>8. QED
  BY <1>3, <1>4, <1>5, <1>6, <1>7

-----------------------------------------------------------------------------
(* A new node is on no row yet. *)
LEMMA NewNodeDrawn ==
  ASSUME NEW h, NEW rows, Drawn(h, rows), NEW n, Blank(h, rows, n), NEW v \in Values
  PROVE  LET k == NewNode(h, n, v)
         IN  /\ Drawn(k, rows) /\ k.value = [h.value EXCEPT ![n] = v]
             /\ \A m : Blank(h, rows, m) => Blank(k, rows, m)
<1> DEFINE k == NewNode(h, n, v)
<1>1. h \in Heaps /\ n \in Nodes /\ n \notin On(rows)
  BY DEF Drawn, Blank
<1>2. /\ k \in Heaps /\ k.value = [h.value EXCEPT ![n] = v]
      /\ k.next = h.next /\ k.previous = h.previous /\ k.head = h.head
  BY <1>1, HeapFields DEF NewNode, Heaps
<1> HIDE DEF k
<1>3. Valued(k, rows)
  BY <1>1, <1>2, HeapFields DEF Drawn, Valued, On
<1>4. Drawn(k, rows)
  BY <1>2, <1>3 DEF Drawn, Forward, Backward, Headed
<1>5. QED
  BY <1>2, <1>4 DEF Blank, k

(* append(node) puts a blank node at the end of the list's row. *)
LEMMA AppendNodeDrawn ==
  ASSUME NEW h, NEW rows, Drawn(h, rows), NEW l \in Lists, NEW n, Blank(h, rows, n),
         h.value[n] \in Values
  PROVE  LET k   == AppendNode(h, l, n)
             new == [rows EXCEPT ![l] = Inserted(rows[l], Len(rows[l]), n)]
         IN  /\ Drawn(k, new) /\ k.value = h.value
             /\ \A m : m # n /\ Blank(h, rows, m) => Blank(k, new, m)
<1> DEFINE i == Len(rows[l])
<1>1. i \in 0..Len(rows[l])
  <2>1. rows \in [Rows -> Seq(Nodes)] /\ l \in Rows BY DEF Drawn, Rows
  <2>2. QED BY <2>1, FirstOfRow
<1>2. AppendNode(h, l, n) = InsertNode(h, l, n, i)
  BY AppendIsInsert
<1>3. i = Len(rows[l])
  OBVIOUS
<1> HIDE DEF i
<1>4. LET k   == InsertNode(h, l, n, i)
          new == [rows EXCEPT ![l] = Inserted(rows[l], i, n)]
      IN  /\ Drawn(k, new) /\ k.value = h.value
          /\ \A m : m # n /\ Blank(h, rows, m) => Blank(k, new, m)
  BY <1>1, InsertNodeDrawn
<1>5. QED
  BY <1>2, <1>3, <1>4

AppendLoop(h, l, ns, vs) ==
  CHOOSE after : after = [i \in 0..Len(vs) |->
    IF i = 0 THEN h ELSE AppendNode(NewNode(after[i - 1], ns[i], vs[i]), l, ns[i])]

(* The function that AppendValues defines by recursion exists. *)
LEMMA AppendLoopIs ==
  ASSUME NEW h, NEW l, NEW ns, NEW vs, Len(vs) \in Nat
  PROVE  /\ AppendLoop(h, l, ns, vs) = [i \in 0..Len(vs) |->
              IF i = 0 THEN h
              ELSE AppendNode(NewNode(AppendLoop(h, l, ns, vs)[i - 1], ns[i], vs[i]), l, ns[i])]
         /\ AppendValues(h, l, ns, vs) = AppendLoop(h, l, ns, vs)[Len(vs)]
<1> DEFINE Step(g, i) == AppendNode(NewNode(g, ns[i], vs[i]), l, ns[i])
           T == {j \in Nat : ~ \E f : f = [i \in 0..j |-> IF i = 0 THEN h ELSE Step(f[i - 1], i)]}
<1> HIDE DEF Step
<1>1. T = {}
  <2>1. SUFFICES ASSUME T # {} PROVE FALSE
    OBVIOUS
  <2>2. PICK m \in T : \A j \in T : m <= j
    <3>1. T \in SUBSET Nat OBVIOUS
    <3>2. QED BY <2>1, <3>1, Least
  <2>3. m # 0
    <3> DEFINE f == [i \in 0..0 |-> h]
    <3>1. f = [i \in 0..0 |-> IF i = 0 THEN h ELSE Step(f[i - 1], i)] OBVIOUS
    <3>2. QED BY <3>1
  <2>4. m - 1 \in Nat /\ m - 1 \notin T
    <3>1. T \in SUBSET Nat OBVIOUS
    <3> HIDE DEF T
    <3>2. QED BY <2>2, <2>3, <3>1
  <2>5. PICK f : f = [i \in 0..(m - 1) |-> IF i = 0 THEN h ELSE Step(f[i - 1], i)]
    BY <2>4
  <2> DEFINE g == [i \in 0..m |-> IF i = m THEN Step(f[m - 1], m) ELSE f[i]]
  <2>6. g = [i \in 0..m |-> IF i = 0 THEN h ELSE Step(g[i - 1], i)]
    <3>1. SUFFICES ASSUME NEW i \in 0..m PROVE g[i] = IF i = 0 THEN h ELSE Step(g[i - 1], i)
      OBVIOUS
    <3>2. CASE i = 0 BY <2>3, <2>5, <3>2, <2>4
    <3>3. CASE i = m BY <2>3, <3>3, <2>4
    <3>4. CASE i # 0 /\ i # m
      <4>1. i \in 0..(m - 1) /\ i - 1 \in 0..m /\ i - 1 # m BY <3>4
      <4>2. g[i] = f[i] /\ g[i - 1] = f[i - 1] BY <4>1
      <4>3. QED BY <2>5, <4>1, <4>2, <3>4
    <3>5. QED BY <3>2, <3>3, <3>4
  <2>7. QED BY <2>2, <2>6
<1>2. \E f : f = [i \in 0..Len(vs) |-> IF i = 0 THEN h ELSE Step(f[i - 1], i)]
  BY <1>1
<1>3. QED BY <1>2 DEF AppendLoop, AppendValues, Step

Extended(s, ns, k) == [j \in 1..(Len(s) + k) |-> IF j <= Len(s) THEN s[j] ELSE ns[j - Len(s)]]

(* Extended element by element. *)
LEMMA ExtendedElements ==
  ASSUME NEW S, NEW s \in Seq(S), NEW ns \in Seq(S), NEW k \in 0..Len(ns)
  PROVE  /\ Extended(s, ns, k) \in Seq(S) /\ Len(Extended(s, ns, k)) = Len(s) + k
         /\ \A j \in 1..(Len(s) + k) : Extended(s, ns, k)[j] =
              IF j <= Len(s) THEN s[j] ELSE ns[j - Len(s)]
<1> DEFINE t == Extended(s, ns, k)
<1>1. Len(s) \in Nat /\ Len(s) + k \in Nat /\ k \in Nat /\ Len(ns) \in Nat /\ k <= Len(ns)
  OBVIOUS
<1>2. \A j \in 1..(Len(s) + k) : t[j] = IF j <= Len(s) THEN s[j] ELSE ns[j - Len(s)]
  BY DEF Extended
<1>3. \A j \in 1..(Len(s) + k) : t[j] \in S
  <2>1. SUFFICES ASSUME NEW j \in 1..(Len(s) + k) PROVE t[j] \in S
    OBVIOUS
  <2>2. CASE j <= Len(s) BY <1>1, <1>2, <2>2
  <2>3. CASE ~(j <= Len(s))
    <3>1. j - Len(s) \in 1..Len(ns) BY <1>1, <2>3
    <3>2. QED BY <1>2, <2>3, <3>1
  <2>4. QED BY <2>2, <2>3
<1>4. t = [j \in 1..(Len(s) + k) |-> t[j]]
  BY DEF Extended
<1> HIDE DEF t
<1>5. t \in [1..(Len(s) + k) -> S]
  BY <1>3, <1>4
<1>6. t \in Seq(S) /\ Len(t) = Len(s) + k
  BY <1>1, <1>5, LenProperties, SeqDef
<1>7. QED
  BY <1>2, <1>6 DEF t

(* Extending by one node more is inserting it at the end. *)
LEMMA ExtendedByOne ==
  ASSUME NEW S, NEW s \in Seq(S), NEW ns \in Seq(S), NEW k \in 1..Len(ns)
  PROVE  Extended(s, ns, k) = Inserted(Extended(s, ns, k - 1), Len(Extended(s, ns, k - 1)), ns[k])
<1> DEFINE u == Extended(s, ns, k - 1)
<1>1. Len(s) \in Nat /\ k \in Nat /\ k - 1 \in 0..Len(ns) /\ k \in 0..Len(ns)
  OBVIOUS
<1>2. Len(u) = Len(s) + (k - 1)
      /\ \A j \in 1..(Len(s) + (k - 1)) : u[j] = IF j <= Len(s) THEN s[j] ELSE ns[j - Len(s)]
  <2> DEFINE i == k - 1
  <2>1. i \in 0..Len(ns) BY <1>1
  <2> HIDE DEF i
  <2>2. /\ Len(Extended(s, ns, i)) = Len(s) + i
        /\ \A j \in 1..(Len(s) + i) : Extended(s, ns, i)[j] = IF j <= Len(s) THEN s[j] ELSE ns[j - Len(s)]
    BY <2>1, ExtendedElements
  <2>3. QED BY <2>2 DEF i
<1> HIDE DEF u
<1>3. Len(u) + 1 = Len(s) + k
  BY <1>1, <1>2
<1>4. ASSUME NEW j \in 1..(Len(s) + k)
      PROVE  (IF j <= Len(u) THEN u[j] ELSE IF j = Len(u) + 1 THEN ns[k] ELSE u[j - 1])
               = IF j <= Len(s) THEN s[j] ELSE ns[j - Len(s)]
  <2>1. CASE j <= Len(u)
    <3>1. j \in 1..(Len(s) + (k - 1)) BY <1>1, <1>2, <2>1
    <3>2. QED BY <1>2, <2>1, <3>1
  <2>2. CASE ~(j <= Len(u))
    <3>1. j = Len(u) + 1 /\ ~(j <= Len(s)) /\ j - Len(s) = k BY <1>1, <1>2, <2>2
    <3>2. QED BY <2>2, <3>1
  <2>3. QED BY <2>1, <2>2
<1>5. QED
  BY <1>3, <1>4 DEF Inserted, Extended, u

(* The nodes ns are ready to be appended, one for each of the values vs.    *)
Prepared(h, rows, ns, vs) ==
  /\ vs \in Seq(Values) /\ ns \in Seq(Nodes) /\ Len(ns) = Len(vs)
  /\ \A i, j \in 1..Len(vs) : ns[i] = ns[j] => i = j
  /\ \A j \in 1..Len(vs) : Blank(h, rows, ns[j])

(* The row of l with the first k of the nodes ns behind it.                *)
Longer(rows, l, ns, k) == [rows EXCEPT ![l] = Extended(rows[l], ns, k)]

(* The loop puts the new nodes, with their values, behind the list's row.  *)
LEMMA AppendValuesDrawn ==
  ASSUME NEW h, NEW rows, Drawn(h, rows), NEW l \in Lists,
         NEW vs, NEW ns, Prepared(h, rows, ns, vs)
  PROVE  /\ Drawn(AppendValues(h, l, ns, vs), Longer(rows, l, ns, Len(vs)))
         /\ \A j \in 1..Len(vs) : AppendValues(h, l, ns, vs).value[ns[j]] = vs[j]
         /\ \A m \in On(rows) : AppendValues(h, l, ns, vs).value[m] = h.value[m]
<1> DEFINE N == Len(vs)
           after == AppendLoop(h, l, ns, vs)
           row(i) == [rows EXCEPT ![l] = Extended(rows[l], ns, i)]
           Inv(i) == /\ Drawn(after[i], row(i))
                     /\ \A j \in 1..N : j > i => Blank(after[i], row(i), ns[j])
                     /\ \A j \in 1..N : j <= i => after[i].value[ns[j]] = vs[j]
                     /\ \A m \in On(rows) : after[i].value[m] = h.value[m]
           T == {i \in 0..N : ~Inv(i)}
<1>1. /\ N \in Nat /\ rows \in [Rows -> Seq(Nodes)] /\ l \in Rows /\ rows[l] \in Seq(Nodes)
      /\ vs \in Seq(Values) /\ ns \in Seq(Nodes) /\ Len(ns) = N
      /\ (\A i, j \in 1..N : ns[i] = ns[j] => i = j)
      /\ \A j \in 1..N : Blank(h, rows, ns[j])
  BY DEF Drawn, Rows, Prepared
<1>2. /\ after = [i \in 0..N |->
                    IF i = 0 THEN h ELSE AppendNode(NewNode(after[i - 1], ns[i], vs[i]), l, ns[i])]
      /\ AppendValues(h, l, ns, vs) = after[N]
  BY <1>1, AppendLoopIs
<1>3. /\ ns \in [1..N -> Nodes] /\ vs \in [1..N -> Values]
      /\ ns \in Seq(Nodes) /\ Len(ns) = N
  <2>1. ns \in Seq(Nodes) /\ Len(ns) = N /\ vs \in Seq(Values) /\ Len(vs) = N
    BY <1>1
  <2>2. QED BY <2>1, LenProperties
<1> HIDE DEF N, after
<1>4. Inv(0)
  <2>1. after[0] = h BY <1>1, <1>2
  <2>2. Extended(rows[l], ns, 0) = rows[l]
    <3>1. Len(rows[l]) + 0 = Len(rows[l]) /\ Len(rows[l]) \in Nat BY <1>1
    <3>2. rows[l] = [j \in 1..Len(rows[l]) |-> rows[l][j]] BY <1>1
    <3>3. Extended(rows[l], ns, 0) = [j \in 1..Len(rows[l]) |-> rows[l][j]]
      <4>1. \A j \in 1..Len(rows[l]) : j <= Len(rows[l]) BY <3>1
      <4>2. QED BY ONLY <3>1, <4>1 DEF Extended
    <3>4. QED BY <3>2, <3>3
  <2>3. row(0) = rows BY <1>1, <2>2
  <2>4. \A j \in 1..N : j > 0 => Blank(h, rows, ns[j]) BY <1>1
  <2>5. \A j \in 1..N : ~(j <= 0) BY <1>1
  <2> HIDE DEF row
  <2>6. QED BY <2>1, <2>3, <2>4, <2>5
<1>5. T = {}
  <2>1. SUFFICES ASSUME T # {} PROVE FALSE
    OBVIOUS
  <2>2. PICK i \in T : \A j \in T : i <= j
    <3>1. T \in SUBSET Nat BY <1>1
    <3>2. QED BY <2>1, <3>1, Least
  <2>3. i \in 1..N /\ i - 1 \in 0..N /\ Inv(i - 1) /\ ~Inv(i)
    <3>1. i # 0 BY <1>4, <2>2
    <3>2. i \in 1..N /\ i - 1 \in 0..N /\ i - 1 \in Nat /\ ~(i <= i - 1) BY <1>1, <2>2, <3>1
    <3>3. i - 1 \notin T BY <2>2, <3>2
    <3>4. QED BY <2>2, <3>2, <3>3
  <2> DEFINE g == after[i - 1]
             old == row(i - 1)
             n == ns[i]
             g1 == NewNode(g, n, vs[i])
             g2 == AppendNode(g1, l, n)
  <2>4. after[i] = g2 BY <1>2, <2>3
  <2>5. /\ Drawn(g, old) /\ Blank(g, old, n) /\ vs[i] \in Values /\ n \in Nodes
        /\ \A j \in 1..N : j > i => Blank(g, old, ns[j])
    <3> HIDE DEF row
    <3>1. Drawn(g, old) /\ \A j \in 1..N : j > i - 1 => Blank(g, old, ns[j])
      BY <2>3
    <3> HIDE DEF g, old
    <3>2. i > i - 1 /\ \A j \in 1..N : j > i => j > i - 1
      BY <1>1, <2>3
    <3>3. QED BY <1>3, <2>3, <3>1, <3>2
  <2>6. row(i) = [old EXCEPT ![l] = Inserted(old[l], Len(old[l]), n)]
    <3>1. old[l] = Extended(rows[l], ns, i - 1) BY <1>1
    <3>2. Extended(rows[l], ns, i) = Inserted(old[l], Len(old[l]), n)
      <4> HIDE DEF old
      <4>1. Extended(rows[l], ns, i) = Inserted(Extended(rows[l], ns, i - 1), Len(Extended(rows[l], ns, i - 1)), n)
        <5>1. rows[l] \in Seq(Nodes) /\ ns \in Seq(Nodes) /\ i \in 1..Len(ns)
          BY <1>1, <1>3, <2>3
        <5>2. QED BY <5>1, ExtendedByOne
      <4>2. QED BY <3>1, <4>1
    <3>3. QED BY <3>2
  <2>7. On(rows) \subseteq Nodes /\ \A m \in On(rows) : m # n
    <3>1. Blank(h, rows, n) BY <1>1, <2>3
    <3>2. QED BY <3>1 DEF Blank, On
  <2> HIDE DEF g, old, n, row
  <2>8. /\ Drawn(g1, old) /\ g1.value = [g.value EXCEPT ![n] = vs[i]]
        /\ \A m : Blank(g, old, m) => Blank(g1, old, m)
    BY <2>5, NewNodeDrawn
  <2> HIDE DEF g1
  <2>9. g.value \in [Nodes -> Values \cup {None}]
    BY <2>5, HeapFields DEF Drawn
  <2>10. /\ Drawn(g2, row(i)) /\ g2.value = g1.value
         /\ \A m : m # n /\ Blank(g1, old, m) => Blank(g2, row(i), m)
    <3>1. g1.value[n] \in Values BY <2>5, <2>8, <2>9
    <3>2. Blank(g1, old, n) BY <2>5, <2>8
    <3>3. /\ Drawn(g2, [old EXCEPT ![l] = Inserted(old[l], Len(old[l]), n)]) /\ g2.value = g1.value
          /\ \A m : m # n /\ Blank(g1, old, m)
                => Blank(g2, [old EXCEPT ![l] = Inserted(old[l], Len(old[l]), n)], m)
      BY <2>8, <3>1, <3>2, AppendNodeDrawn
    <3>4. QED BY <2>6, <3>3
  <2> HIDE DEF g2
  <2>11. \A j \in 1..N : ns[j] \in Nodes /\ (ns[j] = n <=> j = i)
    BY <1>1, <1>3, <2>3 DEF n
  <2>12. \A j \in 1..N : j > i => Blank(g2, row(i), ns[j])
    BY <2>3, <2>5, <2>8, <2>10, <2>11
  <2>13. \A j \in 1..N : j <= i => g2.value[ns[j]] = vs[j]
    <3>1. SUFFICES ASSUME NEW j \in 1..N, j <= i PROVE g2.value[ns[j]] = vs[j]
      OBVIOUS
    <3>2. CASE j = i BY <2>5, <2>8, <2>9, <2>10, <2>11, <3>2
    <3>3. CASE j # i
      <4>1. j <= i - 1 BY <1>1, <2>3, <3>1, <3>3
      <4>2. g.value[ns[j]] = vs[j] BY <2>3, <4>1 DEF g
      <4>3. QED BY <2>8, <2>9, <2>10, <2>11, <3>3, <4>2
    <3>4. QED BY <3>2, <3>3
  <2>14. \A m \in On(rows) : g2.value[m] = h.value[m]
    <3>1. \A m \in On(rows) : g.value[m] = h.value[m] BY <2>3 DEF g
    <3>2. QED BY <2>7, <2>8, <2>9, <2>10, <3>1
  <2>15. Inv(i) BY <2>4, <2>10, <2>12, <2>13, <2>14
  <2>16. QED BY <2>3, <2>15
<1>6. Inv(N)
  <2>1. N \in 0..N BY <1>1
  <2>2. N \notin T BY <1>5
  <2> HIDE DEF row
  <2>3. QED BY <2>1, <2>2
<1>7. \A j \in 1..N : j <= N
  BY <1>1
<1>8. row(N) = Longer(rows, l, ns, N)
  BY DEF Longer
<1> HIDE DEF row
<1>9. QED
  BY <1>2, <1>6, <1>7, <1>8 DEF N

-----------------------------------------------------------------------------
TurnLoop(h, l) ==
  CHOOSE after : after = [i \in 0..Cardinality(Nodes) |->
    IF i = 0 THEN [heap |-> h, node |-> h.head[l]] ELSE Turn(after[i - 1], l)]

(* The function that ReverseHeap defines by recursion exists. *)
LEMMA TurnLoopIs ==
  ASSUME NEW h, NEW l
  PROVE  /\ Cardinality(Nodes) \in Nat
         /\ TurnLoop(h, l) = [i \in 0..Cardinality(Nodes) |->
              IF i = 0 THEN [heap |-> h, node |-> h.head[l]] ELSE Turn(TurnLoop(h, l)[i - 1], l)]
         /\ ReverseHeap(h, l) = TurnLoop(h, l)[Cardinality(Nodes)].heap
<1> DEFINE Step(t) == Turn(t, l)
           start == [heap |-> h, node |-> h.head[l]]
           T == {j \in Nat : ~ \E f : f = [i \in 0..j |-> IF i = 0 THEN start ELSE Step(f[i - 1])]}
<1> HIDE DEF Step, start
<1>1. T = {}
  <2>1. SUFFICES ASSUME T # {} PROVE FALSE
    OBVIOUS
  <2>2. PICK m \in T : \A j \in T : m <= j
    <3>1. T \in SUBSET Nat OBVIOUS
    <3>2. QED BY <2>1, <3>1, Least
  <2>3. m # 0
    <3> DEFINE f == [i \in 0..0 |-> start]
    <3>1. f = [i \in 0..0 |-> IF i = 0 THEN start ELSE Step(f[i - 1])] OBVIOUS
    <3>2. QED BY <3>1
  <2>4. m - 1 \in Nat /\ m - 1 \notin T
    <3>1. T \in SUBSET Nat OBVIOUS
    <3> HIDE DEF T
    <3>2. QED BY <2>2, <2>3, <3>1
  <2>5. PICK f : f = [i \in 0..(m - 1) |-> IF i = 0 THEN start ELSE Step(f[i - 1])]
    BY <2>4
  <2> DEFINE g == [i \in 0..m |-> IF i = m THEN Step(f[m - 1]) ELSE f[i]]
  <2>6. g = [i \in 0..m |-> IF i = 0 THEN start ELSE Step(g[i - 1])]
    <3>1. SUFFICES ASSUME NEW i \in 0..m PROVE g[i] = IF i = 0 THEN start ELSE Step(g[i - 1])
      OBVIOUS
    <3>2. CASE i = 0 BY <2>3, <2>5, <3>2, <2>4
    <3>3. CASE i = m BY <2>3, <3>3, <2>4
    <3>4. CASE i # 0 /\ i # m
      <4>1. i \in 0..(m - 1) /\ i - 1 \in 0..m /\ i - 1 # m BY <3>4
      <4>2. g[i] = f[i] /\ g[i - 1] = f[i - 1] BY <4>1
      <4>3. QED BY <2>5, <4>1, <4>2, <3>4
    <3>5. QED BY <3>2, <3>3, <3>4
  <2>7. QED BY <2>2, <2>6
<1>2. Cardinality(Nodes) \in Nat
  BY NodesAssumption, FS_CardinalityType
<1>3. \E f : f = [i \in 0..Cardinality(Nodes) |-> IF i = 0 THEN start ELSE Step(f[i - 1])]
  BY <1>1, <1>2
<1>4. QED BY <1>2, <1>3 DEF TurnLoop, ReverseHeap, Step, start

(* A set closed under next holds the rest of a row with any of its nodes. *)
LEMMA WalkStays ==
  ASSUME NEW f, NEW S, \A m \in S : f[m] \in S \cup {None},
         NEW s \in Seq(Nodes), NEW a \in 1..Len(s), s[a] \in S,
         \A i \in a..(Len(s) - 1) : f[s[i]] = s[i + 1]
  PROVE  \A i \in a..Len(s) : s[i] \in S
<1>1. Len(s) \in Nat /\ a \in Nat /\ 1 <= a
  OBVIOUS
<1> DEFINE T == {i \in a..Len(s) : s[i] \notin S}
<1>2. T = {}
  <2>1. SUFFICES ASSUME T # {} PROVE FALSE
    OBVIOUS
  <2>2. PICK i \in T : \A j \in T : i <= j
    <3>1. T \in SUBSET Nat BY <1>1
    <3>2. QED BY <2>1, <3>1, Least
  <2>3. i - 1 \in a..(Len(s) - 1) /\ i - 1 \notin T /\ (i - 1) + 1 = i /\ i \in 1..Len(s)
    <3>1. i \in a..Len(s) /\ i # a BY <2>2
    <3>2. i - 1 \in a..(Len(s) - 1) /\ (i - 1) + 1 = i /\ ~(i <= i - 1) /\ i \in 1..Len(s)
      BY <1>1, <3>1
    <3>3. QED BY <2>2, <3>2
  <2>4. s[i - 1] \in S
    <3>1. i - 1 \in a..Len(s) BY <1>1, <2>3
    <3>2. QED BY <2>3, <3>1
  <2>5. f[s[i - 1]] = s[i] BY <2>3
  <2>6. s[i] # None BY <2>3, NodesAssumption
  <2>7. QED BY <2>2, <2>4, <2>5, <2>6
<1>3. QED
  BY <1>2

(* A set closed under swapped pointers holds the nodes before any of its. *)
LEMMA WalkBackStays ==
  ASSUME NEW f, NEW S, \A m \in S : f[m] \in S \cup {None},
         NEW s \in Seq(Nodes), NEW a \in 1..Len(s), s[a] \in S,
         \A i \in 2..a : f[s[i]] = s[i - 1]
  PROVE  \A i \in 1..a : s[i] \in S
<1>1. Len(s) \in Nat /\ a \in Nat /\ 1 <= a
  OBVIOUS
<1> DEFINE T == {d \in 0..(a - 1) : s[a - d] \notin S}
<1>2. T = {}
  <2>1. SUFFICES ASSUME T # {} PROVE FALSE
    OBVIOUS
  <2>2. PICK d \in T : \A j \in T : d <= j
    <3>1. T \in SUBSET Nat BY <1>1
    <3>2. QED BY <2>1, <3>1, Least
  <2>3. /\ d - 1 \in 0..(a - 1) /\ d - 1 \notin T /\ a - (d - 1) \in 2..a
        /\ (a - (d - 1)) - 1 = a - d /\ a - d \in 1..Len(s)
    <3>1. d \in 0..(a - 1) /\ d # 0
      <4>1. a - 0 = a BY <1>1
      <4>2. QED BY <2>2, <4>1
    <3>2. /\ d - 1 \in 0..(a - 1) /\ a - (d - 1) \in 2..a /\ ~(d <= d - 1)
          /\ (a - (d - 1)) - 1 = a - d /\ a - d \in 1..Len(s)
      BY <1>1, <3>1
    <3>3. QED BY <2>2, <3>2
  <2>4. s[a - (d - 1)] \in S BY <2>3
  <2>5. f[s[a - (d - 1)]] = s[a - d] BY <2>3
  <2>6. s[a - d] # None BY <2>3, NodesAssumption
  <2>7. QED BY <2>2, <2>4, <2>5, <2>6
<1>3. ASSUME NEW i \in 1..a PROVE s[i] \in S
  <2>1. a - i \in 0..(a - 1) /\ a - (a - i) = i BY <1>1
  <2>2. QED BY <1>2, <2>1
<1>4. QED
  BY <1>3

(* Nothing happens to a heap whose nodes all live.                         *)
LEMMA NothingToCollect ==
  ASSUME NEW h \in Heaps, NEW roots, NEW U \in SUBSET Nodes, U \subseteq Alive(h, roots),
         \A n \in U : h.previous[n] \in U \cup {None},
         \A n \in Nodes \ U : h.next[n] = None /\ h.previous[n] = None /\ h.value[n] = None
  PROVE  Collect(h, roots) = h
<1> DEFINE c == Collect(h, roots)
           alive == Alive(h, roots)
<1>1. /\ c \in Heaps /\ c.head = h.head
      /\ \A n \in Nodes :
           /\ c.next[n] = IF n \in alive THEN h.next[n] ELSE None
           /\ c.value[n] = IF n \in alive THEN h.value[n] ELSE None
           /\ c.previous[n] = IF n \in alive /\ h.previous[n] \in alive THEN h.previous[n] ELSE None
  BY CollectFields
<1>2. U \subseteq alive
  OBVIOUS
<1> HIDE DEF c, alive
<1>3. \A n \in Nodes : c.next[n] = h.next[n] /\ c.value[n] = h.value[n] /\ c.previous[n] = h.previous[n]
  BY <1>1, <1>2
<1>4. c.next = h.next /\ c.value = h.value /\ c.previous = h.previous
  BY <1>1, <1>3, HeapFields
<1>5. c = h
  BY <1>1, <1>4 DEF Heaps
<1>6. QED
  BY <1>5 DEF c

Done(s, k) == {s[i] : i \in {j \in 1..Len(s) : j <= k}}

(* After k turns over the row s the pointers of its first k nodes are      *)
(* swapped, and the list begins with the last of them.                     *)
Half(h, l, s, t, k) ==
  /\ t.heap \in Heaps /\ t.heap.value = h.value
  /\ t.heap.head = IF k = 0 THEN h.head ELSE [h.head EXCEPT ![l] = s[k]]
  /\ t.node = IF k < Len(s) THEN s[k + 1] ELSE None
  /\ \A m \in Nodes :
       /\ t.heap.next[m] = IF m \in Done(s, k) THEN h.previous[m] ELSE h.next[m]
       /\ t.heap.previous[m] = IF m \in Done(s, k) THEN h.next[m] ELSE h.previous[m]

(* The pointers of a tidy heap, node by node. *)
LEMMA TidyRows ==
  ASSUME NEW h, NEW rows, Tidy(h, rows), NEW r \in Rows, NEW i \in 1..Len(rows[r])
  PROVE  /\ rows[r][i] \in Nodes /\ rows[r][i] # None /\ rows[r][i] \in On(rows)
         /\ h.next[rows[r][i]] = IF i < Len(rows[r]) THEN rows[r][i + 1] ELSE None
         /\ h.previous[rows[r][i]] = IF i = 1 THEN None ELSE rows[r][i - 1]
         /\ h.next[rows[r][i]] \in On(rows) \cup {None}
         /\ h.previous[rows[r][i]] \in On(rows) \cup {None}
         /\ i \in Nat /\ Len(rows[r]) \in Nat
<1>1. /\ rows \in [Rows -> Seq(Nodes)] /\ Forward(h, rows) /\ Backward(h, rows)
      /\ \A m \in On(rows) : h.previous[m] \in On(rows) \cup {None}
  BY DEF Tidy, Drawn
<1>2. rows[r][i] \in Nodes /\ rows[r][i] # None /\ rows[r][i] \in On(rows)
  BY <1>1, OnRow
<1>3. h.next[rows[r][i]] = IF i < Len(rows[r]) THEN rows[r][i + 1] ELSE None
  BY <1>1 DEF Forward
<1>4. h.previous[rows[r][i]] = IF i = 1 THEN None ELSE rows[r][i - 1]
  BY <1>1, <1>2 DEF Backward
<1>5. i \in Nat /\ Len(rows[r]) \in Nat
  BY <1>1, FirstOfRow
<1>6. i < Len(rows[r]) => rows[r][i + 1] \in On(rows)
  <2>1. i < Len(rows[r]) => i + 1 \in 1..Len(rows[r]) BY <1>5
  <2>2. QED BY <1>1, <2>1, OnRow
<1>7. QED
  BY <1>1, <1>2, <1>3, <1>4, <1>5, <1>6

(* A turn swaps the pointers of one more node, and no node dies of it.     *)
LEMMA TurnOfHalf ==
  ASSUME NEW h, NEW rows, Tidy(h, rows), Reaches(rows, held), NEW l \in Lists,
         NEW t, NEW k \in 0..(Len(rows[l]) - 1), Half(h, l, rows[l], t, k)
  PROVE  Half(h, l, rows[l], Turn(t, l), k + 1)
<1> DEFINE s == rows[l]
           g == t.heap
           n == s[k + 1]
           following == IF k + 1 < Len(s) THEN s[k + 2] ELSE None
<1>1. /\ h \in Heaps /\ rows \in [Rows -> Seq(Nodes)] /\ Apart(rows) /\ Headed(h, rows)
      /\ On(rows) \in SUBSET Nodes /\ l \in Rows /\ s \in Seq(Nodes) /\ s = rows[l]
      /\ \A m \in Nodes \ On(rows) : h.next[m] = None /\ h.previous[m] = None /\ h.value[m] = None
  BY DEF Tidy, Drawn, Rows, On
<1>2. /\ k \in Nat /\ Len(s) \in Nat /\ k < Len(s) /\ k + 1 \in 1..Len(s) /\ (k + 1) + 1 = k + 2
  BY <1>1
<1>3. /\ n \in Nodes /\ n # None /\ n \in On(rows) /\ h.next[n] = following
      /\ h.previous[n] = IF k = 0 THEN None ELSE s[k]
      /\ h.next[n] \in On(rows) \cup {None} /\ h.previous[n] \in On(rows) \cup {None}
  <2> DEFINE i == k + 1
  <2>1. i \in 1..Len(rows[l]) BY <1>2
  <2> HIDE DEF i
  <2>2. /\ s[i] \in Nodes /\ s[i] # None /\ s[i] \in On(rows)
        /\ h.next[s[i]] = IF i < Len(s) THEN s[i + 1] ELSE None
        /\ h.previous[s[i]] = IF i = 1 THEN None ELSE s[i - 1]
        /\ h.next[s[i]] \in On(rows) \cup {None} /\ h.previous[s[i]] \in On(rows) \cup {None}
    BY <1>1, <2>1, TidyRows
  <2>3. i = k + 1 /\ i + 1 = k + 2 /\ i - 1 = k /\ (i = 1 <=> k = 0) BY <1>2 DEF i
  <2>4. QED BY <2>2, <2>3
<1>4. /\ g \in Heaps /\ g.value = h.value
      /\ g.head = IF k = 0 THEN h.head ELSE [h.head EXCEPT ![l] = s[k]]
      /\ t.node = n
      /\ \A m \in Nodes :
           /\ g.next[m] = IF m \in Done(s, k) THEN h.previous[m] ELSE h.next[m]
           /\ g.previous[m] = IF m \in Done(s, k) THEN h.next[m] ELSE h.previous[m]
  BY <1>2 DEF Half
<1>5. n \notin Done(s, k) /\ Done(s, k + 1) = Done(s, k) \cup {n}
  <2>1. \A j \in 1..Len(s) : s[j] = n => j = k + 1 BY <1>1, <1>2 DEF Apart
  <2>2. n \notin Done(s, k) BY <1>2, <2>1 DEF Done
  <2>3. \A j \in 1..Len(s) : j <= k + 1 <=> (j <= k \/ j = k + 1) BY <1>2
  <2>4. QED BY <1>2, <2>2, <2>3 DEF Done
<1>6. s # <<>>
  BY <1>1, <1>2, FirstOfRow
<1> DEFINE h1 == SetNext(g, n, g.previous[n])
           h2 == SetPrevious(h1, n, following)
           h3 == SetHead(h2, l, n)
<1>7. g.next[n] = following /\ g.previous[n] = h.previous[n]
  BY <1>3, <1>4, <1>5
<1>8. Turn(t, l) = [heap |-> Collect(h3, {following, held}), node |-> following]
  BY <1>3, <1>4, <1>7 DEF Turn
<1> HIDE DEF s, g, n, following
<1>9. n \in NodeOrNone /\ following \in NodeOrNone /\ g.previous[n] \in NodeOrNone
  BY <1>1, <1>3, <1>7 DEF NodeOrNone
<1>10. /\ h1 \in Heaps /\ h1.next = [g.next EXCEPT ![n] = g.previous[n]] /\ h1.previous = g.previous
       /\ h1.value = g.value /\ h1.head = g.head
  BY <1>4, <1>9, SetNextFields
<1> HIDE DEF h1
<1>11. /\ h2 \in Heaps /\ h2.next = h1.next /\ h2.previous = [h1.previous EXCEPT ![n] = following]
       /\ h2.value = h1.value /\ h2.head = h1.head
  BY <1>9, <1>10, SetPreviousFields
<1> HIDE DEF h2
<1>12. /\ h3 \in Heaps /\ h3.next = h2.next /\ h3.previous = h2.previous
       /\ h3.value = h2.value /\ h3.head = [h2.head EXCEPT ![l] = n]
  BY <1>9, <1>11, SetHeadFields
<1> HIDE DEF h3
<1>13. \A m \in Nodes :
         /\ h3.next[m] = IF m \in Done(s, k + 1) THEN h.previous[m] ELSE h.next[m]
         /\ h3.previous[m] = IF m \in Done(s, k + 1) THEN h.next[m] ELSE h.previous[m]
  <2>1. g.next \in [Nodes -> NodeOrNone] /\ g.previous \in [Nodes -> NodeOrNone]
    BY <1>4, HeapFields
  <2>2. QED BY <1>3, <1>4, <1>5, <1>7, <1>10, <1>11, <1>12, <2>1
<1>14. h3.head = [h.head EXCEPT ![l] = n] /\ h3.value = h.value
  <2>1. h.head \in [Lists -> NodeOrNone] BY <1>1, HeapFields
  <2>2. QED BY <1>4, <1>10, <1>11, <1>12, <2>1
<1>15. On(rows) \subseteq Alive(h3, {following, held})
  <2> DEFINE starts == {following, held} \cup {h3.head[m] : m \in Lists}
  <2>1. SUFFICES ASSUME NEW S \in SUBSET Nodes, starts \cap Nodes \subseteq S,
                        \A m \in S : h3.next[m] \in S \cup {None}
                 PROVE  On(rows) \subseteq S
    BY <1>1 DEF Alive, ReachableFrom
  <2>2. SUFFICES ASSUME NEW r \in Rows PROVE \A i \in 1..Len(rows[r]) : rows[r][i] \in S
    BY DEF On
  <2>3. rows[r] \in Seq(Nodes) /\ Len(rows[r]) \in Nat BY <1>1
  <2>4. CASE r # l
    <3>1. SUFFICES ASSUME Len(rows[r]) # 0 PROVE \A i \in 1..Len(rows[r]) : rows[r][i] \in S
      BY <2>3
    <3>2. 1 \in 1..Len(rows[r]) /\ rows[r] # <<>> BY <1>1, <2>3, <3>1, FirstOfRow
    <3>3. rows[r][1] \in starts
      <4>1. CASE r \in Lists
        <5>1. h3.head[r] = h.head[r] BY <1>1, <1>14, <2>4, <4>1, HeapFields
        <5>2. h.head[r] = rows[r][1] BY <1>1, <3>2, <4>1 DEF Headed, First
        <5>3. QED BY <4>1, <5>1, <5>2
      <4>2. CASE r = Outside BY <3>2, <4>2 DEF Reaches
      <4>3. QED BY <4>1, <4>2 DEF Rows
    <3>4. rows[r][1] \in S BY <1>1, <2>1, <3>2, <3>3, OnRow
    <3>5. ASSUME NEW i \in 1..(Len(rows[r]) - 1) PROVE h3.next[rows[r][i]] = rows[r][i + 1]
      <4>1. i \in 1..Len(rows[r]) /\ i < Len(rows[r]) BY <2>3
      <4>2. rows[r][i] \notin Done(s, k + 1)
        <5>1. \A j \in 1..Len(s) : s[j] # rows[r][i] BY <1>1, <2>4, <4>1 DEF Apart
        <5>2. QED BY <5>1 DEF Done
      <4>3. QED BY <1>13, <4>1, <4>2, TidyRows
    <3> DEFINE f == h3.next
    <3>6. /\ \A m \in S : f[m] \in S \cup {None}
          /\ \A i \in 1..(Len(rows[r]) - 1) : f[rows[r][i]] = rows[r][i + 1]
      BY <2>1, <3>5
    <3> HIDE DEF f
    <3>7. QED BY <2>3, <3>2, <3>4, <3>6, WalkStays
  <2>5. CASE r = l
    <3> DEFINE f == h3.next
    <3>1. \A m \in S : f[m] \in S \cup {None} BY <2>1
    <3>2. \A i, j \in 1..Len(s) : s[i] = s[j] => i = j BY <1>1 DEF Apart
    <3>3. \A i \in 1..Len(s) : s[i] \in Done(s, k + 1) <=> i <= k + 1
      BY <3>2 DEF Done
    <3>4. \A i \in 1..Len(s) : /\ s[i] \in Nodes
                               /\ h.next[s[i]] = IF i < Len(s) THEN s[i + 1] ELSE None
                               /\ h.previous[s[i]] = IF i = 1 THEN None ELSE s[i - 1]
      BY <1>1, TidyRows
    <3>5. s[k + 1] \in S
      <4>1. h3.head[l] = n BY <1>1, <1>14, HeapFields
      <4>2. QED BY <1>3, <2>1, <4>1 DEF n
    <3>6. \A i \in 2..(k + 1) : f[s[i]] = s[i - 1]
      <4>1. \A i \in 2..(k + 1) : i \in 1..Len(s) /\ i <= k + 1 /\ i # 1 BY <1>2
      <4>2. QED BY <1>13, <3>3, <3>4, <4>1
    <3>7. \A i \in 1..(k + 1) : s[i] \in S
      <4> DEFINE a == k + 1
      <4>1. a \in 1..Len(s) /\ s[a] \in S /\ \A i \in 2..a : f[s[i]] = s[i - 1]
        BY <1>2, <3>5, <3>6
      <4> HIDE DEF f, a
      <4>2. \A i \in 1..a : s[i] \in S BY <1>1, <3>1, <4>1, WalkBackStays
      <4>3. QED BY <4>2 DEF a
    <3>8. ASSUME k + 1 < Len(s) PROVE \A i \in (k + 2)..Len(s) : s[i] \in S
      <4> DEFINE a == k + 2
      <4>1. a \in 1..Len(s) /\ \A i \in a..(Len(s) - 1) : i \in 1..Len(s) /\ i < Len(s) /\ ~(i <= k + 1)
        BY <1>2, <3>8
      <4>2. s[a] \in S
        <5>1. following = s[a] BY <3>8 DEF following
        <5>2. QED BY <2>1, <3>4, <4>1, <5>1
      <4>3. \A i \in a..(Len(s) - 1) : f[s[i]] = s[i + 1] BY <1>13, <3>3, <3>4, <4>1
      <4>4. /\ s \in Seq(Nodes) /\ a \in 1..Len(s) /\ s[a] \in S
            /\ \A m \in S : f[m] \in S \cup {None}
            /\ \A i \in a..(Len(s) - 1) : f[s[i]] = s[i + 1]
        BY <1>1, <3>1, <4>1, <4>2, <4>3
      <4> HIDE DEF f, a
      <4>5. \A i \in a..Len(s) : s[i] \in S BY ONLY <4>4, WalkStays
      <4>6. QED BY <4>5 DEF a
    <3>9. ASSUME NEW i \in 1..Len(s) PROVE s[i] \in S
      <4>1. i \in 1..(k + 1) \/ (k + 1 < Len(s) /\ i \in (k + 2)..Len(s)) BY <1>2
      <4>2. QED BY <3>7, <3>8, <4>1
    <3>10. QED BY <1>1, <2>5, <3>9
  <2>6. QED BY <2>4, <2>5
<1>16. /\ \A m \in On(rows) : h3.previous[m] \in On(rows) \cup {None}
       /\ \A m \in Nodes \ On(rows) : h3.next[m] = None /\ h3.previous[m] = None /\ h3.value[m] = None
  <2>1. \A m \in On(rows) : h.next[m] \in On(rows) \cup {None} /\ h.previous[m] \in On(rows) \cup {None}
    <3>1. \A r \in Rows : \A i \in 1..Len(rows[r]) :
            /\ h.next[rows[r][i]] \in On(rows) \cup {None}
            /\ h.previous[rows[r][i]] \in On(rows) \cup {None}
      BY TidyRows
    <3>2. \A m \in On(rows) : \E r \in Rows : \E i \in 1..Len(rows[r]) : rows[r][i] = m
      BY DEF On
    <3>3. QED BY <3>1, <3>2
  <2>2. QED BY <1>1, <1>13, <1>14, <2>1
<1>17. Collect(h3, {following, held}) = h3
  <2> DEFINE roots == {following, held}
  <2>1. On(rows) \subseteq Alive(h3, roots) BY <1>15
  <2> HIDE DEF roots
  <2>2. Collect(h3, roots) = h3 BY <1>1, <1>12, <1>16, <2>1, NothingToCollect
  <2>3. QED BY <2>2 DEF roots
<1>18. Turn(t, l).heap = h3 /\ Turn(t, l).node = IF k + 1 < Len(s) THEN s[(k + 1) + 1] ELSE None
  BY <1>2, <1>8, <1>17 DEF following
<1>19. h3.head = IF k + 1 = 0 THEN h.head ELSE [h.head EXCEPT ![l] = s[k + 1]]
  BY <1>2, <1>14 DEF n
<1>20. QED
  BY <1>12, <1>13, <1>14, <1>18, <1>19 DEF Half, s

(* Reverse keeps the length and the elements. *)
LEMMA ReverseElements ==
  ASSUME NEW S, NEW s \in Seq(S)
  PROVE  Reverse(s) \in Seq(S) /\ Len(Reverse(s)) = Len(s)
<1> DEFINE t == Reverse(s)
<1>1. t = [j \in 1..Len(s) |-> t[j]]
  BY DEF Reverse
<1>2. \A j \in 1..Len(s) : t[j] \in S
  BY DEF Reverse
<1> HIDE DEF t
<1>3. t \in [1..Len(s) -> S]
  BY <1>1, <1>2
<1>4. t \in Seq(S) /\ Len(t) = Len(s)
  BY <1>3, LenProperties, SeqDef
<1>5. QED
  BY <1>4 DEF t

(* A reversed row has the same nodes. *)
LEMMA ReversedOnRows ==
  ASSUME NEW rows \in [Rows -> Seq(Nodes)], NEW l \in Rows, Apart(rows), NEW new \in [Rows -> Seq(Nodes)],
         new[l] = Reverse(rows[l]), \A r \in Rows : r # l => new[r] = rows[r]
  PROVE  /\ Apart(new) /\ On(new) = On(rows) /\ Len(new[l]) = Len(rows[l])
         /\ \A j \in 1..Len(rows[l]) : /\ (Len(rows[l]) - j) + 1 \in 1..Len(rows[l])
                                       /\ new[l][j] = rows[l][(Len(rows[l]) - j) + 1]
<1> DEFINE s == rows[l]
           t == Reverse(s)
           old(j) == (Len(s) - j) + 1
<1>1. s \in Seq(Nodes) /\ Len(s) \in Nat /\ s = rows[l]
  OBVIOUS
<1> HIDE DEF s
<1>2. \A j \in 1..Len(s) : old(j) \in 1..Len(s) /\ old(old(j)) = j /\ t[j] = s[old(j)]
  BY <1>1 DEF Reverse
<1>3. t \in Seq(Nodes) /\ Len(t) = Len(s)
  BY <1>1, ReverseElements
<1>4. new \in [Rows -> Seq(Nodes)] /\ new[l] = t /\ \A r \in Rows : r # l => new[r] = rows[r]
  BY <1>1, <1>3
<1>5. \A j \in 1..Len(s) : (Len(s) - j) + 1 \in 1..Len(s) /\ t[j] = s[(Len(s) - j) + 1]
  BY <1>2
<1> HIDE DEF t, old
<1>6. Apart(new)
  <2>1. SUFFICES ASSUME NEW q \in Rows, NEW r \in Rows,
                        NEW j \in 1..Len(new[q]), NEW k \in 1..Len(new[r]),
                        new[q][j] = new[r][k]
                 PROVE  q = r /\ j = k
    BY DEF Apart
  <2>2. CASE q = l /\ r = l
    <3>1. j \in 1..Len(s) /\ k \in 1..Len(s) /\ t[j] = t[k] BY <1>3, <1>4, <2>1, <2>2
    <3>2. s[old(j)] = s[old(k)] /\ old(j) \in 1..Len(s) /\ old(k) \in 1..Len(s)
      BY <1>2, <3>1
    <3>3. old(j) = old(k) BY <1>1, <3>2, Together
    <3>4. QED BY <1>2, <2>2, <3>1, <3>3
  <2>3. CASE q = l /\ r # l
    <3>1. j \in 1..Len(s) /\ k \in 1..Len(rows[r]) /\ t[j] = rows[r][k]
      BY <1>3, <1>4, <2>1, <2>3
    <3>2. QED BY <1>1, <1>2, <2>3, <3>1 DEF Apart
  <2>4. CASE q # l /\ r = l
    <3>1. k \in 1..Len(s) /\ j \in 1..Len(rows[q]) /\ t[k] = rows[q][j]
      BY <1>3, <1>4, <2>1, <2>4
    <3>2. QED BY <1>1, <1>2, <2>4, <3>1 DEF Apart
  <2>5. CASE q # l /\ r # l BY <1>4, <2>1, <2>5 DEF Apart
  <2>6. QED BY <2>2, <2>3, <2>4, <2>5
<1>7. ASSUME NEW m \in Nodes PROVE m \in On(new) <=> m \in On(rows)
  <2>1. ASSUME NEW r \in Rows
        PROVE  (\E j \in 1..Len(new[r]) : new[r][j] = m) <=> \E j \in 1..Len(rows[r]) : rows[r][j] = m
    <3>1. CASE r # l BY <1>4, <3>1
    <3>2. CASE r = l
      <4>1. (\E j \in 1..Len(s) : t[j] = m) <=> \E j \in 1..Len(s) : s[j] = m
        <5>1. ASSUME NEW j \in 1..Len(s), t[j] = m PROVE \E i \in 1..Len(s) : s[i] = m
          <6>1. old(j) \in 1..Len(s) /\ s[old(j)] = m BY <1>2, <5>1
          <6>2. QED BY <6>1
        <5>2. ASSUME NEW j \in 1..Len(s), s[j] = m PROVE \E i \in 1..Len(s) : t[i] = m
          <6>1. old(j) \in 1..Len(s) /\ t[old(j)] = m BY <1>2, <5>2
          <6>2. QED BY <6>1
        <5>3. QED BY <5>1, <5>2
      <4>2. QED BY <1>1, <1>3, <1>4, <3>2, <4>1
    <3>3. QED BY <3>1, <3>2
  <2>2. QED BY <2>1 DEF On
<1>8. On(new) = On(rows)
  BY <1>7 DEF On
<1>9. QED
  BY <1>1, <1>3, <1>4, <1>5, <1>6, <1>8

(* With all pointers of its nodes swapped, a row is drawn the other way    *)
(* round.                                                                  *)
LEMMA SwappedDrawn ==
  ASSUME NEW h, NEW rows, Tidy(h, rows), NEW l \in Lists,
         NEW t, Half(h, l, rows[l], t, Len(rows[l]))
  PROVE  LET new == [rows EXCEPT ![l] = Reverse(rows[l])]
         IN  Drawn(t.heap, new) /\ t.heap.value = h.value /\ On(new) = On(rows)
<1> DEFINE s == rows[l]
           N == Len(s)
           new == [rows EXCEPT ![l] = Reverse(rows[l])]
           g == t.heap
<1>1. /\ h \in Heaps /\ rows \in [Rows -> Seq(Nodes)] /\ Apart(rows) /\ Headed(h, rows)
      /\ Valued(h, rows) /\ l \in Rows /\ s = rows[l] /\ N \in Nat /\ N = Len(s)
      /\ None \notin On(rows)
  BY NodesAssumption DEF Tidy, Drawn, Rows, On
<1>2. /\ new \in [Rows -> Seq(Nodes)] /\ Apart(new) /\ On(new) = On(rows) /\ Len(new[l]) = N
      /\ \A j \in 1..N : (N - j) + 1 \in 1..N /\ new[l][j] = s[(N - j) + 1]
      /\ \A r \in Rows : r # l => new[r] = rows[r]
  <2>1. /\ new \in [Rows -> Seq(Nodes)] /\ new[l] = Reverse(rows[l])
        /\ \A r \in Rows : r # l => new[r] = rows[r]
    <3>1. Reverse(rows[l]) \in Seq(Nodes) BY <1>1, ReverseElements
    <3>2. QED BY <1>1, <3>1
  <2> HIDE DEF new
  <2>2. /\ Apart(new) /\ On(new) = On(rows) /\ Len(new[l]) = Len(rows[l])
        /\ \A j \in 1..Len(rows[l]) : /\ (Len(rows[l]) - j) + 1 \in 1..Len(rows[l])
                                      /\ new[l][j] = rows[l][(Len(rows[l]) - j) + 1]
    BY <1>1, <2>1, ReversedOnRows
  <2>3. QED BY <2>1, <2>2
<1>3. /\ g \in Heaps /\ g.value = h.value
      /\ g.head = IF N = 0 THEN h.head ELSE [h.head EXCEPT ![l] = s[N]]
      /\ \A m \in Nodes :
           /\ g.next[m] = IF m \in Done(s, N) THEN h.previous[m] ELSE h.next[m]
           /\ g.previous[m] = IF m \in Done(s, N) THEN h.next[m] ELSE h.previous[m]
  BY DEF Half
<1> HIDE DEF s, N, new, g
<1>4. \A r \in Rows : \A i \in 1..Len(rows[r]) :
        /\ rows[r][i] \in Nodes /\ rows[r][i] # None
        /\ h.next[rows[r][i]] = IF i < Len(rows[r]) THEN rows[r][i + 1] ELSE None
        /\ h.previous[rows[r][i]] = IF i = 1 THEN None ELSE rows[r][i - 1]
        /\ i \in Nat
  BY TidyRows
<1>5. \A i \in 1..N : /\ s[i] \in Nodes
                      /\ g.next[s[i]] = IF i = 1 THEN None ELSE s[i - 1]
                      /\ g.previous[s[i]] = IF i < N THEN s[i + 1] ELSE None
  <2>1. \A i \in 1..N : s[i] \in Done(s, N) BY <1>1 DEF Done
  <2>2. QED BY <1>1, <1>3, <1>4, <2>1
<1>6. ASSUME NEW r \in Rows, r # l, NEW i \in 1..Len(rows[r])
      PROVE  /\ g.next[rows[r][i]] = IF i < Len(rows[r]) THEN rows[r][i + 1] ELSE None
             /\ g.previous[rows[r][i]] = IF i = 1 THEN None ELSE rows[r][i - 1]
  <2>1. \A j \in 1..Len(s) : s[j] # rows[r][i] BY <1>1, <1>6 DEF Apart
  <2>2. rows[r][i] \notin Done(s, N) BY <2>1 DEF Done
  <2>3. QED BY <1>3, <1>4, <2>2
<1>7. Forward(g, new)
  <2>1. SUFFICES ASSUME NEW r \in Rows, NEW j \in 1..Len(new[r])
                 PROVE  g.next[new[r][j]] = IF j < Len(new[r]) THEN new[r][j + 1] ELSE None
    BY DEF Forward
  <2>2. CASE r # l
    <3>1. new[r] = rows[r] /\ j \in 1..Len(rows[r]) BY <1>2, <2>1, <2>2
    <3>2. QED BY <1>6, <2>2, <3>1
  <2>3. CASE r = l
    <3> DEFINE i == (N - j) + 1
    <3>1. j \in 1..N /\ i \in 1..N /\ new[l][j] = s[i] BY <1>2, <2>1, <2>3
    <3>2. g.next[s[i]] = IF i = 1 THEN None ELSE s[i - 1] BY <1>5, <3>1
    <3>3. (j < N <=> i # 1) /\ (j < N => j + 1 \in 1..N) /\ i - 1 = (N - (j + 1)) + 1
      BY <1>1, <3>1
    <3>4. j < N => new[l][j + 1] = s[i - 1] BY <1>2, <3>3
    <3> HIDE DEF i
    <3>5. QED BY <1>2, <2>3, <3>1, <3>2, <3>3, <3>4
  <2>4. QED BY <2>2, <2>3
<1>8. Backward(g, new)
  <2>1. SUFFICES ASSUME NEW r \in Rows, NEW j \in 1..Len(new[r])
                 PROVE  IF j = 1 THEN g.previous[new[r][j]] \notin On(new)
                                 ELSE g.previous[new[r][j]] = new[r][j - 1]
    BY DEF Backward
  <2>2. CASE r # l BY <1>1, <1>2, <1>6, <2>2
  <2>3. CASE r = l
    <3> DEFINE i == (N - j) + 1
    <3>1. j \in 1..N /\ i \in 1..N /\ new[l][j] = s[i] BY <1>2, <2>1, <2>3
    <3>2. g.previous[s[i]] = IF i < N THEN s[i + 1] ELSE None BY <1>5, <3>1
    <3>3. (j # 1 <=> i < N) /\ (j # 1 => j - 1 \in 1..N) /\ i + 1 = (N - (j - 1)) + 1
      BY <1>1, <3>1
    <3>4. j # 1 => new[l][j - 1] = s[i + 1] BY <1>2, <3>3
    <3> HIDE DEF i
    <3>5. QED BY <1>1, <1>2, <2>3, <3>1, <3>2, <3>3, <3>4
  <2>4. QED BY <2>2, <2>3
<1>9. Headed(g, new)
  <2>1. SUFFICES ASSUME NEW m \in Lists PROVE g.head[m] = First(new[m])
    BY DEF Headed
  <2>2. m \in Rows /\ h.head \in [Lists -> NodeOrNone] BY <1>1, HeapFields DEF Rows
  <2>3. CASE m # l BY <1>1, <1>2, <1>3, <2>2, <2>3 DEF Headed
  <2>4. CASE m = l /\ N = 0
    <3>1. First(new[l]) = None /\ First(s) = None BY <1>1, <1>2, <2>4, FirstOfRow
    <3>2. QED BY <1>1, <1>3, <2>4, <3>1 DEF Headed
  <2>5. CASE m = l /\ N # 0
    <3>1. First(new[l]) = new[l][1] BY <1>1, <1>2, <2>5, FirstOfRow
    <3>2. 1 \in 1..N /\ (N - 1) + 1 = N BY <1>1, <2>5
    <3>3. new[l][1] = s[N] BY <1>2, <3>2
    <3>4. QED BY <1>3, <2>2, <2>5, <3>1, <3>3
  <2>6. QED BY <2>3, <2>4, <2>5
<1>10. Valued(g, new)
  BY <1>1, <1>2, <1>3 DEF Valued
<1>11. QED
  BY <1>2, <1>3, <1>7, <1>8, <1>9, <1>10 DEF Drawn, new, g

(* reverse turns the list's row around; nothing dies on the way. *)
LEMMA ReverseDrawn ==
  ASSUME NEW h, NEW rows, Tidy(h, rows), Reaches(rows, held), NEW l \in Lists
  PROVE  LET g   == ReverseHeap(h, l)
             new == [rows EXCEPT ![l] = Reverse(rows[l])]
         IN  Drawn(g, new) /\ g.value = h.value /\ On(new) = On(rows)
<1> DEFINE s == rows[l]
           K == Cardinality(Nodes)
           after == TurnLoop(h, l)
           turns(i) == IF i < Len(s) THEN i ELSE Len(s)
           T == {i \in 0..K : ~Half(h, l, s, after[i], turns(i))}
<1>1. /\ K \in Nat
      /\ after = [i \in 0..K |->
                    IF i = 0 THEN [heap |-> h, node |-> h.head[l]] ELSE Turn(after[i - 1], l)]
      /\ ReverseHeap(h, l) = after[K].heap
  BY TurnLoopIs
<1>2. /\ h \in Heaps /\ rows \in [Rows -> Seq(Nodes)] /\ Apart(rows) /\ Headed(h, rows)
      /\ l \in Rows /\ s \in Seq(Nodes) /\ s = rows[l] /\ Len(s) \in Nat
  BY DEF Tidy, Drawn, Rows
<1>3. Len(s) <= K
  <2>1. \A i, j \in 1..Len(s) : s[i] = s[j] => i = j BY <1>2 DEF Apart
  <2>2. QED BY <1>2, <2>1, NoLongerThanNodes
<1> HIDE DEF s, K, after
<1>4. Half(h, l, s, after[0], turns(0))
  <2>1. after[0] = [heap |-> h, node |-> h.head[l]] /\ turns(0) = 0 BY <1>1, <1>2
  <2>2. Done(s, 0) = {} BY <1>2 DEF Done
  <2>3. h.head[l] = IF 0 < Len(s) THEN s[0 + 1] ELSE None
    <3>1. h.head[l] = First(s) /\ First(s) = IF Len(s) = 0 THEN None ELSE s[1]
      BY <1>2, FirstOfRow DEF Headed
    <3>2. 0 < Len(s) <=> Len(s) # 0 BY <1>2
    <3>3. 0 + 1 = 1 OBVIOUS
    <3>4. QED BY <3>1, <3>2, <3>3
  <2>4. Half(h, l, s, after[0], 0) BY <1>2, <2>1, <2>2, <2>3 DEF Half
  <2>5. QED BY <2>1, <2>4
<1>5. T = {}
  <2>1. SUFFICES ASSUME T # {} PROVE FALSE
    OBVIOUS
  <2>2. PICK i \in T : \A j \in T : i <= j
    <3>1. T \in SUBSET Nat BY <1>1
    <3>2. QED BY <2>1, <3>1, Least
  <2>3. i \in 1..K /\ i - 1 \in 0..K /\ i - 1 \notin T /\ i \in Nat
    <3>1. i # 0 BY <1>4, <2>2
    <3>2. i \in 1..K /\ i - 1 \in 0..K /\ ~(i <= i - 1) /\ i \in Nat BY <1>1, <2>2, <3>1
    <3>3. QED BY <2>2, <3>2
  <2>4. Half(h, l, s, after[i - 1], turns(i - 1)) /\ after[i] = Turn(after[i - 1], l)
    BY <1>1, <2>3
  <2> DEFINE t == after[i - 1]
  <2>5. CASE i - 1 < Len(s)
    <3> DEFINE k == i - 1
    <3>1. turns(i - 1) = k /\ turns(i) = k + 1 /\ k \in 0..(Len(s) - 1) BY <1>2, <2>3, <2>5
    <3>2. Half(h, l, s, t, k) BY <2>4, <3>1
    <3> HIDE DEF t, k
    <3>3. Half(h, l, s, Turn(t, l), k + 1) BY <1>2, <3>1, <3>2, TurnOfHalf
    <3>4. Half(h, l, s, after[i], turns(i)) BY <2>4, <3>1, <3>3 DEF t
    <3>5. QED BY <2>2, <3>4
  <2>6. CASE ~(i - 1 < Len(s))
    <3>1. turns(i - 1) = Len(s) /\ turns(i) = Len(s) BY <1>2, <2>3, <2>6
    <3>2. t.node = None BY <1>2, <2>4, <3>1 DEF Half
    <3>3. after[i] = t BY <2>4, <3>2 DEF Turn
    <3>4. QED BY <2>2, <2>4, <3>1, <3>3
  <2>7. QED BY <2>5, <2>6
<1>6. Half(h, l, s, after[K], Len(s))
  <2>1. K \in 0..K /\ turns(K) = Len(s) BY <1>1, <1>2, <1>3
  <2>2. K \notin T BY <1>5
  <2>3. QED BY <2>1, <2>2
<1> DEFINE t == after[K]
<1>7. Half(h, l, rows[l], t, Len(rows[l]))
  BY <1>2, <1>6
<1>8. ReverseHeap(h, l) = t.heap
  BY <1>1
<1> HIDE DEF t
<1>9. LET new == [rows EXCEPT ![l] = Reverse(rows[l])]
      IN  Drawn(t.heap, new) /\ t.heap.value = h.value /\ On(new) = On(rows)
  BY <1>7, SwappedDrawn
<1>10. QED
  BY <1>8, <1>9

-----------------------------------------------------------------------------
(* The inductive invariant.                                                *)
IInv == \E rows : Tidy(Heap, rows) /\ Reaches(rows, held)

Reading(h, s) == [i \in 1..Len(s) |-> h.value[s[i]]]

(* The contents of a list are the values of its row. *)
LEMMA ContentsIs ==
  ASSUME NEW h, NEW rows, Drawn(h, rows), NEW l \in Lists
  PROVE  /\ Contents(h, l) = Reading(h, rows[l])
         /\ Contents(h, l) \in Seq(Values) /\ Len(Contents(h, l)) = Len(rows[l])
         /\ Len(rows[l]) \in Nat
         /\ \A i \in 1..Len(rows[l]) : Contents(h, l)[i] = h.value[rows[l][i]]
<1> DEFINE s == rows[l]
           t == Reading(h, s)
<1>1. rows \in [Rows -> Seq(Nodes)] /\ l \in Rows /\ Valued(h, rows) /\ Len(s) \in Nat
  BY DEF Drawn, Rows
<1>2. Contents(h, l) = t
  BY ChainIs DEF Contents, Reading
<1>3. \A i \in 1..Len(s) : t[i] = h.value[s[i]] /\ t[i] \in Values
  BY <1>1, OnRow DEF Valued, Reading
<1>4. t = [i \in 1..Len(s) |-> t[i]]
  BY DEF Reading
<1> HIDE DEF t
<1>5. t \in [1..Len(s) -> Values]
  BY <1>3, <1>4
<1>6. t \in Seq(Values) /\ Len(t) = Len(s)
  BY <1>1, <1>5, LenProperties, SeqDef
<1>7. QED
  BY <1>1, <1>2, <1>3, <1>6 DEF t

(* Become leaves what Collect leaves. *)
LEMMA BecomeIs ==
  ASSUME NEW h \in Heaps, NEW n, Become(h, n)
  PROVE  Heap' = Collect(h, {n}) /\ held' = n
<1>1. Heap' = [next |-> next', previous |-> previous', value |-> value', head |-> head']
  BY DEF Heap
<1>2. Collect(h, {n}) = [next |-> next', previous |-> previous', value |-> value', head |-> head']
  BY DEF Become, Collect
<1>3. QED
  BY <1>1, <1>2 DEF Become

(* What a step leaves behind is what reference counting makes of the rows  *)
(* it has drawn.                                                           *)
LEMMA BecomeDrawn ==
  ASSUME NEW h, NEW rows, Drawn(h, rows), NEW n, Reaches(rows, n), Become(h, n)
  PROVE  /\ IInv'
         /\ \A l \in Lists : Contents(Heap, l)' = Reading(h, rows[l])
<1>1. Heap' = Collect(h, {n}) /\ held' = n
  BY BecomeIs DEF Drawn
<1>2. Tidy(Heap', rows) /\ \A m \in On(rows) : Heap'.value[m] = h.value[m]
  BY <1>1, Collected
<1>3. IInv'
  BY <1>1, <1>2 DEF IInv
<1>4. ASSUME NEW l \in Lists PROVE Contents(Heap', l) = Reading(h, rows[l])
  <2>1. rows \in [Rows -> Seq(Nodes)] /\ l \in Rows BY DEF Drawn, Rows
  <2>2. \A i \in 1..Len(rows[l]) : Heap'.value[rows[l][i]] = h.value[rows[l][i]]
    BY <1>2, <2>1, OnRow
  <2>3. Contents(Heap', l) = Reading(Heap', rows[l]) BY <1>2, ContentsIs DEF Tidy
  <2>4. QED BY <2>2, <2>3 DEF Reading
<1>5. QED
  BY <1>3, <1>4

(* A node that is on no row of a tidy heap and leads nowhere is blank,     *)
(* whatever of the rows is left.                                           *)
LEMMA OffRowsIsBlank ==
  ASSUME NEW h, NEW rows, Tidy(h, rows), NEW k, k.next = h.next, k.previous = h.previous,
         NEW new \in [Rows -> Seq(Nodes)], On(new) \subseteq On(rows),
         NEW n \in Nodes \ On(rows)
  PROVE  Blank(k, new, n)
<1>1. h.next[n] = None /\ h.previous[n] = None /\ n # None
  BY NodesAssumption DEF Tidy
<1>2. ASSUME NEW r \in Rows, new[r] # <<>> PROVE k.previous[new[r][1]] # n
  <2>1. 1 \in 1..Len(new[r]) BY <1>2, FirstOfRow
  <2>2. new[r][1] \in On(rows) BY <2>1, OnRow
  <2>3. h.previous[new[r][1]] \in On(rows) \cup {None} BY <2>2 DEF Tidy
  <2>4. QED BY <1>1, <2>3
<1>3. QED
  BY <1>1, <1>2 DEF Blank

(* A free node is on no row. *)
LEMMA FreeIsOffRows ==
  ASSUME NEW rows, Tidy(Heap, rows), NEW n \in Free
  PROVE  n \in Nodes \ On(rows)
BY ValuesAssumption DEF Tidy, Drawn, Valued, Free, Heap

(* Longer rows hold the nodes of the shorter ones. *)
LEMMA RowsGrow ==
  ASSUME NEW rows \in [Rows -> Seq(Nodes)], NEW new \in [Rows -> Seq(Nodes)],
         \A r \in Rows : \A i \in 1..Len(rows[r]) : i \in 1..Len(new[r]) /\ new[r][i] = rows[r][i]
  PROVE  On(rows) \subseteq On(new)
BY DEF On

(* Some of the rows of a drawn heap are drawn.                             *)
LEMMA FewerRows ==
  ASSUME NEW h, NEW rows, Drawn(h, rows), NEW new \in [Rows -> Seq(Nodes)],
         \A r \in Rows : new[r] = rows[r] \/ new[r] = <<>>
  PROVE  /\ Apart(new) /\ Forward(h, new) /\ Backward(h, new) /\ Valued(h, new)
         /\ On(new) \subseteq On(rows)
<1>1. /\ rows \in [Rows -> Seq(Nodes)] /\ Apart(rows)
      /\ Forward(h, rows) /\ Backward(h, rows) /\ Valued(h, rows)
  BY DEF Drawn
<1>2. \A r \in Rows : \A i \in 1..Len(new[r]) : new[r] = rows[r]
  <2>1. Len(<<>>) = 0 OBVIOUS
  <2>2. QED BY <2>1
<1>3. On(new) \subseteq On(rows)
  BY <1>2 DEF On
<1>4. Apart(new)
  BY <1>1, <1>2 DEF Apart
<1>5. Forward(h, new)
  BY <1>1, <1>2 DEF Forward
<1>6. Backward(h, new)
  BY <1>1, <1>2, <1>3 DEF Backward
<1>7. Valued(h, new)
  BY <1>1, <1>3 DEF Valued
<1>8. QED
  BY <1>3, <1>4, <1>5, <1>6, <1>7

(* The rows without one. *)
LEMMA DroppedRow ==
  ASSUME NEW rows \in [Rows -> Seq(Nodes)], NEW q \in Rows
  PROVE  LET new == [rows EXCEPT ![q] = <<>>]
         IN  /\ new \in [Rows -> Seq(Nodes)] /\ new[q] = <<>>
             /\ \A r \in Rows : r # q => new[r] = rows[r]
<1>1. <<>> \in Seq(Nodes)
  OBVIOUS
<1>2. QED
  BY <1>1

(* The caller's row can be dropped. *)
LEMMA DropOutside ==
  ASSUME NEW h, NEW rows, Drawn(h, rows), NEW new \in [Rows -> Seq(Nodes)],
         new[Outside] = <<>>, \A r \in Rows : r # Outside => new[r] = rows[r]
  PROVE  /\ Drawn(h, new) /\ On(new) \subseteq On(rows)
         /\ new[Outside] = <<>> /\ \A l \in Lists : new[l] = rows[l]
<1>1. h \in Heaps /\ rows \in [Rows -> Seq(Nodes)] /\ Headed(h, rows)
  BY DEF Drawn
<1>2. Lists \subseteq Rows /\ \A l \in Lists : l # Outside
  BY OutsideNoList DEF Rows
<1>3. Apart(new) /\ Forward(h, new) /\ Backward(h, new) /\ Valued(h, new) /\ On(new) \subseteq On(rows)
  BY FewerRows
<1>4. Headed(h, new)
  BY <1>1, <1>2 DEF Headed
<1>5. QED
  BY <1>1, <1>2, <1>3, <1>4 DEF Drawn

(* A blank node that only the caller knows is a row of its own.            *)
LEMMA PutOutside ==
  ASSUME NEW h, NEW rows, Drawn(h, rows), rows[Outside] = <<>>,
         NEW n, Blank(h, rows, n), h.value[n] \in Values
  PROVE  LET new == [rows EXCEPT ![Outside] = <<n>>]
         IN  Drawn(h, new) /\ Reaches(new, n) /\ \A l \in Lists : new[l] = rows[l]
<1> DEFINE new == [rows EXCEPT ![Outside] = <<n>>]
<1>1. /\ h \in Heaps /\ rows \in [Rows -> Seq(Nodes)] /\ Apart(rows) /\ n \in Nodes \ On(rows)
      /\ Forward(h, rows) /\ Backward(h, rows) /\ Headed(h, rows) /\ Valued(h, rows) /\ Outside \in Rows
      /\ n \in Nodes /\ n # None
  BY NodesAssumption DEF Drawn, Rows, Blank
<1>2. /\ new \in [Rows -> Seq(Nodes)] /\ new[Outside] = <<n>>
      /\ \A r \in Rows : r # Outside => new[r] = rows[r]
  BY <1>1
<1> HIDE DEF new
<1>3. /\ Len(new[Outside]) = 1 /\ new[Outside][1] = n /\ new[Outside] # <<>>
      /\ \A j \in 1..1 : j = 1 /\ ~(j < 1)
  <2>1. Len(<<n>>) = 1 /\ <<n>>[1] = n /\ <<n>> # <<>> OBVIOUS
  <2>2. QED BY <1>2, <2>1
<1>4. \A j \in 1..Len(new[Outside]) : j = 1 /\ new[Outside][j] = n
  BY <1>3
<1>5. \A r \in Rows : Len(rows[r]) # 0 => r # Outside
  BY <1>1, FirstOfRow
<1>6. On(new) = On(rows) \cup {n}
  <2>1. ASSUME NEW m \in On(new) PROVE m \in On(rows) \cup {n}
    <3>1. PICK r \in Rows : \E i \in 1..Len(new[r]) : new[r][i] = m BY <2>1 DEF On
    <3>2. PICK i \in 1..Len(new[r]) : new[r][i] = m BY <3>1
    <3>3. CASE r = Outside BY <1>4, <3>2, <3>3
    <3>4. CASE r # Outside BY <1>1, <1>2, <3>2, <3>4, OnRow
    <3>5. QED BY <3>3, <3>4
  <2>2. ASSUME NEW m \in On(rows) PROVE m \in On(new)
    <3>1. PICK r \in Rows : \E i \in 1..Len(rows[r]) : rows[r][i] = m BY <2>2 DEF On
    <3>2. PICK i \in 1..Len(rows[r]) : rows[r][i] = m BY <3>1
    <3>3. r # Outside BY <1>1, <3>2, FirstOfRow
    <3>4. QED BY <1>2, <3>2, <3>3, OnRow
  <2>3. n \in On(new)
    <3>1. 1 \in 1..Len(new[Outside]) BY <1>3
    <3>2. QED BY <1>1, <1>2, <1>3, <3>1, OnRow
  <2>4. QED BY <2>1, <2>2, <2>3
<1>7. Apart(new)
  <2>1. SUFFICES ASSUME NEW q \in Rows, NEW r \in Rows,
                        NEW i \in 1..Len(new[q]), NEW j \in 1..Len(new[r]), new[q][i] = new[r][j]
                 PROVE  q = r /\ i = j
    BY DEF Apart
  <2>2. \A p \in Rows : \A k \in 1..Len(new[p]) : p # Outside => new[p][k] # n
    BY <1>1, <1>2, OnRow
  <2>3. CASE q = Outside \/ r = Outside BY <1>4, <2>1, <2>2, <2>3
  <2>4. CASE q # Outside /\ r # Outside
    <3>1. new[q] = rows[q] /\ new[r] = rows[r] BY <1>2, <2>4
    <3>2. QED BY <1>1, <2>1, <3>1, Together
  <2>5. QED BY <2>3, <2>4
<1>8. Forward(h, new)
  <2>1. SUFFICES ASSUME NEW r \in Rows, NEW j \in 1..Len(new[r])
                 PROVE  h.next[new[r][j]] = IF j < Len(new[r]) THEN new[r][j + 1] ELSE None
    BY DEF Forward
  <2>2. CASE r = Outside
    <3>1. j = 1 /\ new[r][j] = n /\ ~(j < Len(new[r])) BY <1>3, <2>1, <2>2
    <3>2. QED BY <3>1 DEF Blank
  <2>3. CASE r # Outside
    <3>1. new[r] = rows[r] BY <1>2, <2>3
    <3>2. QED BY <1>1, <2>1, <3>1 DEF Forward
  <2>4. QED BY <2>2, <2>3
<1>9. Backward(h, new)
  <2>1. SUFFICES ASSUME NEW r \in Rows, NEW j \in 1..Len(new[r])
                 PROVE  IF j = 1 THEN h.previous[new[r][j]] \notin On(new)
                                 ELSE h.previous[new[r][j]] = new[r][j - 1]
    BY DEF Backward
  <2>2. None \notin On(new) BY NodesAssumption DEF On
  <2>3. CASE r = Outside
    <3>1. j = 1 /\ new[r][j] = n BY <1>4, <2>1, <2>3
    <3>2. QED BY <2>2, <3>1 DEF Blank
  <2>4. CASE r # Outside
    <3>1. new[r] = rows[r] BY <1>2, <2>4
    <3>2. j = 1 => h.previous[new[r][j]] # n
      <4>1. rows[r] # <<>> BY <1>1, <2>1, <3>1, FirstOfRow
      <4>2. QED BY <3>1, <4>1 DEF Blank
    <3>3. QED BY <1>1, <1>6, <2>1, <3>1, <3>2 DEF Backward
  <2>5. QED BY <2>3, <2>4
<1>10. Headed(h, new) /\ \A l \in Lists : new[l] = rows[l]
  BY <1>1, <1>2, OutsideNoList DEF Headed, Rows
<1>11. Valued(h, new)
  BY <1>1, <1>6 DEF Valued
<1>12. Reaches(new, n)
  BY <1>3, <1>6 DEF Reaches
<1>13. QED
  BY <1>1, <1>2, <1>7, <1>8, <1>9, <1>10, <1>11, <1>12 DEF Drawn, new

EndOf(s, k) == [j \in 1..((Len(s) - k) + 1) |-> s[(k - 1) + j]]

(* EndOf element by element. *)
LEMMA EndElements ==
  ASSUME NEW S, NEW s \in Seq(S), NEW k \in 1..Len(s)
  PROVE  /\ EndOf(s, k) \in Seq(S) /\ Len(EndOf(s, k)) = (Len(s) - k) + 1
         /\ \A j \in 1..Len(EndOf(s, k)) : EndOf(s, k)[j] = s[j + (k - 1)]
<1> DEFINE t == EndOf(s, k)
           N == (Len(s) - k) + 1
<1>1. N \in Nat /\ \A j \in 1..N : (k - 1) + j \in 1..Len(s) /\ (k - 1) + j = j + (k - 1)
  OBVIOUS
<1>2. t = [j \in 1..N |-> s[(k - 1) + j]]
  BY DEF EndOf
<1> HIDE DEF t, N
<1>3. t \in [1..N -> S]
  BY <1>1, <1>2
<1>4. t \in Seq(S) /\ Len(t) = N
  BY <1>1, <1>3, LenProperties, SeqDef
<1>5. QED
  BY <1>1, <1>2, <1>4 DEF t, N

(* When a list lets go of its head, its nodes are gone, but those from the *)
(* caller's on.                                                            *)
LEMMA WithoutHead ==
  ASSUME NEW h, NEW rows, Drawn(h, rows), NEW n, Reaches(rows, n), NEW l \in Lists
  PROVE  \E new \in [Rows -> Seq(Nodes)] :
           /\ Drawn(SetHead(h, l, None), new) /\ Reaches(new, n) /\ On(new) \subseteq On(rows)
           /\ new[l] = <<>> /\ \A m \in Lists \ {l} : new[m] = rows[m]
<1> DEFINE g == SetHead(h, l, None)
<1>1. /\ h \in Heaps /\ rows \in [Rows -> Seq(Nodes)] /\ Headed(h, rows) /\ Apart(rows)
      /\ l \in Rows /\ Outside \in Rows /\ l # Outside /\ Lists \subseteq Rows
  BY OutsideNoList DEF Drawn, Rows
<1>2. /\ g \in Heaps /\ g.next = h.next /\ g.previous = h.previous
      /\ g.value = h.value /\ g.head = [h.head EXCEPT ![l] = None]
  BY <1>1, SetHeadFields DEF NodeOrNone
<1> HIDE DEF g
<1>3. SUFFICES ASSUME NEW new \in [Rows -> Seq(Nodes)],
                      Apart(new), Forward(h, new), Backward(h, new), Valued(h, new),
                      On(new) \subseteq On(rows), Reaches(new, n),
                      new[l] = <<>>, \A m \in Lists \ {l} : new[m] = rows[m]
               PROVE  Drawn(g, new)
  <2>1. PICK new \in [Rows -> Seq(Nodes)] :
               /\ Apart(new) /\ Forward(h, new) /\ Backward(h, new) /\ Valued(h, new)
               /\ On(new) \subseteq On(rows) /\ Reaches(new, n)
               /\ new[l] = <<>> /\ \A m \in Lists \ {l} : new[m] = rows[m]
    <3>1. CASE \E k \in 1..Len(rows[l]) : rows[l][k] = n
      <4>1. PICK k \in 1..Len(rows[l]) : rows[l][k] = n BY <3>1
      <4> DEFINE s == rows[l]
                 new == [r \in Rows |-> IF r = l THEN <<>> ELSE IF r = Outside THEN EndOf(s, k) ELSE rows[r]]
                 origin == [r \in Rows |-> IF r = Outside THEN l ELSE r]
                 shift == [r \in Rows |-> IF r = Outside THEN k - 1 ELSE 0]
      <4>2. s \in Seq(Nodes) /\ Len(s) \in Nat /\ k \in 1..Len(s) /\ k \in Nat /\ k - 1 \in Nat /\ s = rows[l]
        BY <1>1, <4>1
      <4>3. /\ EndOf(s, k) \in Seq(Nodes) /\ Len(EndOf(s, k)) = (Len(s) - k) + 1
            /\ \A j \in 1..Len(EndOf(s, k)) : EndOf(s, k)[j] = s[j + (k - 1)]
        BY <4>2, EndElements
      <4>4. /\ new \in [Rows -> Seq(Nodes)] /\ new[l] = <<>> /\ new[Outside] = EndOf(s, k)
            /\ \A r \in Rows : r # l /\ r # Outside => new[r] = rows[r]
        BY <1>1, <4>3
      <4>5. /\ origin \in [Rows -> Rows] /\ shift \in [Rows -> Nat]
            /\ \A r \in Rows : /\ origin[r] = IF r = Outside THEN l ELSE r
                               /\ shift[r] = IF r = Outside THEN k - 1 ELSE 0
        BY <1>1, <4>2
      <4> HIDE DEF s, new, origin, shift
      <4>6. ASSUME NEW r \in Rows, NEW j \in 1..Len(new[r])
            PROVE  /\ j + shift[r] \in 1..Len(rows[origin[r]])
                   /\ new[r][j] = rows[origin[r]][j + shift[r]]
                   /\ j < Len(new[r]) <=> j + shift[r] < Len(rows[origin[r]])
        <5>1. CASE r = l
          <6>1. Len(<<>>) = 0 OBVIOUS
          <6>2. QED BY <4>4, <4>6, <5>1, <6>1
        <5>2. CASE r = Outside
          <6>1. origin[r] = l /\ shift[r] = k - 1 BY <1>1, <4>5, <5>2
          <6>2. /\ Len(new[r]) = (Len(s) - k) + 1 /\ new[r][j] = s[j + (k - 1)] /\ j \in Nat /\ 1 <= j
                /\ j <= Len(new[r])
            BY <4>2, <4>3, <4>4, <4>6, <5>2
          <6>3. j + (k - 1) \in 1..Len(s) /\ (j < Len(new[r]) <=> j + (k - 1) < Len(s))
            BY <4>2, <6>2
          <6>4. QED BY <4>2, <6>1, <6>2, <6>3
        <5>3. CASE r # l /\ r # Outside
          <6>1. new[r] = rows[r] /\ origin[r] = r /\ shift[r] = 0 BY <4>4, <4>5, <5>3
          <6>2. j + 0 = j BY <4>4, FirstOfRow
          <6>3. QED BY <4>6, <6>1, <6>2
        <5>4. QED BY <5>1, <5>2, <5>3
      <4>7. ASSUME NEW q \in Rows, NEW r \in Rows, new[q] # <<>>, new[r] # <<>>, origin[q] = origin[r]
            PROVE  q = r
        <5>1. q # l /\ r # l BY <4>4, <4>7
        <5>2. origin[q] = (IF q = Outside THEN l ELSE q) /\ origin[r] = (IF r = Outside THEN l ELSE r)
          BY <4>5
        <5>3. QED BY <4>7, <5>1, <5>2
      <4>8. Apart(new) /\ Forward(h, new) /\ Backward(h, new) /\ Valued(h, new) /\ On(new) \subseteq On(rows)
        <5>1. \A r \in Rows : \A j \in 1..Len(new[r]) :
                /\ j + shift[r] \in 1..Len(rows[origin[r]])
                /\ new[r][j] = rows[origin[r]][j + shift[r]]
                /\ j < Len(new[r]) <=> j + shift[r] < Len(rows[origin[r]])
          BY <4>6
        <5>2. \A q, r \in Rows : new[q] # <<>> /\ new[r] # <<>> /\ origin[q] = origin[r] => q = r
          BY <4>7
        <5>3. new \in [Rows -> Seq(Nodes)] /\ origin \in [Rows -> Rows] /\ shift \in [Rows -> Nat]
          BY <4>4, <4>5
        <5>4. Drawn(h, rows)
          OBVIOUS
        <5>5. QED BY ONLY <5>1, <5>2, <5>3, <5>4, EndsOfRows
      <4>9. Reaches(new, n)
        <5>1. 1 \in 1..Len(new[Outside]) /\ 1 + (k - 1) = k BY <4>2, <4>3, <4>4
        <5>2. new[Outside][1] = n BY <4>1, <4>2, <4>3, <4>4, <5>1
        <5>3. n \in On(new) BY <1>1, <4>4, <5>1, <5>2, OnRow
        <5>4. QED BY <5>2, <5>3 DEF Reaches
      <4>10. \A m \in Lists \ {l} : new[m] = rows[m]
        BY <1>1, <4>4, OutsideNoList
      <4>11. QED BY <4>4, <4>8, <4>9, <4>10
    <3>2. CASE ~ \E k \in 1..Len(rows[l]) : rows[l][k] = n
      <4> DEFINE new == [rows EXCEPT ![l] = <<>>]
      <4>1. /\ new \in [Rows -> Seq(Nodes)] /\ new[l] = <<>>
            /\ \A r \in Rows : r # l => new[r] = rows[r]
        BY <1>1
      <4> HIDE DEF new
      <4>2. Apart(new) /\ Forward(h, new) /\ Backward(h, new) /\ Valued(h, new) /\ On(new) \subseteq On(rows)
        BY <4>1, FewerRows
      <4>3. n \in On(new) \cup {None}
        <5>1. SUFFICES ASSUME n \in On(rows) PROVE n \in On(new) BY DEF Reaches
        <5>2. PICK r \in Rows : \E i \in 1..Len(rows[r]) : rows[r][i] = n BY <5>1 DEF On
        <5>3. PICK i \in 1..Len(rows[r]) : rows[r][i] = n BY <5>2
        <5>4. r # l BY <3>2, <5>3
        <5>5. i \in 1..Len(new[r]) /\ new[r][i] = n BY <4>1, <5>3, <5>4
        <5>6. QED BY <4>1, <5>5, OnRow
      <4>4. Reaches(new, n) BY <1>1, <4>1, <4>3 DEF Reaches
      <4>5. QED BY <1>1, <4>1, <4>2, <4>4
    <3>3. QED BY <3>1, <3>2
  <2>2. Drawn(g, new) BY <1>3, <2>1
  <2>3. QED BY <2>1, <2>2 DEF g
<1>4. Headed(g, new)
  <2>1. First(<<>>) = None BY DEF First
  <2>2. h.head \in [Lists -> NodeOrNone] BY <1>1, HeapFields
  <2>3. QED BY <1>1, <1>2, <1>3, <2>1, <2>2 DEF Headed
<1>5. Forward(g, new) /\ Backward(g, new) /\ Valued(g, new)
  BY <1>2, <1>3 DEF Forward, Backward, Valued
<1>6. QED
  BY <1>2, <1>3, <1>4, <1>5 DEF Drawn

-----------------------------------------------------------------------------
(* What the operations do to the values of a row.                          *)
LEMMA ReadingElements ==
  ASSUME NEW h \in Heaps, NEW s \in Seq(Nodes)
  PROVE  /\ Reading(h, s) \in Seq(Values \cup {None})
         /\ Len(Reading(h, s)) = Len(s) /\ Len(s) \in Nat
         /\ \A i \in 1..Len(s) : Reading(h, s)[i] = h.value[s[i]]
<1> DEFINE t == Reading(h, s)
           V == Values \cup {None}
<1>1. Len(s) \in Nat /\ \A i \in 1..Len(s) : t[i] = h.value[s[i]] /\ t[i] \in V
  BY HeapFields DEF Reading
<1>2. t = [i \in 1..Len(s) |-> t[i]]
  BY DEF Reading
<1> HIDE DEF t, V
<1>3. t \in [1..Len(s) -> V]
  BY <1>1, <1>2
<1>4. t \in Seq(V) /\ Len(t) = Len(s)
  BY <1>1, <1>3, LenProperties, SeqDef
<1>5. QED
  BY <1>1, <1>4 DEF t, V

(* The values of a row with one node more. *)
LEMMA ReadingInserted ==
  ASSUME NEW h \in Heaps, NEW s \in Seq(Nodes), NEW i \in 0..Len(s), NEW n \in Nodes
  PROVE  Reading(h, Inserted(s, i, n)) = Inserted(Reading(h, s), i, h.value[n])
<1> DEFINE r == Reading(h, s)
           t == Inserted(s, i, n)
<1>1. Len(r) = Len(s) /\ Len(s) \in Nat /\ i \in Nat /\ \A j \in 1..Len(s) : r[j] = h.value[s[j]]
  BY ReadingElements
<1>2. /\ Len(t) = Len(s) + 1
      /\ \A j \in 1..(Len(s) + 1) : t[j] = IF j <= i THEN s[j] ELSE IF j = i + 1 THEN n ELSE s[j - 1]
  BY InsertedElements
<1> HIDE DEF r, t
<1>3. ASSUME NEW j \in 1..(Len(s) + 1)
      PROVE  h.value[t[j]] = IF j <= i THEN r[j] ELSE IF j = i + 1 THEN h.value[n] ELSE r[j - 1]
  <2>1. CASE j <= i
    <3>1. j \in 1..Len(s) BY <1>1, <2>1
    <3>2. QED BY <1>1, <1>2, <2>1, <3>1
  <2>2. CASE j = i + 1 BY <1>1, <1>2, <2>2
  <2>3. CASE ~(j <= i) /\ j # i + 1
    <3>1. j - 1 \in 1..Len(s) BY <1>1, <2>3
    <3>2. t[j] = s[j - 1] BY <1>2, <2>3
    <3>3. r[j - 1] = h.value[s[j - 1]] BY <1>1, <3>1
    <3>4. QED BY <2>3, <3>2, <3>3
  <2>4. QED BY <2>1, <2>2, <2>3
<1>4. [j \in 1..(Len(s) + 1) |-> h.value[t[j]]] = Inserted(r, i, h.value[n])
  BY <1>1, <1>3 DEF Inserted
<1>5. QED
  BY <1>2, <1>4 DEF Reading, r, t

(* The values of a row with one node less. *)
LEMMA ReadingRemoved ==
  ASSUME NEW h \in Heaps, NEW s \in Seq(Nodes), NEW p \in 1..Len(s)
  PROVE  Reading(h, Removed(s, p)) = Removed(Reading(h, s), p)
<1> DEFINE r == Reading(h, s)
           t == Removed(s, p)
<1>1. Len(r) = Len(s) /\ Len(s) \in Nat /\ \A j \in 1..Len(s) : r[j] = h.value[s[j]]
  BY ReadingElements
<1>2. /\ Len(t) = Len(s) - 1
      /\ \A j \in 1..(Len(s) - 1) : t[j] = IF j < p THEN s[j] ELSE s[j + 1]
  BY RemovedElements
<1> HIDE DEF r, t
<1>3. ASSUME NEW j \in 1..(Len(s) - 1)
      PROVE  h.value[t[j]] = IF j < p THEN r[j] ELSE r[j + 1]
  <2>1. j \in 1..Len(s) /\ j + 1 \in 1..Len(s) BY <1>1
  <2>2. r[j] = h.value[s[j]] /\ r[j + 1] = h.value[s[j + 1]] BY <1>1, <2>1
  <2>3. QED BY <1>2, <2>2
<1>4. [j \in 1..(Len(s) - 1) |-> h.value[t[j]]] = Removed(r, p)
  BY <1>1, <1>3 DEF Removed
<1>5. QED
  BY <1>2, <1>4 DEF Reading, r, t

(* The values of a reversed row. *)
LEMMA ReadingReversed ==
  ASSUME NEW h \in Heaps, NEW s \in Seq(Nodes)
  PROVE  Reading(h, Reverse(s)) = Reverse(Reading(h, s))
<1> DEFINE r == Reading(h, s)
           t == Reverse(s)
<1>1. Len(r) = Len(s) /\ Len(s) \in Nat /\ \A j \in 1..Len(s) : r[j] = h.value[s[j]]
  BY ReadingElements
<1>2. Len(t) = Len(s) /\ \A j \in 1..Len(s) : t[j] = s[(Len(s) - j) + 1]
  BY ReverseElements DEF Reverse
<1> HIDE DEF r, t
<1>3. \A j \in 1..Len(s) : (Len(s) - j) + 1 \in 1..Len(s)
  BY <1>1
<1>4. \A j \in 1..Len(s) : h.value[t[j]] = r[(Len(s) - j) + 1]
  BY <1>1, <1>2, <1>3
<1>5. [j \in 1..Len(s) |-> h.value[t[j]]] = Reverse(r)
  BY <1>1, <1>4 DEF Reverse
<1>6. QED
  BY <1>2, <1>5 DEF Reading, r, t

(* The values of an extended row. *)
LEMMA ReadingExtended ==
  ASSUME NEW h \in Heaps, NEW s \in Seq(Nodes), NEW vs \in Seq(Values), NEW ns \in Seq(Nodes),
         Len(ns) = Len(vs), \A j \in 1..Len(vs) : h.value[ns[j]] = vs[j]
  PROVE  Reading(h, Extended(s, ns, Len(vs))) = Reading(h, s) \o vs
<1> DEFINE r == Reading(h, s)
           N == Len(vs)
           t == Extended(s, ns, N)
           V == Values \cup {None}
<1>1. /\ r \in Seq(V) /\ Len(r) = Len(s) /\ Len(s) \in Nat
      /\ \A j \in 1..Len(s) : r[j] = h.value[s[j]]
  BY ReadingElements
<1>2. vs \in Seq(V) /\ N \in Nat /\ N \in 0..Len(ns)
  OBVIOUS
<1>3. N = Len(vs)
  OBVIOUS
<1> HIDE DEF N
<1>4. /\ t \in Seq(Nodes) /\ Len(t) = Len(s) + N
      /\ \A j \in 1..(Len(s) + N) : t[j] = IF j <= Len(s) THEN s[j] ELSE ns[j - Len(s)]
  <2>1. Len(t) = Len(s) + N /\ t \in Seq(Nodes) BY <1>2, ExtendedElements
  <2>2. QED BY <2>1 DEF Extended
<1> DEFINE c == r \o vs
           q == Reading(h, t)
<1>5. /\ c \in Seq(V) /\ Len(c) = Len(r) + N
      /\ \A j \in 1..(Len(r) + N) : c[j] = IF j <= Len(r) THEN r[j] ELSE vs[j - Len(r)]
  BY <1>1, <1>2, <1>3, ConcatProperties
<1> HIDE DEF t, c, r
<1>6. q \in Seq(V) /\ Len(q) = Len(t) /\ \A j \in 1..Len(t) : q[j] = h.value[t[j]]
  BY <1>4, ReadingElements DEF V
<1> HIDE DEF q, V
<1>7. ASSUME NEW j \in 1..(Len(s) + N) PROVE q[j] = c[j]
  <2>1. j \in Nat /\ j \in 1..Len(t) BY <1>1, <1>2, <1>4
  <2>2. CASE j <= Len(s)
    <3>1. j \in 1..Len(s) BY <1>1, <2>1, <2>2
    <3>2. q[j] = h.value[s[j]] BY <1>4, <1>6, <2>1, <2>2
    <3>3. c[j] = r[j] BY <1>1, <1>5, <2>2
    <3>4. QED BY <1>1, <3>1, <3>2, <3>3
  <2>3. CASE ~(j <= Len(s))
    <3>1. j - Len(s) \in 1..N BY <1>1, <1>2, <2>1, <2>3
    <3>2. h.value[ns[j - Len(s)]] = vs[j - Len(s)] BY <1>3, <3>1
    <3>3. q[j] = h.value[ns[j - Len(s)]] BY <1>4, <1>6, <2>1, <2>3
    <3>4. c[j] = vs[j - Len(s)] BY <1>1, <1>5, <2>3
    <3>5. QED BY <3>2, <3>3, <3>4
  <2>4. QED BY <2>2, <2>3
<1>8. Len(q) = Len(s) + N /\ Len(c) = Len(s) + N
  BY <1>1, <1>4, <1>5, <1>6
<1>9. q = c
  BY <1>5, <1>6, <1>7, <1>8, SeqEqual
<1>10. QED
  BY <1>3, <1>9 DEF q, c, t, r

-----------------------------------------------------------------------------
(* The step keeps the invariant, leaves s in the list l, and changes the   *)
(* contents of no other list.                                              *)
Leads(l, s) ==
  /\ IInv' /\ Contents(Heap, l)' = s
  /\ \A m \in Lists \ {l} : Contents(Heap, m)' = Contents(Heap, m)

(* Where no value on a row changes, the contents stay. *)
LEMMA ReadingOfRow ==
  ASSUME NEW h, NEW rows, Drawn(h, rows), NEW k, NEW l \in Lists,
         \A x \in On(rows) : k.value[x] = h.value[x]
  PROVE  Reading(k, rows[l]) = Contents(h, l)
<1>1. rows \in [Rows -> Seq(Nodes)] /\ l \in Rows
  BY DEF Drawn, Rows
<1>2. \A i \in 1..Len(rows[l]) : k.value[rows[l][i]] = h.value[rows[l][i]]
  BY <1>1, OnRow
<1>3. Contents(h, l) = Reading(h, rows[l])
  BY ContentsIs
<1>4. QED
  BY <1>2, <1>3 DEF Reading

(* What a step does when it draws the rows new and leaves the other lists  *)
(* alone.                                                                  *)
LEMMA StepLeads ==
  ASSUME NEW h, NEW new, Drawn(h, new), NEW n, Reaches(new, n),
         Become(h, n), NEW l \in Lists,
         \A m \in Lists \ {l} : Reading(h, new[m]) = Contents(Heap, m)
  PROVE  Leads(l, Reading(h, new[l]))
<1>1. IInv' /\ \A m \in Lists : Contents(Heap, m)' = Reading(h, new[m])
  BY BecomeDrawn
<1>2. QED
  BY <1>1 DEF Leads
-----------------------------------------------------------------------------
(* A blank node goes into a list: base is what is left of the rows by then. *)
LEMMA InsertLeads ==
  ASSUME NEW rows, Drawn(Heap, rows), NEW h, NEW base, Drawn(h, base),
         \A m \in Lists : base[m] = rows[m],
         \A x \in On(rows) : h.value[x] = Heap.value[x],
         NEW l \in Lists, NEW i \in 0..Len(rows[l]),
         NEW n, Blank(h, base, n), h.value[n] \in Values,
         held \in On(base) \cup {None, n}, base[Outside] # <<>> => base[Outside][1] = held,
         Become(InsertNode(h, l, n, i), held)
  PROVE  Leads(l, Inserted(Contents(Heap, l), i, h.value[n]))
<1> DEFINE k == InsertNode(h, l, n, i)
           new == [base EXCEPT ![l] = Inserted(base[l], i, n)]
<1>1. /\ base \in [Rows -> Seq(Nodes)] /\ Apart(base) /\ l \in Rows /\ Outside \in Rows /\ Outside # l
      /\ Lists \subseteq Rows /\ n \in Nodes \ On(base) /\ n \in Nodes
      /\ base[l] \in Seq(Nodes) /\ base[l] = rows[l] /\ i \in 0..Len(base[l])
  BY OutsideNoList DEF Drawn, Rows, Blank
<1>2. Drawn(k, new) /\ k.value = h.value
  <2>1. i \in 0..Len(base[l]) /\ l \in Lists /\ Drawn(h, base) /\ Blank(h, base, n) /\ h.value[n] \in Values
    BY <1>1
  <2>2. QED BY ONLY <2>1, InsertNodeDrawn
<1>3. /\ new[l] = Inserted(base[l], i, n) /\ On(new) = On(base) \cup {n}
      /\ \A r \in Rows : r # l => new[r] = base[r]
  <2>1. /\ base \in [Rows -> Seq(Nodes)] /\ l \in Rows /\ i \in 0..Len(base[l])
        /\ n \in Nodes \ On(base) /\ Apart(base)
    BY <1>1
  <2>2. new = [base EXCEPT ![l] = Inserted(base[l], i, n)]
    OBVIOUS
  <2>3. /\ new \in [Rows -> Seq(Nodes)] /\ Apart(new) /\ On(new) = On(base) \cup {n}
        /\ Len(new[l]) = Len(base[l]) + 1
        /\ \A j \in 1..Len(new[l]) : new[l][j] =
             IF j <= i THEN base[l][j] ELSE IF j = i + 1 THEN n ELSE base[l][j - 1]
        /\ \A r \in Rows : r # l => new[r] = base[r]
    BY <2>1, <2>2, InsertedOnRows
  <2>4. new[l] = Inserted(base[l], i, n)
    BY <2>1, <2>2
  <2>5. QED BY <2>3, <2>4
<1> HIDE DEF new
<1>4. Become(k, held)
  OBVIOUS
<1> HIDE DEF k
<1>5. Reaches(new, held)
  BY <1>1, <1>3 DEF Reaches
<1>6. \A m \in Lists : Reading(k, rows[m]) = Contents(Heap, m)
  BY <1>2, ReadingOfRow
<1>7. \A m \in Lists \ {l} : Reading(k, new[m]) = Contents(Heap, m)
  BY <1>1, <1>3, <1>6
<1>8. Leads(l, Reading(k, new[l]))
  BY <1>2, <1>4, <1>5, <1>7, StepLeads
<1>9. Reading(k, new[l]) = Inserted(Contents(Heap, l), i, h.value[n])
  <2>1. k \in Heaps BY <1>2 DEF Drawn
  <2>2. Reading(k, Inserted(base[l], i, n)) = Inserted(Reading(k, base[l]), i, k.value[n])
    BY <1>1, <2>1, ReadingInserted
  <2>3. QED BY <1>1, <1>2, <1>3, <1>6, <2>2
<1>10. QED
  BY <1>8, <1>9

(* append(value:) and insert(value:at:).                                   *)
LEMMA InsertValueLeads ==
  ASSUME NEW rows, Tidy(Heap, rows), Reaches(rows, held), NEW l \in Lists, NEW v \in Values,
         NEW i \in 0..Len(rows[l]), NEW n \in Free,
         Become(InsertNode(NewNode(Heap, n, v), l, n, i), held)
  PROVE  Leads(l, Inserted(Contents(Heap, l), i, v))
<1> DEFINE h == NewNode(Heap, n, v)
<1>1. Drawn(Heap, rows) /\ rows \in [Rows -> Seq(Nodes)] /\ Heap \in Heaps
  BY DEF Tidy, Drawn
<1>2. n \in Nodes \ On(rows)
  BY FreeIsOffRows
<1>3. Blank(Heap, rows, n)
  BY <1>1, <1>2, OffRowsIsBlank
<1>4. Drawn(h, rows) /\ h.value = [Heap.value EXCEPT ![n] = v] /\ Blank(h, rows, n)
  BY <1>1, <1>3, NewNodeDrawn
<1>5. Become(InsertNode(h, l, n, i), held)
  OBVIOUS
<1> HIDE DEF h
<1>6. h.value[n] = v /\ \A x \in On(rows) : h.value[x] = Heap.value[x]
  BY <1>1, <1>2, <1>4, HeapFields
<1>7. held \in On(rows) \cup {None, n} /\ (rows[Outside] # <<>> => rows[Outside][1] = held)
  BY DEF Reaches
<1>8. Leads(l, Inserted(Contents(Heap, l), i, h.value[n]))
  BY <1>1, <1>4, <1>5, <1>6, <1>7, InsertLeads
<1>9. QED
  BY <1>6, <1>8

(* append(value:) inserts at the end. *)
LEMMA AppendValueLeads ==
  ASSUME NEW rows, Tidy(Heap, rows), Reaches(rows, held), NEW l \in Lists, NEW v \in Values,
         NEW n \in Free, Become(AppendNode(NewNode(Heap, n, v), l, n), held)
  PROVE  Leads(l, Inserted(Contents(Heap, l), Len(rows[l]), v))
<1> DEFINE h == NewNode(Heap, n, v)
           i == Len(rows[l])
<1>1. Drawn(Heap, rows) /\ rows \in [Rows -> Seq(Nodes)] /\ l \in Rows
  BY DEF Tidy, Drawn, Rows
<1>2. Blank(Heap, rows, n)
  BY <1>1, FreeIsOffRows, OffRowsIsBlank
<1>3. Drawn(h, rows) /\ Blank(h, rows, n)
  BY <1>1, <1>2, NewNodeDrawn
<1> HIDE DEF h
<1>4. AppendNode(h, l, n) = InsertNode(h, l, n, i)
  BY <1>3, AppendIsInsert
<1>5. i \in 0..Len(rows[l])
  BY <1>1, FirstOfRow
<1> HIDE DEF i
<1>6. Become(InsertNode(NewNode(Heap, n, v), l, n, i), held)
  BY <1>4 DEF h
<1>7. Leads(l, Inserted(Contents(Heap, l), i, v))
  BY <1>5, <1>6, InsertValueLeads
<1>8. QED
  BY <1>7 DEF i

(* The held node, in no list and with no next, as a node to insert.        *)
LEMMA HeldIsBlank ==
  ASSUME NEW rows, Tidy(Heap, rows), Reaches(rows, held), held # None, ~InAList(held), next[held] = None,
         NEW base \in [Rows -> Seq(Nodes)],
         base[Outside] = <<>>, \A r \in Rows : r # Outside => base[r] = rows[r]
  PROVE  /\ Drawn(Heap, base) /\ Blank(Heap, base, held) /\ held \in Nodes
         /\ Heap.value[held] \in Values
         /\ base[Outside] = <<>> /\ \A l \in Lists : base[l] = rows[l]
<1>1. /\ Drawn(Heap, rows) /\ rows \in [Rows -> Seq(Nodes)] /\ Backward(Heap, rows) /\ Valued(Heap, rows)
      /\ Heap.next = next /\ \A n \in On(rows) : Heap.previous[n] \in On(rows) \cup {None}
  BY DEF Tidy, Drawn, Heap
<1>2. held \in On(rows) /\ held \in Nodes
  BY DEF Reaches, On
<1>3. /\ Drawn(Heap, base) /\ On(base) \subseteq On(rows)
      /\ base[Outside] = <<>> /\ \A l \in Lists : base[l] = rows[l]
  BY <1>1, DropOutside
<1>4. base \in [Rows -> Seq(Nodes)]
  BY <1>3 DEF Drawn
<1>5. ASSUME NEW l \in Lists PROVE \A i \in 1..Len(rows[l]) : rows[l][i] # held
  <2>1. Chain(Heap, l) = rows[l] /\ rows[l] \in Seq(Nodes) BY <1>1, ChainIs DEF Rows
  <2>2. ToSet(rows[l]) = {rows[l][i] : i \in 1..Len(rows[l])} BY <2>1 DEF ToSet
  <2>3. QED BY <2>1, <2>2 DEF InAList
<1>6. held \notin On(base)
  <2>1. Len(<<>>) = 0 OBVIOUS
  <2>2. QED BY <1>3, <1>5, <2>1 DEF On, Rows
<1>7. Heap.previous[held] = None
  <2>1. PICK r \in Rows : \E i \in 1..Len(rows[r]) : rows[r][i] = held BY <1>2 DEF On
  <2>2. r = Outside BY <1>5, <2>1 DEF Rows
  <2>3. rows[r] # <<>> /\ 1 \in 1..Len(rows[r]) BY <1>1, <2>1, FirstOfRow
  <2>4. rows[r][1] = held BY <2>2, <2>3 DEF Reaches
  <2>5. Heap.previous[held] \notin On(rows) BY <1>1, <2>3, <2>4 DEF Backward
  <2>6. QED BY <1>1, <1>2, <2>5
<1>8. ASSUME NEW r \in Rows, base[r] # <<>> PROVE Heap.previous[base[r][1]] # held
  <2>1. r # Outside BY <1>3, <1>8
  <2>2. base[r] = rows[r] BY <1>3, <2>1 DEF Rows
  <2>3. 1 \in 1..Len(rows[r]) BY <1>1, <1>8, <2>2, FirstOfRow
  <2>4. Heap.previous[rows[r][1]] \notin On(rows) BY <1>1, <2>3 DEF Backward
  <2>5. QED BY <1>2, <2>2, <2>4
<1>9. Blank(Heap, base, held)
  BY <1>1, <1>2, <1>6, <1>7, <1>8 DEF Blank
<1>10. QED
  BY <1>1, <1>2, <1>3, <1>9 DEF Valued

(* append(node) and insert(node, at:).                                     *)
LEMMA InsertHeldLeads ==
  ASSUME NEW rows, Tidy(Heap, rows), Reaches(rows, held), held # None, ~InAList(held), next[held] = None,
         NEW l \in Lists, NEW i \in 0..Len(rows[l]), Become(InsertNode(Heap, l, held, i), held)
  PROVE  /\ Heap.value[held] \in Values
         /\ Leads(l, Inserted(Contents(Heap, l), i, Heap.value[held]))
<1> DEFINE base == [rows EXCEPT ![Outside] = <<>>]
<1>1. /\ base \in [Rows -> Seq(Nodes)] /\ base[Outside] = <<>>
      /\ \A r \in Rows : r # Outside => base[r] = rows[r]
  BY DroppedRow DEF Tidy, Drawn, Rows
<1> HIDE DEF base
<1>2. /\ Drawn(Heap, base) /\ Blank(Heap, base, held)
      /\ Heap.value[held] \in Values
      /\ base[Outside] = <<>> /\ \A m \in Lists : base[m] = rows[m]
  BY <1>1, HeldIsBlank
<1>3. Drawn(Heap, rows)
  BY DEF Tidy
<1>4. held \in On(base) \cup {None, held}
  OBVIOUS
<1>5. QED
  BY <1>2, <1>3, <1>4, InsertLeads

(* append(node) of the held node inserts it at the end. *)
LEMMA AppendHeldLeads ==
  ASSUME NEW rows, Tidy(Heap, rows), Reaches(rows, held), held # None, ~InAList(held), next[held] = None,
         NEW l \in Lists, Become(AppendNode(Heap, l, held), held)
  PROVE  /\ Heap.value[held] \in Values
         /\ Leads(l, Inserted(Contents(Heap, l), Len(rows[l]), Heap.value[held]))
<1> DEFINE base == [rows EXCEPT ![Outside] = <<>>]
           i == Len(rows[l])
<1>1. /\ base \in [Rows -> Seq(Nodes)] /\ base[Outside] = <<>>
      /\ \A r \in Rows : r # Outside => base[r] = rows[r]
  BY DroppedRow DEF Tidy, Drawn, Rows
<1> HIDE DEF base
<1>2. Drawn(Heap, base) /\ Blank(Heap, base, held) /\ base[l] = rows[l]
  BY <1>1, HeldIsBlank
<1>3. i \in 0..Len(rows[l])
  <2>1. rows \in [Rows -> Seq(Nodes)] /\ l \in Rows BY DEF Tidy, Drawn, Rows
  <2>2. QED BY <2>1, FirstOfRow
<1>4. AppendNode(Heap, l, held) = InsertNode(Heap, l, held, i)
  BY <1>2, AppendIsInsert
<1> HIDE DEF i
<1>5. Become(InsertNode(Heap, l, held, i), held)
  BY <1>4
<1>6. Heap.value[held] \in Values /\ Leads(l, Inserted(Contents(Heap, l), i, Heap.value[held]))
  BY <1>3, <1>5, InsertHeldLeads
<1>7. QED
  BY <1>6 DEF i
-----------------------------------------------------------------------------
(* The nodes for new values are free and different. *)
LEMMA NewNodes ==
  ASSUME NEW vs \in Seq(Values), NEW ns \in NewNodesFor(vs)
  PROVE  /\ ns \in [1..Len(vs) -> Nodes] /\ ns \in Seq(Nodes) /\ Len(ns) = Len(vs)
         /\ \A i \in 1..Len(vs) : ns[i] \in Free
         /\ \A i, j \in 1..Len(vs) : ns[i] = ns[j] => i = j
<1>1. ns \in [1..Len(vs) -> Free] /\ IsInjective(ns) /\ Len(vs) \in Nat
  BY DEF NewNodesFor
<1>2. Free \subseteq Nodes
  BY DEF Free
<1>3. DOMAIN ns = 1..Len(vs) /\ ns \in [1..Len(vs) -> Nodes]
  BY <1>1, <1>2
<1>4. ns \in Seq(Nodes) /\ Len(ns) = Len(vs)
  BY <1>1, <1>3, LenProperties, SeqDef
<1>5. QED
  BY <1>1, <1>3, <1>4 DEF IsInjective

(* append(list), map and filter: the list ends with the new values; h is   *)
(* the heap at the start of the loop, base its rows.                       *)
LEMMA AppendValuesLeads ==
  ASSUME NEW rows, Tidy(Heap, rows), NEW h, NEW base, Drawn(h, base), Reaches(base, held),
         h.next = Heap.next, h.previous = Heap.previous, h.value = Heap.value,
         On(base) \subseteq On(rows), NEW l \in Lists, \A m \in Lists \ {l} : base[m] = rows[m],
         NEW vs \in Seq(Values), NEW ns \in NewNodesFor(vs),
         Become(AppendValues(h, l, ns, vs), held)
  PROVE  Leads(l, Contents(h, l) \o vs)
<1> DEFINE k == AppendValues(h, l, ns, vs)
           N == Len(vs)
           new == [base EXCEPT ![l] = Extended(base[l], ns, N)]
<1>1. /\ base \in [Rows -> Seq(Nodes)] /\ l \in Rows /\ Outside \in Rows /\ Outside # l
      /\ Lists \subseteq Rows /\ base[l] \in Seq(Nodes) /\ h \in Heaps
  BY OutsideNoList DEF Drawn, Rows
<1>2. /\ ns \in [1..Len(vs) -> Nodes] /\ ns \in Seq(Nodes) /\ Len(ns) = Len(vs)
      /\ (\A i \in 1..Len(vs) : ns[i] \in Free)
      /\ (\A i, j \in 1..Len(vs) : ns[i] = ns[j] => i = j)
      /\ N \in Nat /\ N \in 0..Len(ns)
  BY NewNodes
<1>3. ASSUME NEW j \in 1..Len(vs) PROVE Blank(h, base, ns[j])
  <2> DEFINE n == ns[j]
  <2>1. n \in Free BY <1>2
  <2> HIDE DEF n
  <2>2. n \in Nodes \ On(rows) BY <2>1, FreeIsOffRows
  <2>3. Blank(h, base, n) BY <1>1, <2>2, OffRowsIsBlank
  <2>4. QED BY <2>3 DEF n
<1>4. /\ Drawn(k, new)
      /\ \A j \in 1..Len(vs) : k.value[ns[j]] = vs[j]
      /\ \A m \in On(base) : k.value[m] = h.value[m]
  <2>1. Prepared(h, base, ns, vs) BY <1>2, <1>3 DEF Prepared
  <2>2. Drawn(h, base) /\ l \in Lists
    OBVIOUS
  <2>3. /\ Drawn(AppendValues(h, l, ns, vs), Longer(base, l, ns, Len(vs)))
        /\ \A j \in 1..Len(vs) : AppendValues(h, l, ns, vs).value[ns[j]] = vs[j]
        /\ \A m \in On(base) : AppendValues(h, l, ns, vs).value[m] = h.value[m]
    BY ONLY <2>1, <2>2, AppendValuesDrawn
  <2>4. QED BY <2>3 DEF Longer
<1>5. /\ Extended(base[l], ns, N) \in Seq(Nodes)
      /\ Len(Extended(base[l], ns, N)) = Len(base[l]) + N
  <2> DEFINE s == base[l]
  <2>1. s \in Seq(Nodes) /\ ns \in Seq(Nodes) /\ N \in 0..Len(ns) BY <1>1, <1>2
  <2> HIDE DEF s, N
  <2>2. Extended(s, ns, N) \in Seq(Nodes) /\ Len(Extended(s, ns, N)) = Len(s) + N
    BY ONLY <2>1, ExtendedElements
  <2>3. QED BY <2>2 DEF s
<1>6. /\ new \in [Rows -> Seq(Nodes)] /\ new[l] = Extended(base[l], ns, N)
      /\ \A r \in Rows : r # l => new[r] = base[r]
  BY <1>1, <1>5
<1>7. Become(k, held) /\ N = Len(vs)
  OBVIOUS
<1> HIDE DEF new, k, N
<1>8. On(base) \subseteq On(new)
  <2>1. ASSUME NEW r \in Rows, NEW i \in 1..Len(base[r])
        PROVE  i \in 1..Len(new[r]) /\ new[r][i] = base[r][i]
    <3>1. CASE r = l
      <4>1. Len(base[l]) \in Nat /\ i \in 1..(Len(base[l]) + N) /\ i <= Len(base[l])
        BY <1>1, <1>2, <2>1, <3>1
      <4>2. Extended(base[l], ns, N)[i] = base[l][i] BY <4>1 DEF Extended
      <4>3. QED BY <1>5, <1>6, <3>1, <4>1, <4>2
    <3>2. CASE r # l BY <1>6, <2>1, <3>2
    <3>3. QED BY <3>1, <3>2
  <2>2. QED BY <1>1, <1>6, <2>1, RowsGrow
<1>9. Reaches(new, held)
  BY <1>1, <1>6, <1>8 DEF Reaches
<1>10. \A m \in Lists : Reading(k, base[m]) = Contents(h, m)
  BY <1>4, ReadingOfRow
<1>11. ASSUME NEW m \in Lists \ {l} PROVE Reading(k, new[m]) = Contents(Heap, m)
  <2>1. Contents(Heap, m) = Reading(Heap, rows[m]) BY ContentsIs DEF Tidy
  <2>2. Contents(h, m) = Reading(h, base[m]) BY ContentsIs
  <2>3. Reading(h, base[m]) = Reading(Heap, rows[m]) BY <1>11 DEF Reading
  <2>4. new[m] = base[m] BY <1>1, <1>6, <1>11
  <2>5. QED BY <1>10, <2>1, <2>2, <2>3, <2>4
<1>12. Leads(l, Reading(k, new[l]))
  BY <1>4, <1>7, <1>9, <1>11, StepLeads
<1>13. Reading(k, new[l]) = Contents(h, l) \o vs
  <2>1. k \in Heaps BY <1>4 DEF Drawn
  <2>2. Reading(k, Extended(base[l], ns, Len(vs))) = Reading(k, base[l]) \o vs
    BY <1>1, <1>2, <1>4, <2>1, ReadingExtended
  <2>3. QED BY <1>6, <1>7, <1>10, <2>2
<1>14. QED
  BY <1>12, <1>13

(* append(list) adds the values of the other list. *)
LEMMA AppendListLeads ==
  ASSUME NEW rows, Tidy(Heap, rows), Reaches(rows, held), NEW l \in Lists,
         NEW vs \in Seq(Values), NEW ns \in NewNodesFor(vs),
         Become(AppendValues(Heap, l, ns, vs), held)
  PROVE  Leads(l, Contents(Heap, l) \o vs)
<1>1. Drawn(Heap, rows)
  BY DEF Tidy
<1>2. QED
  BY <1>1, AppendValuesLeads

(* map and filter leave the values they compute in the list they are       *)
(* assigned to.                                                            *)
LEMMA AssignLeads ==
  ASSUME NEW rows, Tidy(Heap, rows), Reaches(rows, held), NEW l \in Lists,
         NEW vs \in Seq(Values), NEW ns \in NewNodesFor(vs),
         Become(AppendValues(SetHead(Heap, l, None), l, ns, vs), held)
  PROVE  Leads(l, vs)
<1> DEFINE h == SetHead(Heap, l, None)
<1>1. Drawn(Heap, rows) /\ Heap \in Heaps
  BY DEF Tidy, Drawn
<1>2. h.next = Heap.next /\ h.previous = Heap.previous /\ h.value = Heap.value
  BY <1>1, SetHeadFields DEF NodeOrNone
<1>3. PICK base \in [Rows -> Seq(Nodes)] :
        /\ Drawn(h, base) /\ Reaches(base, held) /\ On(base) \subseteq On(rows)
        /\ base[l] = <<>> /\ \A m \in Lists \ {l} : base[m] = rows[m]
  BY <1>1, WithoutHead
<1>4. Become(AppendValues(h, l, ns, vs), held)
  OBVIOUS
<1> HIDE DEF h
<1>5. Leads(l, Contents(h, l) \o vs)
  BY <1>2, <1>3, <1>4, AppendValuesLeads
<1>6. Contents(h, l) = <<>>
  <2>1. Contents(h, l) \in Seq(Values) /\ Len(Contents(h, l)) = Len(base[l]) BY <1>3, ContentsIs
  <2>2. Len(<<>>) = 0 OBVIOUS
  <2>3. Len(Contents(h, l)) = 0 BY <1>3, <2>1, <2>2
  <2>4. QED BY <2>1, <2>3
<1>7. <<>> \o vs = vs
  BY ConcatEmptySeq
<1>8. QED
  BY <1>5, <1>6, <1>7

(* removeAll leaves no value. *)
LEMMA RemoveAllLeads ==
  ASSUME NEW rows, Tidy(Heap, rows), Reaches(rows, held), NEW l \in Lists,
         Become(SetHead(Heap, l, None), held)
  PROVE  Leads(l, <<>>)
<1> DEFINE h == SetHead(Heap, l, None)
<1>1. Drawn(Heap, rows) /\ Heap \in Heaps
  BY DEF Tidy, Drawn
<1>2. h.value = Heap.value
  BY <1>1, SetHeadFields DEF NodeOrNone
<1>3. PICK base \in [Rows -> Seq(Nodes)] :
        /\ Drawn(h, base) /\ Reaches(base, held)
        /\ base[l] = <<>> /\ \A m \in Lists \ {l} : base[m] = rows[m]
  BY <1>1, WithoutHead
<1>4. Become(h, held)
  OBVIOUS
<1> HIDE DEF h
<1>5. \A m \in Lists \ {l} : Reading(h, base[m]) = Contents(Heap, m)
  <2>1. \A x \in On(rows) : h.value[x] = Heap.value[x] BY <1>2
  <2>2. \A m \in Lists : Reading(h, rows[m]) = Contents(Heap, m) BY <1>1, <2>1, ReadingOfRow
  <2>3. QED BY <1>3, <2>2
<1>6. Leads(l, Reading(h, base[l]))
  BY <1>3, <1>4, <1>5, StepLeads
<1>7. Reading(h, base[l]) = <<>>
  <2>1. Contents(h, l) = Reading(h, base[l]) BY <1>3, ContentsIs
  <2>2. Contents(h, l) \in Seq(Values) /\ Len(Contents(h, l)) = Len(base[l]) BY <1>3, ContentsIs
  <2>3. Len(<<>>) = 0 OBVIOUS
  <2>4. Len(Contents(h, l)) = 0 BY <1>3, <2>2, <2>3
  <2>5. QED BY <2>1, <2>2, <2>4
<1>8. QED
  BY <1>6, <1>7
(* The remove operations.                                                  *)
LEMMA RemoveNodeLeads ==
  ASSUME NEW rows, Tidy(Heap, rows), Reaches(rows, held), NEW l \in Lists, NEW p \in 1..Len(rows[l]),
         Become(RemoveNode(Heap, l, rows[l][p]), held)
  PROVE  Leads(l, Removed(Contents(Heap, l), p))
<1> DEFINE n == rows[l][p]
           k == RemoveNode(Heap, l, n)
           new == [rows EXCEPT ![l] = Removed(rows[l], p)]
<1>1. /\ rows \in [Rows -> Seq(Nodes)] /\ Apart(rows) /\ l \in Rows /\ Outside \in Rows /\ Outside # l
      /\ Lists \subseteq Rows /\ Drawn(Heap, rows) /\ Valued(Heap, rows) /\ Heap \in Heaps
      /\ rows[l] \in Seq(Nodes)
  BY OutsideNoList DEF Tidy, Drawn, Rows
<1>2. Drawn(k, new) /\ k.value = Heap.value /\ Blank(k, new, n)
  BY RemoveNodeDrawn
<1>3. On(new) = On(rows) \ {n} /\ (\A r \in Rows : r # l => new[r] = rows[r])
  <2>1. /\ new \in [Rows -> Seq(Nodes)] /\ Apart(new) /\ On(new) = On(rows) \ {rows[l][p]}
        /\ Len(new[l]) = Len(rows[l]) - 1
        /\ \A j \in 1..Len(new[l]) : new[l][j] = IF j < p THEN rows[l][j] ELSE rows[l][j + 1]
        /\ \A r \in Rows : r # l => new[r] = rows[r]
    <3>1. new = [rows EXCEPT ![l] = Removed(rows[l], p)]
      OBVIOUS
    <3>2. rows \in [Rows -> Seq(Nodes)] /\ l \in Rows /\ p \in 1..Len(rows[l]) /\ Apart(rows)
      BY <1>1
    <3>3. QED BY <3>1, <3>2, RemovedOnRows
  <2>2. QED BY <2>1
<1>4. new[l] = Removed(rows[l], p)
  BY <1>1
<1>5. Become(k, held) /\ n = rows[l][p]
  OBVIOUS
<1> HIDE DEF new, k, n
<1>6. \A m \in Lists : Reading(k, rows[m]) = Contents(Heap, m)
  <2>1. \A x \in On(rows) : k.value[x] = Heap.value[x] BY <1>2
  <2>2. QED BY <1>1, <2>1, ReadingOfRow
<1>7. \A m \in Lists \ {l} : Reading(k, new[m]) = Contents(Heap, m)
  BY <1>1, <1>3, <1>6
<1>8. Leads(l, Reading(k, new[l]))
  <2>1. CASE n # held
    <3>1. Reaches(new, held) BY <1>1, <1>3, <2>1 DEF Reaches
    <3>2. QED BY <1>2, <1>5, <1>7, <3>1, StepLeads
  <2>2. CASE n = held
    <3>1. rows[Outside] = <<>>
      <4>1. ASSUME rows[Outside] # <<>> PROVE FALSE
        <5> DEFINE o == Outside
                   one == 1
        <5>1. one \in 1..Len(rows[o]) BY <1>1, <4>1, FirstOfRow
        <5>2. rows[o][one] = rows[l][p] BY <1>5, <2>2, <4>1 DEF Reaches
        <5>3. o \in Rows /\ l \in Rows /\ p \in 1..Len(rows[l]) /\ Apart(rows) BY <1>1
        <5> HIDE DEF o, one
        <5>4. o = l BY ONLY <5>1, <5>2, <5>3, Together
        <5>5. QED BY <1>1, <5>4 DEF o
      <4>2. QED BY <4>1
    <3>2. new[Outside] = <<>> BY <1>1, <1>3, <3>1
    <3>3. n \in On(rows) BY <1>1, <1>5, OnRow
    <3>4. k.value[n] \in Values BY <1>1, <1>2, <3>3 DEF Valued
    <3> DEFINE put == [new EXCEPT ![Outside] = <<n>>]
    <3>5. Drawn(k, put) /\ Reaches(put, n) /\ \A m \in Lists : put[m] = new[m]
      BY <1>2, <3>2, <3>4, PutOutside
    <3> HIDE DEF put
    <3>6. \A m \in Lists \ {l} : Reading(k, put[m]) = Contents(Heap, m) BY <1>7, <3>5
    <3>7. Leads(l, Reading(k, put[l])) BY <1>5, <2>2, <3>5, <3>6, StepLeads
    <3>8. QED BY <3>5, <3>7
  <2>3. QED BY <2>1, <2>2
<1>9. Reading(k, new[l]) = Removed(Contents(Heap, l), p)
  <2>1. k \in Heaps BY <1>2 DEF Drawn
  <2>2. Reading(k, Removed(rows[l], p)) = Removed(Reading(k, rows[l]), p)
    BY <1>1, <2>1, ReadingRemoved
  <2>3. QED BY <1>4, <1>6, <2>2
<1>10. QED
  BY <1>8, <1>9

(* reverse reverses the values. *)
LEMMA ReverseLeads ==
  ASSUME NEW rows, Tidy(Heap, rows), Reaches(rows, held), NEW l \in Lists,
         Become(ReverseHeap(Heap, l), held)
  PROVE  Leads(l, Reverse(Contents(Heap, l)))
<1> DEFINE k == ReverseHeap(Heap, l)
           new == [rows EXCEPT ![l] = Reverse(rows[l])]
<1>1. /\ rows \in [Rows -> Seq(Nodes)] /\ l \in Rows /\ Outside \in Rows /\ Outside # l
      /\ Lists \subseteq Rows /\ Drawn(Heap, rows) /\ rows[l] \in Seq(Nodes)
  BY OutsideNoList DEF Tidy, Drawn, Rows
<1>2. Drawn(k, new) /\ k.value = Heap.value /\ On(new) = On(rows)
  BY ReverseDrawn
<1>3. new[l] = Reverse(rows[l]) /\ \A r \in Rows : r # l => new[r] = rows[r]
  BY <1>1
<1>4. Become(k, held)
  OBVIOUS
<1> HIDE DEF new, k
<1>5. \A m \in Lists : Reading(k, rows[m]) = Contents(Heap, m)
  <2>1. \A x \in On(rows) : k.value[x] = Heap.value[x] BY <1>2
  <2>2. QED BY <1>1, <2>1, ReadingOfRow
<1>6. \A m \in Lists \ {l} : Reading(k, new[m]) = Contents(Heap, m)
  BY <1>1, <1>3, <1>5
<1>7. Reaches(new, held)
  BY <1>1, <1>2, <1>3 DEF Reaches
<1>8. Leads(l, Reading(k, new[l]))
  BY <1>2, <1>4, <1>6, <1>7, StepLeads
<1>9. Reading(k, Reverse(rows[l])) = Reverse(Reading(k, rows[l]))
  BY <1>1, <1>2, ReadingReversed DEF Drawn
<1>10. QED
  BY <1>3, <1>5, <1>8, <1>9

(* A caller takes hold of a node of a list, or of none.                    *)
LEMMA HoldKeeps ==
  ASSUME NEW rows, Tidy(Heap, rows), NEW n,
         n = None \/ \E l \in Lists : \E p \in 1..Len(rows[l]) : rows[l][p] = n,
         Become(Heap, n)
  PROVE  IInv' /\ \A m \in Lists : Contents(Heap, m)' = Contents(Heap, m)
<1> DEFINE new == [rows EXCEPT ![Outside] = <<>>]
<1>1. Drawn(Heap, rows) /\ rows \in [Rows -> Seq(Nodes)] /\ Lists \subseteq Rows /\ Outside \in Rows
  BY DEF Tidy, Drawn, Rows
<1>2. /\ new \in [Rows -> Seq(Nodes)] /\ new[Outside] = <<>>
      /\ \A r \in Rows : r # Outside => new[r] = rows[r]
  BY <1>1, DroppedRow
<1> HIDE DEF new
<1>3. Drawn(Heap, new) /\ \A m \in Lists : new[m] = rows[m]
  <2>1. Drawn(Heap, rows)
    BY <1>1
  <2>2. QED BY ONLY <1>2, <2>1, DropOutside
<1>4. Reaches(new, n)
  <2>1. ASSUME NEW l \in Lists, NEW p \in 1..Len(rows[l]), rows[l][p] = n PROVE n \in On(new)
    <3>1. p \in 1..Len(new[l]) /\ new[l][p] = n /\ l \in Rows BY <1>1, <1>3, <2>1
    <3>2. QED BY <1>2, <3>1, OnRow
  <2>2. QED BY <1>2, <2>1 DEF Reaches
<1>5. \A m \in Lists : Reading(Heap, rows[m]) = Contents(Heap, m)
  BY <1>1, ContentsIs
<1>6. IInv' /\ \A m \in Lists : Contents(Heap, m)' = Reading(Heap, new[m])
  BY <1>3, <1>4, BecomeDrawn
<1>7. QED
  BY <1>3, <1>5, <1>6
-----------------------------------------------------------------------------
(* The operators of the community modules, element by element.             *)
LEMMA InsertAtIsInserted ==
  ASSUME NEW S, NEW s \in Seq(S), NEW i \in 0..Len(s), NEW e \in S
  PROVE  InsertAt(s, i + 1, e) = Inserted(s, i, e)
<1> DEFINE left == SubSeq(s, 1, i)
           right == SubSeq(s, i + 1, Len(s))
           t == left \o <<e>>
           u == t \o right
           v == Inserted(s, i, e)
<1>1. Len(s) \in Nat /\ i \in Nat /\ i <= Len(s) /\ (i + 1) - 1 = i
  OBVIOUS
<1>2. InsertAt(s, i + 1, e) = u
  BY <1>1 DEF InsertAt
<1>3. left \in Seq(S) /\ Len(left) = i /\ \A j \in 1..i : left[j] = s[j]
  OBVIOUS
<1>4. right \in Seq(S) /\ Len(right) = Len(s) - i /\ \A j \in 1..(Len(s) - i) : right[j] = s[i + j]
  OBVIOUS
<1>5. <<e>> \in Seq(S) /\ Len(<<e>>) = 1 /\ <<e>>[1] = e
  OBVIOUS
<1>6. /\ v \in Seq(S) /\ Len(v) = Len(s) + 1
      /\ \A j \in 1..(Len(s) + 1) : v[j] = IF j <= i THEN s[j] ELSE IF j = i + 1 THEN e ELSE s[j - 1]
  <2>1. /\ Inserted(s, i, e) \in Seq(S) /\ Len(Inserted(s, i, e)) = Len(s) + 1
        /\ \A j \in 1..(Len(s) + 1) : Inserted(s, i, e)[j] =
             IF j <= i THEN s[j] ELSE IF j = i + 1 THEN e ELSE s[j - 1]
    BY InsertedElements
  <2>2. QED BY <2>1
<1> HIDE DEF left, right, v
<1>7. /\ t \in Seq(S) /\ Len(t) = i + 1
      /\ \A j \in 1..(i + 1) : t[j] = IF j <= i THEN s[j] ELSE e
  <2>1. t \in Seq(S) /\ Len(t) = i + 1
    BY <1>3, <1>5, ConcatProperties
  <2>2. \A j \in 1..(i + 1) : t[j] = IF j <= i THEN left[j] ELSE <<e>>[j - i]
    BY <1>3, <1>5, ConcatProperties
  <2>3. \A j \in 1..(i + 1) : (j <= i => j \in 1..i) /\ (~(j <= i) => j - i = 1)
    BY <1>1
  <2>4. QED BY <1>3, <1>5, <2>1, <2>2, <2>3
<1> HIDE DEF t
<1>8. /\ u \in Seq(S) /\ Len(u) = Len(s) + 1
      /\ \A j \in 1..(Len(s) + 1) : u[j] = IF j <= i + 1 THEN t[j] ELSE right[j - (i + 1)]
  <2>1. u \in Seq(S) /\ Len(u) = Len(t) + Len(right)
    BY <1>4, <1>7, ConcatProperties
  <2>2. (i + 1) + (Len(s) - i) = Len(s) + 1
    BY <1>1
  <2>3. \A j \in 1..(Len(t) + Len(right)) : u[j] = IF j <= Len(t) THEN t[j] ELSE right[j - Len(t)]
    BY <1>4, <1>7, ConcatProperties
  <2>4. QED BY <1>4, <1>7, <2>1, <2>2, <2>3
<1> HIDE DEF u
<1>9. ASSUME NEW j \in 1..(Len(s) + 1) PROVE u[j] = v[j]
  <2>1. CASE j <= i + 1
    <3>1. j \in 1..(i + 1) BY <1>1, <2>1
    <3>2. u[j] = IF j <= i THEN s[j] ELSE e BY <1>7, <1>8, <2>1, <3>1
    <3>3. ~(j <= i) => j = i + 1 BY <1>1, <3>1
    <3>4. QED BY <1>6, <3>2, <3>3
  <2>2. CASE ~(j <= i + 1)
    <3>1. j - (i + 1) \in 1..(Len(s) - i) /\ i + (j - (i + 1)) = j - 1 /\ ~(j <= i) /\ j # i + 1
      BY <1>1, <2>2
    <3>2. u[j] = s[j - 1] BY <1>4, <1>8, <2>2, <3>1
    <3>3. QED BY <1>6, <3>1, <3>2
  <2>3. QED BY <2>1, <2>2
<1>10. u = v
  BY <1>6, <1>8, <1>9, SeqEqual
<1>11. QED
  BY <1>2, <1>10 DEF u, v

(* RemoveAt of SequencesExt is Removed. *)
LEMMA RemoveAtIsRemoved ==
  ASSUME NEW S, NEW s \in Seq(S), NEW p \in 1..Len(s)
  PROVE  RemoveAt(s, p) = Removed(s, p)
<1> DEFINE left == SubSeq(s, 1, p - 1)
           right == SubSeq(s, p + 1, Len(s))
           u == left \o right
           v == Removed(s, p)
<1>1. Len(s) \in Nat /\ p \in Nat /\ p >= 1 /\ p <= Len(s) /\ Len(s) - 1 \in Nat
  OBVIOUS
<1>2. left \in Seq(S) /\ Len(left) = p - 1 /\ \A j \in 1..(p - 1) : left[j] = s[j]
  OBVIOUS
<1>3. right \in Seq(S) /\ Len(right) = Len(s) - p /\ \A j \in 1..(Len(s) - p) : right[j] = s[p + j]
  OBVIOUS
<1>4. RemoveAt(s, p) = u
  BY DEF RemoveAt
<1>5. v \in Seq(S) /\ Len(v) = Len(s) - 1 /\ \A j \in 1..(Len(s) - 1) : v[j] = IF j < p THEN s[j] ELSE s[j + 1]
  BY RemovedElements
<1> HIDE DEF left, right, v
<1>6. /\ u \in Seq(S) /\ Len(u) = Len(s) - 1
      /\ \A j \in 1..(Len(s) - 1) : u[j] = IF j <= p - 1 THEN left[j] ELSE right[j - (p - 1)]
  <2>1. u \in Seq(S) /\ Len(u) = Len(left) + Len(right)
    BY <1>2, <1>3, ConcatProperties
  <2>2. (p - 1) + (Len(s) - p) = Len(s) - 1
    BY <1>1
  <2>3. \A j \in 1..(Len(left) + Len(right)) : u[j] = IF j <= Len(left) THEN left[j] ELSE right[j - Len(left)]
    BY <1>2, <1>3, ConcatProperties
  <2>4. QED BY <1>2, <1>3, <2>1, <2>2, <2>3
<1> HIDE DEF u
<1>7. ASSUME NEW j \in 1..(Len(s) - 1) PROVE u[j] = v[j]
  <2>1. CASE j < p
    <3>1. j \in 1..(p - 1) /\ j <= p - 1 BY <1>1, <2>1
    <3>2. QED BY <1>2, <1>5, <1>6, <2>1, <3>1
  <2>2. CASE ~(j < p)
    <3>1. ~(j <= p - 1) /\ j - (p - 1) \in 1..(Len(s) - p) /\ p + (j - (p - 1)) = j + 1
      BY <1>1, <2>2
    <3>2. u[j] = s[j + 1] BY <1>3, <1>6, <3>1
    <3>3. QED BY <1>5, <2>2, <3>2
  <2>3. QED BY <2>1, <2>2
<1>8. u = v
  BY <1>5, <1>6, <1>7, SeqEqual
<1>9. QED
  BY <1>4, <1>8 DEF u, v

(* The loop of filter. *)
KeptLoop(s, keep) ==
  CHOOSE after : after = [i \in 0..Len(s) |->
    IF i = 0 THEN <<>> ELSE IF s[i] \in keep THEN Append(after[i - 1], s[i]) ELSE after[i - 1]]

(* The function that Kept defines by recursion exists. *)
LEMMA KeptLoopIs ==
  ASSUME NEW s, NEW keep, Len(s) \in Nat
  PROVE  /\ KeptLoop(s, keep) = [i \in 0..Len(s) |->
              IF i = 0 THEN <<>>
              ELSE IF s[i] \in keep THEN Append(KeptLoop(s, keep)[i - 1], s[i])
                                    ELSE KeptLoop(s, keep)[i - 1]]
         /\ Kept(s, keep) = KeptLoop(s, keep)[Len(s)]
<1> DEFINE Step(g, i) == IF s[i] \in keep THEN Append(g, s[i]) ELSE g
           T == {j \in Nat : ~ \E f : f = [i \in 0..j |-> IF i = 0 THEN <<>> ELSE Step(f[i - 1], i)]}
<1> HIDE DEF Step
<1>1. T = {}
  <2>1. SUFFICES ASSUME T # {} PROVE FALSE
    OBVIOUS
  <2>2. PICK m \in T : \A j \in T : m <= j
    <3>1. T \in SUBSET Nat OBVIOUS
    <3>2. QED BY <2>1, <3>1, Least
  <2>3. m # 0
    <3> DEFINE f == [i \in 0..0 |-> <<>>]
    <3>1. f = [i \in 0..0 |-> IF i = 0 THEN <<>> ELSE Step(f[i - 1], i)] OBVIOUS
    <3>2. QED BY <3>1
  <2>4. m - 1 \in Nat /\ m - 1 \notin T
    <3>1. T \in SUBSET Nat OBVIOUS
    <3> HIDE DEF T
    <3>2. QED BY <2>2, <2>3, <3>1
  <2>5. PICK f : f = [i \in 0..(m - 1) |-> IF i = 0 THEN <<>> ELSE Step(f[i - 1], i)]
    BY <2>4
  <2> DEFINE g == [i \in 0..m |-> IF i = m THEN Step(f[m - 1], m) ELSE f[i]]
  <2>6. g = [i \in 0..m |-> IF i = 0 THEN <<>> ELSE Step(g[i - 1], i)]
    <3>1. SUFFICES ASSUME NEW i \in 0..m PROVE g[i] = IF i = 0 THEN <<>> ELSE Step(g[i - 1], i)
      OBVIOUS
    <3>2. CASE i = 0 BY <2>3, <2>5, <3>2, <2>4
    <3>3. CASE i = m BY <2>3, <3>3, <2>4
    <3>4. CASE i # 0 /\ i # m
      <4>1. i \in 0..(m - 1) /\ i - 1 \in 0..m /\ i - 1 # m BY <3>4
      <4>2. g[i] = f[i] /\ g[i - 1] = f[i - 1] BY <4>1
      <4>3. QED BY <2>5, <4>1, <4>2, <3>4
    <3>5. QED BY <3>2, <3>3, <3>4
  <2>7. QED BY <2>2, <2>6
<1>2. \E f : f = [i \in 0..Len(s) |-> IF i = 0 THEN <<>> ELSE Step(f[i - 1], i)]
  BY <1>1
<1>3. QED BY <1>2 DEF KeptLoop, Kept, Step

(* g enumerates, in order, the positions up to n whose values are in keep. *)
Enumerates(g, s, keep, n) ==
  /\ \A i, j \in DOMAIN g : i < j => g[i] < g[j]
  /\ {g[i] : i \in DOMAIN g} = {i \in 1..n : s[i] \in keep}

Picked(t, s, keep, n) ==
  \E k \in 0..n : \E g \in [1..k -> 1..n] : Enumerates(g, s, keep, n) /\ t = [i \in 1..k |-> s[g[i]]]

(* A choice of elements of a sequence is a sequence. *)
LEMMA PickedIsSeq ==
  ASSUME NEW S, NEW s \in Seq(S), NEW n \in 0..Len(s), NEW t, NEW k \in Nat, NEW g \in [1..k -> 1..n],
         t = [i \in 1..k |-> s[g[i]]]
  PROVE  t \in Seq(S) /\ Len(t) = k
<1>1. \A i \in 1..k : s[g[i]] \in S
  OBVIOUS
<1>2. t \in [1..k -> S]
  BY <1>1
<1>3. QED
  BY <1>2, LenProperties, SeqDef

(* One turn of the loop of filter looks at one position more. *)
LEMMA PickOneMore ==
  ASSUME NEW S, NEW s \in Seq(S), NEW n \in 1..Len(s), NEW t, NEW keep, Picked(t, s, keep, n - 1)
  PROVE  Picked(IF s[n] \in keep THEN Append(t, s[n]) ELSE t, s, keep, n)
<1> DEFINE m == n - 1
<1>1. n \in Nat /\ m \in Nat /\ m \in 0..Len(s) /\ n = m + 1 /\ 1..m \subseteq 1..n /\ 0..m \subseteq 0..n
  OBVIOUS
<1>2. \E k \in 0..m : \E g \in [1..k -> 1..m] : Enumerates(g, s, keep, m) /\ t = [i \in 1..k |-> s[g[i]]]
  BY DEF Picked
<1> HIDE DEF m
<1>3. PICK k \in 0..m : \E g \in [1..k -> 1..m] : Enumerates(g, s, keep, m) /\ t = [i \in 1..k |-> s[g[i]]]
  BY <1>2
<1>4. PICK g \in [1..k -> 1..m] : Enumerates(g, s, keep, m) /\ t = [i \in 1..k |-> s[g[i]]]
  BY <1>3
<1>5. k \in Nat /\ k \in 0..n /\ k + 1 \in 0..n /\ k + 1 \in Nat /\ k <= m
  BY <1>1
<1>6. /\ \A i, j \in 1..k : i < j => g[i] < g[j]
      /\ {g[i] : i \in 1..k} = {i \in 1..m : s[i] \in keep}
  BY <1>4 DEF Enumerates
<1>7. CASE s[n] \notin keep
  <2>1. {i \in 1..n : s[i] \in keep} = {i \in 1..m : s[i] \in keep}
    BY <1>1, <1>7
  <2>2. g \in [1..k -> 1..n] BY <1>1
  <2>3. Enumerates(g, s, keep, n) BY <1>4, <2>1 DEF Enumerates
  <2>4. QED BY <1>4, <1>5, <1>7, <2>2, <2>3 DEF Picked
<1>8. CASE s[n] \in keep
  <2> DEFINE f == [i \in 1..(k + 1) |-> IF i <= k THEN g[i] ELSE n]
             u == Append(t, s[n])
             w == [i \in 1..(k + 1) |-> s[f[i]]]
  <2>1. \A i \in 1..(k + 1) : IF i <= k THEN i \in 1..k /\ f[i] = g[i] /\ g[i] \in 1..m /\ g[i] < n
                                        ELSE i = k + 1 /\ f[i] = n
    BY <1>1, <1>5
  <2>2. f \in [1..(k + 1) -> 1..n]
    BY <1>1, <2>1
  <2>3. f[k + 1] = n /\ \A i \in 1..k : f[i] = g[i] /\ i \in 1..(k + 1)
    BY <1>5
  <2> HIDE DEF f
  <2>4. \A i, j \in 1..(k + 1) : i < j => f[i] < f[j]
    <3>1. SUFFICES ASSUME NEW i \in 1..(k + 1), NEW j \in 1..(k + 1), i < j PROVE f[i] < f[j]
      OBVIOUS
    <3>2. i <= k /\ i \in 1..k BY <1>5, <3>1
    <3>3. CASE j <= k
      <4>1. j \in 1..k BY <3>3
      <4>2. QED BY <1>6, <2>3, <3>1, <3>2, <4>1
    <3>4. CASE ~(j <= k) BY <2>1, <3>2, <3>4
    <3>5. QED BY <3>3, <3>4
  <2>5. {f[i] : i \in 1..(k + 1)} = {i \in 1..n : s[i] \in keep}
    <3>1. {f[i] : i \in 1..(k + 1)} = {g[i] : i \in 1..k} \cup {n}
      <4>1. k + 1 \in 1..(k + 1) BY <1>5
      <4>2. QED BY <2>1, <2>3, <4>1
    <3>2. {i \in 1..n : s[i] \in keep} = {i \in 1..m : s[i] \in keep} \cup {n}
      BY <1>1, <1>8
    <3>3. QED BY <1>6, <3>1, <3>2
  <2>6. Enumerates(f, s, keep, n)
    <3>1. DOMAIN f = 1..(k + 1) BY <2>2
    <3>2. QED BY <2>4, <2>5, <3>1 DEF Enumerates
  <2>7. w = u
    <3>1. t \in Seq(S) /\ Len(t) = k /\ s[n] \in S /\ \A i \in 1..k : t[i] = s[g[i]]
      BY <1>1, <1>4, <1>5, PickedIsSeq
    <3>2. w \in Seq(S) /\ Len(w) = k + 1 /\ \A i \in 1..(k + 1) : w[i] = s[f[i]]
      <4>1. n \in 0..Len(s) BY <1>1
      <4>2. QED BY <1>5, <2>2, <4>1, PickedIsSeq
    <3> HIDE DEF w
    <3>3. u \in Seq(S) /\ Len(u) = k + 1 /\ u[k + 1] = s[n] /\ \A i \in 1..k : u[i] = t[i]
      BY <3>1
    <3> HIDE DEF u
    <3>4. ASSUME NEW i \in 1..(k + 1) PROVE w[i] = u[i]
      <4>1. CASE i <= k
        <5>1. i \in 1..k /\ f[i] = g[i] BY <2>1, <4>1
        <5>2. t[i] = s[g[i]] BY <3>1, <5>1
        <5>3. u[i] = t[i] BY <3>3, <5>1
        <5>4. QED BY <3>2, <5>1, <5>2, <5>3
      <4>2. CASE ~(i <= k) BY <1>5, <2>1, <3>2, <3>3, <4>2
      <4>3. QED BY <4>1, <4>2
    <3>5. QED BY <3>2, <3>3, <3>4, SeqEqual
  <2>8. QED BY <1>5, <1>8, <2>2, <2>6, <2>7 DEF Picked
<1>9. QED
  BY <1>7, <1>8

(* The loop of filter picks the values that satisfy the predicate, in      *)
(* order.                                                                  *)
LEMMA KeptIsPicked ==
  ASSUME NEW S, NEW s \in Seq(S), NEW keep
  PROVE  Picked(Kept(s, keep), s, keep, Len(s)) /\ Kept(s, keep) \in Seq(S)
<1> DEFINE loop == KeptLoop(s, keep)
           N == Len(s)
           T == {i \in 0..N : ~Picked(loop[i], s, keep, i)}
<1>1. N \in Nat
  OBVIOUS
<1>2. /\ loop = [i \in 0..N |->
                   IF i = 0 THEN <<>> ELSE IF s[i] \in keep THEN Append(loop[i - 1], s[i]) ELSE loop[i - 1]]
      /\ Kept(s, keep) = loop[N]
  BY <1>1, KeptLoopIs
<1> HIDE DEF loop
<1>3. Picked(loop[0], s, keep, 0)
  <2> DEFINE g == [i \in 1..0 |-> i]
  <2>1. g \in [1..0 -> 1..0] /\ {g[i] : i \in DOMAIN g} = {i \in 1..0 : s[i] \in keep} /\ 0 \in 0..0
    OBVIOUS
  <2>2. \A i, j \in DOMAIN g : i < j => g[i] < g[j]
    OBVIOUS
  <2>3. loop[0] = [i \in 1..0 |-> s[g[i]]]
    <3>1. loop[0] = <<>> BY <1>1, <1>2
    <3>2. <<>> = [i \in 1..0 |-> s[g[i]]] OBVIOUS
    <3>3. QED BY <3>1, <3>2
  <2> HIDE DEF g
  <2>4. QED BY <2>1, <2>2, <2>3 DEF Picked, Enumerates
<1>4. T = {}
  <2>1. SUFFICES ASSUME T # {} PROVE FALSE
    OBVIOUS
  <2>2. PICK i \in T : \A j \in T : i <= j
    <3>1. T \in SUBSET Nat BY <1>1
    <3>2. QED BY <2>1, <3>1, Least
  <2>3. i # 0 BY <1>3, <2>2
  <2>4. i \in 1..N /\ i - 1 \in 0..N /\ ~(i <= i - 1) BY <1>1, <2>2, <2>3
  <2>5. i - 1 \notin T BY <2>2, <2>4
  <2>6. Picked(loop[i - 1], s, keep, i - 1) BY <2>4, <2>5
  <2>7. loop[i] = IF s[i] \in keep THEN Append(loop[i - 1], s[i]) ELSE loop[i - 1]
    BY <1>2, <2>3, <2>4
  <2>8. Picked(loop[i], s, keep, i) BY <2>4, <2>6, <2>7, PickOneMore
  <2>9. QED BY <2>2, <2>8
<1>5. Picked(loop[N], s, keep, N)
  <2>1. N \in 0..N /\ N \notin T BY <1>1, <1>4
  <2>2. QED BY <2>1
<1>6. loop[N] \in Seq(S)
  <2>1. PICK k \in 0..N : \E g \in [1..k -> 1..N] : loop[N] = [i \in 1..k |-> s[g[i]]]
    BY <1>5 DEF Picked
  <2>2. PICK g \in [1..k -> 1..N] : loop[N] = [i \in 1..k |-> s[g[i]]]
    BY <2>1
  <2>3. k \in Nat /\ N \in 0..Len(s) OBVIOUS
  <2>4. QED BY <2>2, <2>3, PickedIsSeq
<1>7. QED
  BY <1>2, <1>5, <1>6
-----------------------------------------------------------------------------
(* What the rows say about the variables. *)
LEMMA RowsAreLists ==
  ASSUME NEW rows, Tidy(Heap, rows), NEW l \in Lists
  PROVE  /\ Chain(Heap, l) = rows[l] /\ rows[l] \in Seq(Nodes) /\ Len(rows[l]) \in Nat
         /\ Contents(Heap, l) \in Seq(Values) /\ Len(Contents(Heap, l)) = Len(rows[l])
         /\ Size(l) = Len(rows[l]) /\ head[l] = First(rows[l])
         /\ rows \in [Rows -> Seq(Nodes)] /\ l \in Rows
<1>1. Drawn(Heap, rows) /\ rows \in [Rows -> Seq(Nodes)] /\ l \in Rows /\ Heap.head = head
  BY DEF Tidy, Drawn, Rows, Heap
<1>2. Chain(Heap, l) = rows[l] /\ head[l] = First(rows[l])
  BY <1>1, ChainIs
<1>3. Contents(Heap, l) \in Seq(Values) /\ Len(Contents(Heap, l)) = Len(rows[l])
  BY <1>1, ContentsIs
<1>4. QED
  BY <1>1, <1>2, <1>3 DEF Size

(* What a step of the specification does to the contents of the lists.     *)
Stays == IInv' /\ \A m \in Lists : Contents(Heap, m)' = Contents(Heap, m)

InsertsOne(l) ==
  \E i \in 0..Len(Contents(Heap, l)) : \E v \in Values :
    Leads(l, Inserted(Contents(Heap, l), i, v))

RemovesOne(l) == \E p \in 1..Len(Contents(Heap, l)) : Leads(l, Removed(Contents(Heap, l), p))

AppendsOther(l, m) == l # m /\ Leads(l, Contents(Heap, l) \o Contents(Heap, m))

Mapping(s, f) == [i \in 1..Len(s) |-> f[s[i]]]

Effect ==
  \/ Stays
  \/ \E l \in Lists : \/ InsertsOne(l) \/ RemovesOne(l)
                      \/ Leads(l, <<>>) \/ Leads(l, Reverse(Contents(Heap, l)))
  \/ \E l, m \in Lists :
       \/ AppendsOther(l, m)
       \/ \E f \in [Values -> Values] : Leads(m, Mapping(Contents(Heap, l), f))
       \/ \E keep \in SUBSET Values : Leads(m, Kept(Contents(Heap, l), keep))

(* map returns values. *)
LEMMA MappingElements ==
  ASSUME NEW s \in Seq(Values), NEW f \in [Values -> Values]
  PROVE  Mapping(s, f) \in Seq(Values)
<1>1. Len(s) \in Nat /\ \A i \in 1..Len(s) : f[s[i]] \in Values
  OBVIOUS
<1>2. Mapping(s, f) \in [1..Len(s) -> Values]
  BY <1>1 DEF Mapping
<1>3. QED
  BY <1>1, <1>2, SeqDef

(* remove takes one value out. *)
LEMMA RemovesOneNode ==
  ASSUME NEW rows, Tidy(Heap, rows), Reaches(rows, held), NEW l \in Lists, NEW p \in 1..Len(rows[l]),
         NEW n, n = rows[l][p], Become(RemoveNode(Heap, l, n), held)
  PROVE  RemovesOne(l)
<1>1. p \in 1..Len(Contents(Heap, l))
  BY RowsAreLists
<1>2. Leads(l, Removed(Contents(Heap, l), p))
  BY RemoveNodeLeads
<1>3. QED
  BY <1>1, <1>2 DEF RemovesOne

(* Every step has one of these effects. *)
LEMMA NextHasEffect ==
  ASSUME IInv, Next
  PROVE  Effect
<1>1. PICK rows : Tidy(Heap, rows) /\ Reaches(rows, held)
  BY DEF IInv
<1>2. \A l \in Lists :
        /\ Chain(Heap, l) = rows[l] /\ rows[l] \in Seq(Nodes) /\ Len(rows[l]) \in Nat
        /\ Contents(Heap, l) \in Seq(Values) /\ Len(Contents(Heap, l)) = Len(rows[l])
        /\ Size(l) = Len(rows[l]) /\ head[l] = First(rows[l])
  BY <1>1, RowsAreLists
<1>3. ASSUME NEW l \in Lists, NEW v \in Values, AppendValue(l, v) PROVE InsertsOne(l)
  <2>1. PICK n \in Free : Become(AppendNode(NewNode(Heap, n, v), l, n), held)
    BY <1>3 DEF AppendValue
  <2>2. Leads(l, Inserted(Contents(Heap, l), Len(rows[l]), v))
    BY <1>1, <2>1, AppendValueLeads
  <2>3. Len(rows[l]) \in 0..Len(Contents(Heap, l)) BY <1>2
  <2>4. QED BY <2>2, <2>3 DEF InsertsOne
<1>4. ASSUME NEW l \in Lists, NEW v \in Values, NEW i \in 0..Size(l), InsertValue(l, v, i)
      PROVE  InsertsOne(l)
  <2>1. PICK n \in Free : Become(InsertNode(NewNode(Heap, n, v), l, n, i), held)
    BY <1>4 DEF InsertValue
  <2>2. i \in 0..Len(rows[l]) /\ i \in 0..Len(Contents(Heap, l)) BY <1>2
  <2>3. Leads(l, Inserted(Contents(Heap, l), i, v))
    BY <1>1, <2>1, <2>2, InsertValueLeads
  <2>4. QED BY <2>2, <2>3 DEF InsertsOne
<1>5. ASSUME NEW l \in Lists, Detached, AppendHeld(l) PROVE InsertsOne(l)
  <2>1. held # None /\ ~InAList(held) /\ next[held] = None /\ Become(AppendNode(Heap, l, held), held)
    BY <1>5 DEF AppendHeld, Detached
  <2>2. /\ Heap.value[held] \in Values
        /\ Leads(l, Inserted(Contents(Heap, l), Len(rows[l]), Heap.value[held]))
    BY <1>1, <2>1, AppendHeldLeads
  <2>3. Len(rows[l]) \in 0..Len(Contents(Heap, l)) BY <1>2
  <2>4. QED BY <2>2, <2>3 DEF InsertsOne
<1>6. ASSUME NEW l \in Lists, NEW i \in 0..Size(l), Detached, InsertHeld(l, i) PROVE InsertsOne(l)
  <2>1. held # None /\ ~InAList(held) /\ next[held] = None /\ Become(InsertNode(Heap, l, held, i), held)
    BY <1>6 DEF InsertHeld, Detached
  <2>2. i \in 0..Len(rows[l]) /\ i \in 0..Len(Contents(Heap, l)) BY <1>2
  <2>3. Heap.value[held] \in Values /\ Leads(l, Inserted(Contents(Heap, l), i, Heap.value[held]))
    BY <1>1, <2>1, <2>2, InsertHeldLeads
  <2>4. QED BY <2>2, <2>3 DEF InsertsOne
<1>7. ASSUME NEW l \in Lists, NEW m \in Lists, AppendList(l, m) PROVE AppendsOther(l, m)
  <2> DEFINE vs == Contents(Heap, m)
  <2>1. l # m /\ vs \in Seq(Values) BY <1>2, <1>7 DEF AppendList
  <2>2. PICK ns \in NewNodesFor(vs) : Become(AppendValues(Heap, l, ns, vs), held)
    BY <1>7 DEF AppendList
  <2> HIDE DEF vs
  <2>3. Leads(l, Contents(Heap, l) \o vs) BY <1>1, <2>1, <2>2, AppendListLeads
  <2>4. QED BY <2>1, <2>3 DEF AppendsOther, vs
<1>8. ASSUME NEW m \in Lists, NEW vs \in Seq(Values), Assign(m, vs) PROVE Leads(m, vs)
  <2>1. PICK ns \in NewNodesFor(vs) : Become(AppendValues(SetHead(Heap, m, None), m, ns, vs), held)
    BY <1>8 DEF Assign
  <2>2. QED BY <1>1, <2>1, AssignLeads
<1>9. ASSUME NEW l \in Lists, NEW m \in Lists, NEW f \in [Values -> Values], MapTo(l, m, f)
      PROVE  Leads(m, Mapping(Contents(Heap, l), f))
  <2>1. Assign(m, Mapping(Contents(Heap, l), f)) BY <1>9 DEF MapTo, Mapping
  <2>2. Mapping(Contents(Heap, l), f) \in Seq(Values) BY <1>2, MappingElements
  <2>3. QED BY <1>8, <2>1, <2>2
<1>10. ASSUME NEW l \in Lists, NEW m \in Lists, NEW keep \in SUBSET Values, FilterTo(l, m, keep)
       PROVE  Leads(m, Kept(Contents(Heap, l), keep))
  <2>1. Assign(m, Kept(Contents(Heap, l), keep)) BY <1>10 DEF FilterTo
  <2>2. Kept(Contents(Heap, l), keep) \in Seq(Values) BY <1>2, KeptIsPicked
  <2>3. QED BY <1>8, <2>1, <2>2
<1>11. ASSUME NEW l \in Lists, RemoveAll(l) PROVE Leads(l, <<>>)
  BY <1>1, <1>11, RemoveAllLeads DEF RemoveAll
<1>12. ASSUME NEW l \in Lists, RemoveHeld(l) PROVE RemovesOne(l)
  <2>1. held \in ToSet(rows[l]) /\ Become(RemoveNode(Heap, l, held), held)
    BY <1>2, <1>12 DEF RemoveHeld
  <2>2. PICK p \in 1..Len(rows[l]) : held = rows[l][p]
    BY <1>2, <2>1 DEF ToSet
  <2>3. QED BY <1>1, <2>1, <2>2, RemovesOneNode
<1>13. ASSUME NEW l \in Lists, RemoveLast(l) PROVE RemovesOne(l)
  <2>1. head[l] # None /\ Become(RemoveNode(Heap, l, LastNode(Heap, l)), held)
    BY <1>13 DEF RemoveLast
  <2>2. rows[l] # <<>> BY <1>2, <2>1 DEF First
  <2>3. Len(rows[l]) \in 1..Len(rows[l]) BY <1>2, <2>2
  <2>4. LastNode(Heap, l) = rows[l][Len(rows[l])] BY <1>2 DEF LastNode, Last
  <2>5. QED BY <1>1, <2>1, <2>3, <2>4, RemovesOneNode
<1>14. ASSUME NEW l \in Lists, NEW i \in 0..(Size(l) - 1)
  PROVE i + 1 \in 1..Len(rows[l]) /\ NodeAt(Heap, l, i) = rows[l][i + 1]
  BY <1>2 DEF NodeAt
<1>15. ASSUME NEW l \in Lists, NEW i \in 0..(Size(l) - 1), RemoveAtIndex(l, i)
  PROVE RemovesOne(l)
  <2>1. Become(RemoveNode(Heap, l, NodeAt(Heap, l, i)), held) BY <1>15 DEF RemoveAtIndex
  <2>2. QED BY <1>1, <1>14, <2>1, RemovesOneNode
<1>16. ASSUME NEW l \in Lists, ReverseList(l) PROVE Leads(l, Reverse(Contents(Heap, l)))
  BY <1>1, <1>16, ReverseLeads DEF ReverseList
<1>17. ASSUME NEW l \in Lists, NEW i \in 0..(Size(l) - 1), Hold(l, i) PROVE Stays
  <2>1. Become(Heap, NodeAt(Heap, l, i)) BY <1>17 DEF Hold
  <2>2. \E p \in 1..Len(rows[l]) : rows[l][p] = NodeAt(Heap, l, i) BY <1>14
  <2>3. QED BY <1>1, <2>1, <2>2, HoldKeeps DEF Stays
<1>18. ASSUME LetGo PROVE Stays
  <2>1. Become(Heap, None) BY <1>18 DEF LetGo
  <2>2. QED BY <1>1, <2>1, HoldKeeps DEF Stays
<1>19. QED
  BY <1>3, <1>4, <1>5, <1>6, <1>7, <1>9, <1>10, <1>11, <1>12, <1>13, <1>15, <1>16, <1>17, <1>18
     DEF Next, Effect
-----------------------------------------------------------------------------
(* Before the first step every row is empty. *)
LEMMA InitDrawn ==
  ASSUME Init
  PROVE  \E rows : /\ Tidy(Heap, rows) /\ Reaches(rows, held)
                   /\ \A l \in Lists : rows[l] = <<>>
<1> DEFINE rows == [r \in Rows |-> <<>>]
<1>1. rows \in [Rows -> Seq(Nodes)] /\ \A r \in Rows : rows[r] = <<>> /\ Len(rows[r]) = 0
  <2>1. <<>> \in Seq(Nodes) /\ Len(<<>>) = 0 OBVIOUS
  <2>2. QED BY <2>1
<1> HIDE DEF rows
<1>2. Lists \subseteq Rows /\ Outside \in Rows
  BY DEF Rows
<1>3. \A r \in Rows : \A i \in 1..Len(rows[r]) : FALSE
  BY <1>1
<1>4. On(rows) = {}
  BY <1>3 DEF On
<1>5. /\ Heap.next = [n \in Nodes |-> None] /\ Heap.previous = [n \in Nodes |-> None]
      /\ Heap.value = [n \in Nodes |-> None] /\ Heap.head = [l \in Lists |-> None]
      /\ held = None /\ Heap \in Heaps
  BY DEF Init, Heap, Heaps, NodeOrNone
<1>6. Apart(rows) /\ Forward(Heap, rows) /\ Backward(Heap, rows) /\ Valued(Heap, rows)
  BY <1>3, <1>4 DEF Apart, Forward, Backward, Valued
<1>7. Headed(Heap, rows)
  BY <1>1, <1>2, <1>5 DEF Headed, First
<1>8. Tidy(Heap, rows)
  BY <1>1, <1>4, <1>5, <1>6, <1>7 DEF Tidy, Drawn
<1>9. Reaches(rows, held)
  BY <1>1, <1>2, <1>5 DEF Reaches
<1>10. QED
  BY <1>1, <1>2, <1>8, <1>9

(* A step that changes no variable changes nothing. *)
LEMMA SameHeap ==
  ASSUME UNCHANGED vars
  PROVE  Heap' = Heap /\ held' = held
BY DEF vars, Heap

(* The rows are there in every reachable state: the inductive invariant.   *)
THEOREM Invariance == Spec => []IInv
<1>1. Init => IInv
  BY InitDrawn DEF IInv
<1>2. IInv /\ [Next]_vars => IInv'
  <2> SUFFICES ASSUME IInv, [Next]_vars PROVE IInv'
    OBVIOUS
  <2>1. CASE Next
    BY <2>1, NextHasEffect
       DEF Effect, Stays, InsertsOne, RemovesOne, AppendsOther, Leads
  <2>2. CASE UNCHANGED vars
    BY <2>2, SameHeap DEF IInv
  <2>3. QED
    BY <2>1, <2>2
<1>3. QED
  BY <1>1, <1>2, PTL DEF Spec

(* Every variable has its type, and the nodes a list is made of exist.     *)
THEOREM TypeCorrect == Spec => []TypeOK
<1>1. IInv => TypeOK
  <2> SUFFICES ASSUME IInv PROVE TypeOK
    OBVIOUS
  <2>1. PICK rows : Tidy(Heap, rows) /\ Reaches(rows, held)
    BY DEF IInv
  <2>2. Heap \in Heaps /\ Valued(Heap, rows) /\ rows \in [Rows -> Seq(Nodes)] /\ On(rows) \subseteq Nodes
    BY <2>1 DEF Tidy, Drawn, On
  <2>3. /\ next \in [Nodes -> Nodes \cup {None}] /\ previous \in [Nodes -> Nodes \cup {None}]
        /\ value \in [Nodes -> Values \cup {None}] /\ head \in [Lists -> Nodes \cup {None}]
    <3>1. /\ Heap.next = next /\ Heap.previous = previous /\ Heap.value = value /\ Heap.head = head
      BY DEF Heap
    <3>2. QED BY <2>2, <3>1, HeapFields DEF NodeOrNone
  <2>4. held \in Nodes \cup {None}
    BY <2>1, <2>2 DEF Reaches
  <2>5. ASSUME NEW l \in Lists, NEW n \in ToSet(Chain(Heap, l)) PROVE value[n] \in Values
    <3>1. Chain(Heap, l) = rows[l] /\ rows[l] \in Seq(Nodes) /\ l \in Rows BY <2>1, RowsAreLists
    <3>2. PICK i \in 1..Len(rows[l]) : n = rows[l][i] BY <2>5, <3>1 DEF ToSet
    <3>3. n \in On(rows) BY <2>2, <3>1, <3>2, OnRow
    <3>4. QED BY <2>2, <3>3 DEF Valued, Heap
  <2>6. QED
    BY <2>3, <2>4, <2>5 DEF TypeOK
<1>2. QED
  BY <1>1, Invariance, PTL

(* Between operations every list can be walked in both directions, as      *)
(* remove(node:) takes for granted (lines 181 to 195).                     *)
THEOREM AlwaysWellLinked == Spec => []WellLinked
<1>1. IInv => WellLinked
  <2> SUFFICES ASSUME IInv, NEW l \in Lists, Chain(Heap, l) # <<>>
               PROVE  LET c == Chain(Heap, l)
                      IN  /\ previous[c[1]] = None
                          /\ next[Last(c)] = None
                          /\ \A i \in 1..(Len(c) - 1) : previous[c[i + 1]] = c[i]
    BY DEF WellLinked
  <2>1. PICK rows : Tidy(Heap, rows) /\ Reaches(rows, held)
    BY DEF IInv
  <2> DEFINE c == rows[l]
  <2>2. /\ Chain(Heap, l) = c /\ c \in Seq(Nodes) /\ Len(c) \in Nat /\ c # <<>> /\ l \in Rows
        /\ rows \in [Rows -> Seq(Nodes)]
    BY <2>1, RowsAreLists
  <2>3. /\ Forward(Heap, rows) /\ Backward(Heap, rows) /\ Heap.next = next /\ Heap.previous = previous
        /\ \A n \in On(rows) : previous[n] \in On(rows) \cup {None}
    BY <2>1 DEF Tidy, Drawn, Heap
  <2>4. 1 \in 1..Len(c) /\ Len(c) \in 1..Len(c)
    BY <2>2
  <2>5. previous[c[1]] = None
    <3>1. c[1] \in On(rows) BY <2>2, <2>4, OnRow
    <3>2. previous[c[1]] \notin On(rows) BY <2>2, <2>3, <2>4 DEF Backward
    <3>3. QED BY <2>3, <3>1, <3>2
  <2>6. next[c[Len(c)]] = None
    BY <2>2, <2>3, <2>4 DEF Forward
  <2>7. ASSUME NEW i \in 1..(Len(c) - 1) PROVE previous[c[i + 1]] = c[i]
    <3>1. i + 1 \in 1..Len(c) /\ i + 1 # 1 /\ (i + 1) - 1 = i BY <2>2
    <3>2. QED BY <2>2, <2>3, <3>1 DEF Backward
  <2>8. QED
    BY <2>2, <2>5, <2>6, <2>7 DEF Last
<1>2. QED
  BY <1>1, Invariance, PTL

(* A node lives in a list or in the caller's hands, and nowhere else: the  *)
(* weak previous (line 17) leaves no cycle behind.                         *)
THEOREM NothingElseEverLives == Spec => []NothingElseLives
<1>1. IInv => NothingElseLives
  <2> SUFFICES ASSUME IInv, NEW n \in Nodes, value[n] # None
               PROVE  InAList(n) \/ n \in ToSet(WalkFrom(Heap, held))
    BY DEF NothingElseLives
  <2>1. PICK rows : Tidy(Heap, rows) /\ Reaches(rows, held)
    BY DEF IInv
  <2>2. n \in On(rows)
    BY <2>1 DEF Tidy, Heap
  <2>3. PICK r \in Rows : \E i \in 1..Len(rows[r]) : rows[r][i] = n
    BY <2>2 DEF On
  <2>4. rows \in [Rows -> Seq(Nodes)] /\ rows[r] \in Seq(Nodes) /\ n \in ToSet(rows[r])
    BY <2>1, <2>3 DEF Tidy, Drawn, ToSet
  <2>5. CASE r \in Lists
    <3>1. Chain(Heap, r) = rows[r] BY <2>1, <2>5, RowsAreLists
    <3>2. QED BY <2>4, <2>5, <3>1 DEF InAList
  <2>6. CASE r = Outside
    <3>1. Strung(Heap, rows[r]) BY <2>1, <2>4 DEF Tidy, Drawn, Strung, Apart, Forward
    <3>2. WalkFrom(Heap, First(rows[r])) = rows[r] BY <3>1, WalkOfRow
    <3>3. rows[r] # <<>> BY <2>3, <2>4, FirstOfRow
    <3>4. First(rows[r]) = held BY <2>1, <2>6, <3>3 DEF Reaches, First
    <3>5. QED BY <2>4, <3>2, <3>4
  <2>7. QED
    BY <2>5, <2>6 DEF Rows
<1>2. QED
  BY <1>1, Invariance, PTL

-----------------------------------------------------------------------------
AllContents == [l \in Lists |-> Contents(Heap, l)]

(* The abstract specification means the same operators. *)
LEMMA SameOperators ==
  ASSUME NEW s, NEW i, NEW e
  PROVE  /\ Abstract!InsertAt(s, i, e) = InsertAt(s, i, e)
         /\ Abstract!RemoveAt(s, i) = RemoveAt(s, i)
         /\ Abstract!Reverse(s) = Reverse(s)
BY DEF Abstract!InsertAt, InsertAt, Abstract!RemoveAt, RemoveAt, Abstract!Reverse, Reverse

(* A step that leads to s assigns s in the abstract specification. *)
LEMMA LeadsIsBecome ==
  ASSUME NEW l \in Lists, NEW s, Leads(l, s)
  PROVE  AllContents' = [AllContents EXCEPT ![l] = s]
<1>1. AllContents' = [m \in Lists |-> Contents(Heap, m)']
  BY DEF AllContents
<1>2. \A m \in Lists : Contents(Heap, m)' = IF m = l THEN s ELSE Contents(Heap, m)
  BY DEF Leads
<1>3. [AllContents EXCEPT ![l] = s] = [m \in Lists |-> IF m = l THEN s ELSE Contents(Heap, m)]
  BY DEF AllContents
<1>4. QED
  BY <1>1, <1>2, <1>3

(* The linked lists implement lists of values: each operation on the nodes *)
(* is the operation on the sequence of values that its comment describes.  *)
THEOREM Refinement == Spec => RefinesValueLists
<1>1. Init => Abstract!Init
  <2> SUFFICES ASSUME Init PROVE AllContents = [l \in Lists |-> <<>>]
    BY DEF Abstract!Init, AllContents
  <2>1. PICK rows : /\ Tidy(Heap, rows) /\ Reaches(rows, held)
                    /\ \A l \in Lists : rows[l] = <<>>
    BY InitDrawn
  <2>2. ASSUME NEW l \in Lists PROVE Contents(Heap, l) = <<>>
    <3>1. Contents(Heap, l) \in Seq(Values) /\ Len(Contents(Heap, l)) = Len(rows[l])
      BY <2>1, RowsAreLists
    <3>2. Len(<<>>) = 0 OBVIOUS
    <3>3. QED BY <2>1, <3>1, <3>2
  <2>3. QED
    BY <2>2 DEF AllContents
<1>2. IInv /\ [Next]_vars => [Abstract!Next]_AllContents
  <2> SUFFICES ASSUME IInv, [Next]_vars PROVE Abstract!Next \/ AllContents' = AllContents
    OBVIOUS
  <2>1. ASSUME NEW l \in Lists
        PROVE  AllContents[l] = Contents(Heap, l) /\ Contents(Heap, l) \in Seq(Values)
    BY RowsAreLists DEF IInv, AllContents
  <2>2. ASSUME NEW l \in Lists, NEW s, Leads(l, s) PROVE Abstract!Become(l, s)
    BY <2>2, LeadsIsBecome DEF Abstract!Become, AllContents
  <2>3. ASSUME NEW l \in Lists, InsertsOne(l) PROVE Abstract!Next
    <3>1. PICK i \in 0..Len(Contents(Heap, l)), v \in Values : Leads(l, Inserted(Contents(Heap, l), i, v))
      BY <2>3 DEF InsertsOne
    <3>2. Abstract!Become(l, Inserted(Contents(Heap, l), i, v))
      BY <2>2, <3>1
    <3>3. Inserted(Contents(Heap, l), i, v) = Abstract!InsertAt(AllContents[l], i + 1, v)
      BY <2>1, InsertAtIsInserted, SameOperators
    <3>4. Abstract!Insert(l, i, v)
      BY <2>1, <3>2, <3>3 DEF Abstract!Insert, AllContents
    <3>5. QED
      BY <2>1, <3>4 DEF Abstract!Next, AllContents
  <2>4. ASSUME NEW l \in Lists, RemovesOne(l) PROVE Abstract!Next
    <3>1. PICK p \in 1..Len(Contents(Heap, l)) : Leads(l, Removed(Contents(Heap, l), p))
      BY <2>4 DEF RemovesOne
    <3>2. Abstract!Become(l, Removed(Contents(Heap, l), p))
      BY <2>2, <3>1
    <3>3. Removed(Contents(Heap, l), p) = Abstract!RemoveAt(AllContents[l], p)
      BY <2>1, RemoveAtIsRemoved, SameOperators
    <3>4. Abstract!RemoveAtIndex(l, p)
      BY <2>1, <3>2, <3>3 DEF Abstract!RemoveAtIndex, AllContents
    <3>5. QED
      BY <2>1, <3>4 DEF Abstract!Next, AllContents
  <2>5. ASSUME NEW l \in Lists, Leads(l, <<>>) PROVE Abstract!Next
    BY <2>2, <2>5 DEF Abstract!Next, Abstract!RemoveAll
  <2>6. ASSUME NEW l \in Lists, Leads(l, Reverse(Contents(Heap, l))) PROVE Abstract!Next
    <3>1. Abstract!Become(l, Reverse(Contents(Heap, l)))
      BY <2>2, <2>6
    <3>2. Abstract!Reversed(l)
      BY <2>1, <3>1, SameOperators DEF Abstract!Reversed, AllContents
    <3>3. QED
      BY <3>2 DEF Abstract!Next
  <2>7. ASSUME NEW l \in Lists, NEW m \in Lists, AppendsOther(l, m) PROVE Abstract!Next
    <3>1. l # m /\ Abstract!Become(l, Contents(Heap, l) \o Contents(Heap, m))
      BY <2>2, <2>7 DEF AppendsOther
    <3>2. Abstract!AppendList(l, m)
      BY <2>1, <3>1 DEF Abstract!AppendList, AllContents
    <3>3. QED
      BY <3>2 DEF Abstract!Next
  <2>8. ASSUME NEW l \in Lists, NEW m \in Lists, NEW f \in [Values -> Values],
               Leads(m, Mapping(Contents(Heap, l), f))
        PROVE  Abstract!Next
    <3>1. Abstract!Become(m, Mapping(Contents(Heap, l), f))
      BY <2>2, <2>8
    <3>2. Abstract!Mapped(l, m, f)
      BY <2>1, <3>1 DEF Abstract!Mapped, Mapping, AllContents
    <3>3. QED
      BY <3>2 DEF Abstract!Next
  <2>9. ASSUME NEW l \in Lists, NEW m \in Lists, NEW keep \in SUBSET Values,
               Leads(m, Kept(Contents(Heap, l), keep))
        PROVE  Abstract!Next
    <3> DEFINE s == Contents(Heap, l)
               t == Kept(s, keep)
    <3>1. Abstract!Become(m, t)
      BY <2>2, <2>9
    <3>2. Picked(t, s, keep, Len(s))
      BY <2>1, KeptIsPicked
    <3>3. AllContents[l] = s
      BY <2>1
    <3> HIDE DEF s, t
    <3>4. PICK k \in 0..Len(s) :
            \E g \in [1..k -> 1..Len(s)] : Enumerates(g, s, keep, Len(s)) /\ t = [i \in 1..k |-> s[g[i]]]
      BY <3>2 DEF Picked
    <3>5. PICK g \in [1..k -> 1..Len(s)] :
            Enumerates(g, s, keep, Len(s)) /\ t = [i \in 1..k |-> s[g[i]]]
      BY <3>4
    <3>6. Abstract!Become(m, [i \in 1..k |-> s[g[i]]])
      BY <3>1, <3>5
    <3>7. Abstract!Filtered(l, m, keep)
      BY <3>3, <3>5, <3>6 DEF Abstract!Filtered, Enumerates, AllContents
    <3>8. QED
      BY <3>7 DEF Abstract!Next
  <2>10. CASE Next
    <3>1. CASE Stays
      <4>1. AllContents' = [m \in Lists |-> Contents(Heap, m)'] BY DEF AllContents
      <4>2. QED BY <3>1, <4>1 DEF AllContents, Stays
    <3>2. QED
      BY <2>3, <2>4, <2>5, <2>6, <2>7, <2>8, <2>9, <2>10, <3>1, NextHasEffect DEF Effect
  <2>11. CASE UNCHANGED vars
    BY <2>11, SameHeap DEF AllContents
  <2>12. QED
    BY <2>10, <2>11
<1>3. QED
  BY <1>1, <1>2, Invariance, PTL DEF Spec, RefinesValueLists, Abstract!Spec, AllContents
=============================================================================
