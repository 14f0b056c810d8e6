----------------------------- MODULE LinkedList -----------------------------
(***************************************************************************)
(* LinkedList.swift of SwiftAlgorithmClubTest at the level of its          *)
(* pointers.  next and head are strong references, previous is weak: a     *)
(* node lives while a chain of nexts reaches it from a list's head or from *)
(* a reference a caller holds, and a weak reference to a node that dies    *)
(* becomes nil (Collect).                                                  *)
(*                                                                         *)
(* A caller may hold one node it obtained from node(at:).  Indices and     *)
(* nodes passed in satisfy the assertions of the code.  Spec has the       *)
(* histories in which a node passed to append or insert is detached and    *)
(* insert(list, at:) is not called; SpecWithCopies has them all, and what  *)
(* the comments call a copy is none there.                                 *)
(***************************************************************************)
EXTENDS Naturals, FiniteSets, SequencesExt

CONSTANTS Lists, Values, None,
          Nodes       \* bound: the nodes that may live at once

ASSUME NodesAssumption == IsFiniteSet(Nodes) /\ None \notin Nodes
ASSUME ValuesAssumption == None \notin Values

VARIABLES next, previous, value, head,
          held        \* the node a caller holds, or None

vars == <<next, previous, value, head, held>>

Heap == [next |-> next, previous |-> previous, value |-> value, head |-> head]

(* node?.next *)
Following(h, n) == IF n = None THEN None ELSE h.next[n]

(* The nodes met from n on, n included, up to the one with no next; no     *)
(* more than there are nodes.                                              *)
WalkFrom(h, n) ==
  LET at[i \in 0..Cardinality(Nodes)] == IF i = 0 THEN n ELSE Following(h, at[i - 1])
      met == {i \in 1..Cardinality(Nodes) : at[i - 1] # None}
  IN  [i \in 1..Cardinality(met) |-> at[i - 1]]

Chain(h, l) == WalkFrom(h, h.head[l])
Contents(h, l) == LET c == Chain(h, l) IN [i \in 1..Len(c) |-> h.value[c[i]]]

(* node(at: i), counting from 0; last is the node a walk from head ends at. *)
NodeAt(h, l, i) == Chain(h, l)[i + 1]
LastNode(h, l) == Last(Chain(h, l))

(* The least set of nodes that holds those of starts and every next.       *)
ReachableFrom(h, starts) ==
  {n \in Nodes : \A S \in SUBSET Nodes :
     starts \cap Nodes \subseteq S /\ (\A m \in S : h.next[m] \in S \cup {None}) => n \in S}

(* Fault: a list refers to its first node weakly. *)
AliveWithoutHeads(h, roots) == ReachableFrom(h, roots)

(* Fault: previous is strong, so neighbours keep each other alive. *)
AliveWithCycles(h, roots) ==
  LET neighbours(m, n) == h.next[m] = n /\ h.previous[n] = m
  IN  ReachableFrom(h, roots \cup {h.head[l] : l \in Lists})
        \cup {n \in Nodes : \E m \in Nodes : neighbours(m, n) \/ neighbours(n, m)}

(* The nodes that live when the roots, besides the heads of the lists, are *)
(* those given.                                                            *)
Alive(h, roots) == ReachableFrom(h, roots \cup {h.head[l] : l \in Lists})

(* What reference counting leaves of h. *)
Collect(h, roots) ==
  LET alive == Alive(h, roots)
      kept(f) == [n \in Nodes |-> IF n \in alive THEN f[n] ELSE None]
      weak(n) == IF h.previous[n] \in alive THEN h.previous[n] ELSE None
  IN  [next |-> kept(h.next), previous |-> kept([n \in Nodes |-> weak(n)]),
       value |-> kept(h.value), head |-> h.head]

Free == {n \in Nodes : value[n] = None}

(* An operation leaves the heap h behind, and the caller holds the node n. *)
Become(h, n) ==
  LET c == Collect(h, {n})
  IN  /\ next' = c.next /\ previous' = c.previous
      /\ value' = c.value /\ head' = c.head
      /\ held' = n

Init ==
  /\ next = [n \in Nodes |-> None] /\ previous = [n \in Nodes |-> None]
  /\ value = [n \in Nodes |-> None] /\ head = [l \in Lists |-> None]
  /\ held = None

-----------------------------------------------------------------------------
(* The primitives, as functions of the heap. *)

SetNext(h, n, m) == IF n = None THEN h ELSE [h EXCEPT !.next[n] = m]
SetPrevious(h, n, m) == IF n = None THEN h ELSE [h EXCEPT !.previous[n] = m]
SetHead(h, l, n) == [h EXCEPT !.head[l] = n]

NewNode(h, n, v) == [h EXCEPT !.value[n] = v]

AppendNode(h, l, n) ==
  IF h.head[l] = None THEN SetHead(h, l, n)
  ELSE LET last == LastNode(h, l)
       IN  SetNext(SetPrevious(h, n, last), last, n)

(* Fault: the node behind the inserted one keeps its old previous. *)
InsertNodeHalf(h, l, n, i) ==
  IF i = 0
  THEN SetHead(SetNext(h, n, h.head[l]), l, n)
  ELSE LET prev == NodeAt(h, l, i - 1)
       IN  SetNext(SetNext(SetPrevious(h, n, prev), n, h.next[prev]), prev, n)

InsertNode(h, l, n, i) ==
  IF i = 0
  THEN SetHead(SetPrevious(SetNext(h, n, h.head[l]), h.head[l], n), l, n)
  ELSE LET prev == NodeAt(h, l, i - 1)
           nxt  == h.next[prev]
           h1   == SetNext(SetPrevious(h, n, prev), n, nxt)
       IN  SetNext(SetPrevious(h1, nxt, n), prev, n)

(* Fault: the head does not move when the first node goes. *)
RemoveNodeKeepingHead(h, l, n) ==
  LET prev == h.previous[n]
      nxt  == h.next[n]
      h1   == SetPrevious(SetNext(h, prev, nxt), nxt, prev)
  IN  SetNext(SetPrevious(h1, n, None), n, None)

RemoveNode(h, l, n) ==
  LET prev == h.previous[n]
      nxt  == h.next[n]
      h1   == IF prev # None THEN SetNext(h, prev, nxt) ELSE SetHead(h, l, nxt)
      h2   == SetPrevious(h1, nxt, prev)
  IN  SetNext(SetPrevious(h2, n, None), n, None)

(* The loop of append(list), map and filter: the values vs are appended    *)
(* one by one to l, each in a new node of ns.                              *)
AppendValues(h, l, ns, vs) ==
  LET after[i \in 0..Len(vs)] ==
        IF i = 0 THEN h ELSE AppendNode(NewNode(after[i - 1], ns[i], vs[i]), l, ns[i])
  IN  after[Len(vs)]

(* A turn of the loop of reverse, from the local variable node on.  Only   *)
(* node, currentNode and the list's own head keep nodes alive between two  *)
(* turns, while the strong and the weak pointer are swapped.               *)
Turn(t, l) ==
  IF t.node = None THEN t
  ELSE LET following == t.heap.next[t.node]
           swapped == SetPrevious(SetNext(t.heap, t.node, t.heap.previous[t.node]),
                                  t.node, following)
           moved   == SetHead(swapped, l, t.node)
       IN  [heap |-> Collect(moved, {following, held}), node |-> following]

(* reverse: a turn for every node. *)
ReverseHeap(h, l) ==
  LET after[i \in 0..Cardinality(Nodes)] ==
        IF i = 0 THEN [heap |-> h, node |-> h.head[l]] ELSE Turn(after[i - 1], l)
  IN  after[Cardinality(Nodes)].heap

-----------------------------------------------------------------------------
(* The operations. *)

AppendValue(l, v) ==
  \E n \in Free : Become(AppendNode(NewNode(Heap, n, v), l, n), held)

InsertValue(l, v, i) ==
  \E n \in Free : Become(InsertNode(NewNode(Heap, n, v), l, n, i), held)

InAList(n) == \E l \in Lists : n \in ToSet(Chain(Heap, l))

(* append(node) and insert(node, at:) with the node the caller holds.      *)
AppendHeld(l) == held # None /\ Become(AppendNode(Heap, l, held), held)
InsertHeld(l, i) == held # None /\ Become(InsertNode(Heap, l, held, i), held)

(* The caller holds a node that is in no list and has no next.             *)
Detached == held # None /\ ~InAList(held) /\ next[held] = None

(* As many nodes of Free as vs has values, in any order. *)
NewNodesFor(vs) == {ns \in [1..Len(vs) -> Free] : IsInjective(ns)}

AppendList(l, m) ==
  /\ l # m
  /\ \E ns \in NewNodesFor(Contents(Heap, m)) :
       Become(AppendValues(Heap, l, ns, Contents(Heap, m)), held)

(* m = l.map(f) and m = l.filter(keep): a new list, then the old m dies. *)
Assign(m, vs) ==
  \E ns \in NewNodesFor(vs) :
    Become(AppendValues(SetHead(Heap, m, None), m, ns, vs), held)

MapTo(l, m, f) ==
  LET vs == Contents(Heap, l) IN Assign(m, [i \in 1..Len(vs) |-> f[vs[i]]])

(* The loop of filter appends the values that satisfy the predicate.       *)
Kept(s, keep) ==
  LET after[i \in 0..Len(s)] ==
        IF i = 0 THEN <<>>
        ELSE IF s[i] \in keep THEN Append(after[i - 1], s[i]) ELSE after[i - 1]
  IN  after[Len(s)]

FilterTo(l, m, keep) == Assign(m, Kept(Contents(Heap, l), keep))

RemoveAll(l) == Become(SetHead(Heap, l, None), held)

RemoveHeld(l) ==
  /\ held \in ToSet(Chain(Heap, l))
  /\ Become(RemoveNode(Heap, l, held), held)

RemoveLast(l) ==
  /\ head[l] # None
  /\ Become(RemoveNode(Heap, l, LastNode(Heap, l)), held)

RemoveAtIndex(l, i) == Become(RemoveNode(Heap, l, NodeAt(Heap, l, i)), held)

ReverseList(l) == Become(ReverseHeap(Heap, l), held)

(* A caller takes hold of a node with node(at: i), or lets go. *)
Hold(l, i) == Become(Heap, NodeAt(Heap, l, i))
LetGo == held # None /\ Become(Heap, None)

(* insert(list, at: i), statement by statement: list.last is computed      *)
(* anew, by walking, each time it is read.                                 *)
InsertList(l, m, i) ==
  /\ l # m /\ head[m] # None
  /\ IF i = 0
     THEN Become(SetHead(SetNext(Heap, LastNode(Heap, m), head[l]), l, head[m]), held)
     ELSE LET prev == NodeAt(Heap, l, i - 1)
              nxt  == next[prev]
              h1   == SetPrevious(SetNext(Heap, prev, head[m]), head[m], prev)
              h2   == SetNext(h1, LastNode(h1, m), nxt)
          IN  Become(SetPrevious(h2, nxt, LastNode(h2, m)), held)

Size(l) == Len(Chain(Heap, l))

Next ==
  \/ \E l \in Lists, v \in Values : AppendValue(l, v)
  \/ \E l \in Lists, v \in Values : \E i \in 0..Size(l) : InsertValue(l, v, i)
  \/ \E l \in Lists : Detached /\ AppendHeld(l)
  \/ \E l \in Lists : \E i \in 0..Size(l) : Detached /\ InsertHeld(l, i)
  \/ \E l, m \in Lists : AppendList(l, m)
  \/ \E l, m \in Lists, f \in [Values -> Values] : MapTo(l, m, f)
  \/ \E l, m \in Lists, keep \in SUBSET Values : FilterTo(l, m, keep)
  \/ \E l \in Lists : RemoveAll(l)
  \/ \E l \in Lists : RemoveHeld(l)
  \/ \E l \in Lists : RemoveLast(l)
  \/ \E l \in Lists : \E i \in 0..(Size(l) - 1) : RemoveAtIndex(l, i)
  \/ \E l \in Lists : ReverseList(l)
  \/ \E l \in Lists : \E i \in 0..(Size(l) - 1) : Hold(l, i)
  \/ LetGo

(* The histories in which only detached nodes are passed back, without     *)
(* insert(list, at:).                                                      *)
Spec == Init /\ [][Next]_vars

(* No list goes round.  A walk along one that does would not return.       *)
EveryWalkEnds == \A l \in Lists : head[l] # None => next[LastNode(Heap, l)] = None

(* Every operation of the source, with any node and any other list passed: *)
(* removeAll alone does not walk.                                          *)
NextWithCopies ==
  \/ \E l \in Lists : RemoveAll(l)
  \/ /\ EveryWalkEnds
     /\ \/ Next
        \/ \E l \in Lists : AppendHeld(l)
        \/ \E l \in Lists : \E i \in 0..Size(l) : InsertHeld(l, i)
        \/ \E l, m \in Lists : \E i \in 0..Size(l) : InsertList(l, m, i)

SpecWithCopies == Init /\ [][NextWithCopies]_vars

-----------------------------------------------------------------------------
(* Every variable has its type, and every node a list is made of exists. *)
TypeOK ==
  /\ next \in [Nodes -> Nodes \cup {None}] /\ previous \in [Nodes -> Nodes \cup {None}]
  /\ value \in [Nodes -> Values \cup {None}] /\ head \in [Lists -> Nodes \cup {None}]
  /\ held \in Nodes \cup {None}
  /\ \A l \in Lists : \A n \in ToSet(Chain(Heap, l)) : value[n] \in Values

(* Between operations a list can be walked in both directions: previous    *)
(* undoes next and is nil at the head, which is what remove(node:) goes by *)
(* when it decides whether to move the head.                               *)
WellLinked ==
  \A l \in Lists :
    LET c == Chain(Heap, l)
    IN  c # <<>> => /\ previous[c[1]] = None
                    /\ next[Last(c)] = None
                    /\ \A i \in 1..(Len(c) - 1) : previous[c[i + 1]] = c[i]

(* No node is in two lists.  The comments say so of what append and insert *)
(* are given: "Append a copy of a node" (line 96), "Insert a copy of a     *)
(* node" (line 130), "Insert a copy of a LinkedList" (line 150).           *)
NoSharedNodes ==
  \A l, m \in Lists : l # m => ToSet(Chain(Heap, l)) \cap ToSet(Chain(Heap, m)) = {}

(* A node outlives its list only in a caller's hands: every node that is   *)
(* allocated is in a list or can be walked to from the node that is held.  *)
NothingElseLives ==
  \A n \in Nodes : value[n] # None =>
    InAList(n) \/ n \in ToSet(WalkFrom(Heap, held))

Abstract == INSTANCE ValueLists WITH contents <- [l \in Lists |-> Contents(Heap, l)]

(* Seen through their contents, the lists are sequences of values. *)
RefinesValueLists == Abstract!Spec
=============================================================================
