---------------------------- MODULE LRUCacheNew -----------------------------
(***************************************************************************)
(* LRUCacheNew and its DoublyLinkedList, at the level of the pointers      *)
(* (SwiftAlgorithmClubTest/ViewController.swift).                          *)
(*                                                                         *)
(* The heap is two functions, next and prev, over the list's nodes and its *)
(* two sentinels; key and value are the payload of a node; cache is the    *)
(* dictionary; live is the set of nodes that reference counting has not    *)
(* released.  recency is a history variable: the keys in the order of      *)
(* their last use, kept as RecencyCache prescribes and read by no action.  *)
(* The invariants say that the pointers, which the code does follow, agree *)
(* with it.                                                                *)
(***************************************************************************)
EXTENDS Integers, RecencyOrder, FiniteSets

CONSTANTS Keys, Values, Capacity, None,
          Nodes,        \* the addresses list nodes may be allocated at
          HeadNode, TailNode    \* the sentinel nodes of the list

ASSUME CapacityAssumption == Capacity \in Int

(* The number of keys the cache really keeps: with a negative capacity it  *)
(* evicts the only key it has just put, as with a capacity of 0.           *)
EffectiveCapacity == IF Capacity >= 0 THEN Capacity ELSE 0

ASSUME NodeAssumption ==
  /\ IsFiniteSet(Keys) /\ IsFiniteSet(Nodes)
  /\ Cardinality(Nodes) > EffectiveCapacity
  /\ HeadNode \notin Nodes /\ TailNode \notin Nodes /\ HeadNode # TailNode
  /\ None \notin Nodes \cup {HeadNode, TailNode}
  /\ None \notin Values /\ None \notin Keys

VARIABLES next, prev, key, value, cache, live, result, recency

vars == <<next, prev, key, value, cache, live, result, recency>>

AllNodes == Nodes \cup {HeadNode, TailNode}

Resident == {k \in Keys : cache[k] # None}

store == [k \in Keys |-> IF cache[k] = None THEN None ELSE value[cache[k]]]

LRU == INSTANCE RecencyCache WITH order <- recency, store <- store,
                                  Capacity <- EffectiveCapacity

-----------------------------------------------------------------------------
(* DoublyLinkedList.  A heap h is the pair of pointer functions; the two   *)
(* setters are Swift's optional chaining, which skips a nil receiver.      *)

SetNext(h, n, m) == IF n = None THEN h ELSE [h EXCEPT !.next[n] = m]
SetPrev(h, n, m) == IF n = None THEN h ELSE [h EXCEPT !.prev[n] = m]

AddToHead(h, n) ==
  LET h1 == SetPrev(SetNext(h, n, h.next[HeadNode]), n, HeadNode)
      h2 == SetPrev(h1, h1.next[HeadNode], n)
  IN  SetNext(h2, HeadNode, n)

RemoveNode(h, n) ==
  LET h1 == SetNext(h, h.prev[n], h.next[n])
  IN  SetPrev(h1, h1.next[n], h1.prev[n])

(* Fault: moveToHead forgets to take the node out of its place first. *)
MoveToHeadTwice(h, n) == AddToHead(h, n)

MoveToHead(h, n) == AddToHead(RemoveNode(h, n), n)

(* Fault: the node nearest to the head is taken for the last one. *)
FirstNode(h) == IF h.next[HeadNode] = TailNode THEN None ELSE h.next[HeadNode]

(* The node removeTail detaches and returns, or None on an empty list. *)
LastNode(h) == IF h.prev[TailNode] = HeadNode THEN None ELSE h.prev[TailNode]

-----------------------------------------------------------------------------
heap == [next |-> next, prev |-> prev]

SetHeap(h) == next' = h.next /\ prev' = h.prev

(* Fault: the initialiser of a node drops the key it is given. *)
NewKeyUnset(n, k) == key

(* The keys of the nodes once n is created for the key k. *)
NewKey(n, k) == [key EXCEPT ![n] = k]

(* Fault: the evicted key keeps its entry in the dictionary. *)
KeepEntry(c, kf, e) == c

(* The dictionary c without the entry of the key that the evicted node e   *)
(* carries, if a node is evicted.                                          *)
DropEntry(c, kf, e) == IF e = None THEN c ELSE [c EXCEPT ![kf[e]] = None]

(* A payload or pointer function with the fields of released nodes gone. *)
Scrub(f, kept) ==
  [m \in AllNodes |-> IF m \in kept \cup {HeadNode, TailNode} THEN f[m] ELSE None]

(* Whether anything that outlives the call still holds a strong reference  *)
(* to n: a dictionary entry of c or a pointer of another live node or of a *)
(* sentinel of the heap h (next and prev are both strong).                 *)
Retained(n, h, c, others) ==
  \/ \E k \in Keys : c[k] = n
  \/ \E m \in others \cup {HeadNode, TailNode} : h.next[m] = n \/ h.prev[m] = n

Init ==
  /\ next = [[n \in AllNodes |-> None] EXCEPT ![HeadNode] = TailNode]
  /\ prev = [[n \in AllNodes |-> None] EXCEPT ![TailNode] = HeadNode]
  /\ key = [n \in AllNodes |-> None]
  /\ value = [n \in AllNodes |-> None]
  /\ cache = [k \in Keys |-> None]
  /\ live = {}
  /\ result = None
  /\ recency = <<>>

GetHit(k) ==
  /\ cache[k] # None
  /\ SetHeap(MoveToHead(heap, cache[k]))
  /\ result' = value[cache[k]]
  /\ recency' = MoveToFront(recency, k)
  /\ UNCHANGED <<key, value, cache, live>>

GetMiss(k) ==
  /\ cache[k] = None
  /\ result' = None
  /\ UNCHANGED <<next, prev, key, value, cache, live, recency>>

PutHit(k, v) ==
  /\ cache[k] # None
  /\ value' = [value EXCEPT ![cache[k]] = v]
  /\ SetHeap(MoveToHead(heap, cache[k]))
  /\ recency' = MoveToFront(recency, k)
  /\ UNCHANGED <<key, cache, live, result>>

(* The insertion of a new node, and the eviction that may follow it.  e is *)
(* the node removeTail returns; the call's own references die with it, so  *)
(* e is released unless something else still retains it.                   *)
Insert(k, v, n) ==
  LET c1 == [cache EXCEPT ![k] = n]
      h1 == AddToHead(heap, n)
      key1 == NewKey(n, k)
      over == Cardinality({j \in Keys : c1[j] # None}) > Capacity
      e == IF over THEN LastNode(h1) ELSE None
      c2 == DropEntry(c1, key1, e)
      h2 == IF e = None THEN h1 ELSE RemoveNode(h1, e)
      others == (live \cup {n}) \ {e}
      kept == IF e = None \/ Retained(e, h2, c2, others)
              THEN live \cup {n} ELSE others
  IN  /\ cache' = c2
      /\ live' = kept
      /\ key' = Scrub(key1, kept)
      /\ value' = Scrub([value EXCEPT ![n] = v], kept)
      /\ SetHeap([next |-> Scrub(h2.next, kept), prev |-> Scrub(h2.prev, kept)])

(* recency grows by k and, beyond the capacity, loses its last key. *)
PutMiss(k, v) ==
  /\ cache[k] = None
  /\ \E n \in Nodes \ live : Insert(k, v, n)
  /\ LET grown == Cons(k, recency)
     IN  recency' = IF Len(grown) > EffectiveCapacity THEN Front(grown) ELSE grown
  /\ UNCHANGED result

Get(k) == GetHit(k) \/ GetMiss(k)
Put(k, v) == PutHit(k, v) \/ PutMiss(k, v)

Next == \E k \in Keys : Get(k) \/ \E v \in Values : Put(k, v)

Spec == Init /\ [][Next]_vars

-----------------------------------------------------------------------------
(* Every variable has its type, and every node the list can reach carries  *)
(* a key and a value: put may force-unwrap tailNode.key (line 85).         *)
TypeOK ==
  /\ next \in [AllNodes -> AllNodes \cup {None}]
  /\ prev \in [AllNodes -> AllNodes \cup {None}]
  /\ key \in [AllNodes -> Keys \cup {None}]
  /\ value \in [AllNodes -> Values \cup {None}]
  /\ cache \in [Keys -> Nodes \cup {None}]
  /\ live \subseteq Nodes
  /\ result \in Values \cup {None}
  /\ recency \in Seq(Keys)
  /\ \A n \in live : key[n] \in Keys /\ value[n] \in Values

(* The node at position i of the list the recency order calls for, with    *)
(* the sentinels before the first and after the last position.             *)
At(i) == IF i = 0 THEN HeadNode
         ELSE IF i > Len(recency) THEN TailNode ELSE cache[recency[i]]

(* The two-way list that get, put, moveToHead and removeTail keep splicing *)
(* is, from head to tail and from tail to head, exactly the resident keys  *)
(* in the order of their last use, each once.                              *)
ListMirrorsRecency ==
  /\ \A i \in 0..Len(recency) : next[At(i)] = At(i + 1) /\ prev[At(i + 1)] = At(i)
  /\ prev[HeadNode] = None /\ next[TailNode] = None
  /\ IsInjective(recency)
  /\ Resident = ToSet(recency)

(* The dictionary and the nodes name each other: the entry of a key is a   *)
(* live node that carries this key, so evicting by tailNode.key (line 85)  *)
(* drops the entry of the node that left the list.                         *)
CacheNamesItsNode ==
  \A k \in Resident : cache[k] \in live /\ key[cache[k]] = k

(* The strong prev pointers of the list keep no evicted node alive: the    *)
(* live nodes are those of the resident keys, never more than the capacity *)
EvictedNodesReleased ==
  /\ live = {cache[k] : k \in Resident}
  /\ Cardinality(Resident) <= EffectiveCapacity

(* The cache behaves, call by call and answer by answer, as RecencyCache. *)
RefinesLRU == LRU!Spec
=============================================================================
