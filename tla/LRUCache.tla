------------------------------ MODULE LRUCache ------------------------------
(***************************************************************************)
(* LRUCache (SwiftAlgorithmClubTest/LRUCache.swift): a dictionary of       *)
(* values, an array of keys by recency of use, and a dictionary of list    *)
(* nodes that is read only to decide whether remove has anything to do.    *)
(*                                                                         *)
(* The values are of type Any, but insert casts each to the key type and   *)
(* the process dies where the cast fails: trapped.  The cast comes after   *)
(* the first two writes of insert and before the third.                    *)
(***************************************************************************)
EXTENDS Integers, RecencyOrder

CONSTANTS Keys, Values, None,
          KeyTyped,   \* the values the cast to the key type accepts
          maxSize     \* what the initialiser was given

ASSUME MaxSizeAssumption == maxSize \in Int
ASSUME ValueAssumption == KeyTyped \subseteq Values /\ None \notin Values

VARIABLES cache, priority, key2node, trapped, result

vars == <<cache, priority, key2node, trapped, result>>

Resident == {k \in Keys : cache[k] # None}

(* The number of keys the code really keeps: with a maxSize of 0 or less   *)
(* the array has no last key to remove before the first insertion.         *)
EffectiveCapacity == IF maxSize >= 1 THEN maxSize ELSE 1

LRU == INSTANCE RecencyCache WITH order <- priority, store <- cache,
                                  Capacity <- EffectiveCapacity

Books == [cache |-> cache, priority |-> priority, key2node |-> key2node]

(* Fault: remove leaves the node dictionary alone. *)
RemoveKeepingNode(b, k) ==
  IF k \notin b.key2node THEN b
  ELSE [cache    |-> [b.cache EXCEPT ![k] = None],
        priority |-> RemoveAt(b.priority, PositionOf(b.priority, k)),
        key2node |-> b.key2node]

(* remove(key): what it makes of the books b. *)
Remove1(b, k) ==
  IF k \notin b.key2node THEN b
  ELSE [cache    |-> [b.cache EXCEPT ![k] = None],
        priority |-> IF \E i \in 1..Len(b.priority) : b.priority[i] = k
                     THEN RemoveAt(b.priority, PositionOf(b.priority, k))
                     ELSE b.priority,
        key2node |-> b.key2node \ {k}]

(* Fault: insert records the node under the value. *)
InsertUnderValue(b, k, v) ==
  [cache    |-> [b.cache EXCEPT ![k] = v],
   priority |-> Cons(k, b.priority),
   key2node |-> IF v \in KeyTyped THEN b.key2node \cup {v} ELSE b.key2node]

(* insert(key, val): the cast of val decides whether the node is recorded. *)
Insert1(b, k, v) ==
  [cache    |-> [b.cache EXCEPT ![k] = v],
   priority |-> Cons(k, b.priority),
   key2node |-> IF v \in KeyTyped THEN b.key2node \cup {k} ELSE b.key2node]

Init == /\ cache = [k \in Keys |-> None]
        /\ priority = <<>>
        /\ key2node = {}
        /\ trapped = FALSE
        /\ result = None

SetBooks(b) == /\ cache' = b.cache
               /\ priority' = b.priority
               /\ key2node' = b.key2node

get(k) ==
  /\ ~trapped
  /\ IF cache[k] = None
     THEN /\ result' = None
          /\ UNCHANGED <<cache, priority, key2node, trapped>>
     ELSE /\ SetBooks(Insert1(Remove1(Books, k), k, cache[k]))
          /\ trapped' = (cache[k] \notin KeyTyped)
          /\ result' = IF trapped' THEN result ELSE cache[k]

(* Fault: set makes room one key too late. *)
MadeRoomLate(k) ==
  IF cache[k] # None THEN Remove1(Books, k)
  ELSE IF Len(priority) > maxSize /\ priority # <<>>
       THEN Remove1(Books, Last(priority))
       ELSE Books

(* The books as set leaves them to insert: without the key itself, or      *)
(* without the last key when the array is full.                            *)
MadeRoom(k) ==
  IF cache[k] # None THEN Remove1(Books, k)
  ELSE IF Len(priority) >= maxSize /\ priority # <<>>
       THEN Remove1(Books, Last(priority))
       ELSE Books

(* Fault: the cast is conditional, a value it rejects is stored anyway. *)
setUnchecked(k, v) ==
  /\ ~trapped
  /\ SetBooks(Insert1(MadeRoom(k), k, v))
  /\ UNCHANGED <<trapped, result>>

set(k, v) ==
  /\ ~trapped
  /\ SetBooks(Insert1(MadeRoom(k), k, v))
  /\ trapped' = (v \notin KeyTyped)
  /\ UNCHANGED result

Next == \E k \in Keys : get(k) \/ \E v \in Values : set(k, v)

Spec == Init /\ [][Next]_vars

-----------------------------------------------------------------------------
(* Every variable has its type. *)
TypeOK ==
  /\ cache \in [Keys -> Values \cup {None}]
  /\ priority \in Seq(Keys)
  /\ key2node \subseteq Keys
  /\ trapped \in BOOLEAN
  /\ result \in Values \cup {None}

(* The three collections name the same keys and the array names each once, *)
(* so that remove always finds the index it looks for (the branch at line  *)
(* 53 is dead).  The cast that kills the process leaves the new key, and   *)
(* only it, without a node.                                                *)
BooksAgree ==
  /\ IsInjective(priority)
  /\ Resident = ToSet(priority)
  /\ key2node = Resident \ (IF trapped THEN {Head(priority)} ELSE {})

(* A value that would fail the cast is never in the cache of a process     *)
(* that is still alive, so get, which casts again, cannot be the call that *)
(* traps.                                                                  *)
GetNeverTraps == \A k \in Keys : ~trapped /\ cache[k] # None => cache[k] \in KeyTyped

(* Until the process dies, and in the books it dies with, the cache is a   *)
(* RecencyCache that holds maxSize keys, or one if maxSize is less.        *)
RefinesLRU == LRU!Spec
=============================================================================
