---------------------------- MODULE RecencyCache ----------------------------
(***************************************************************************)
(* What the two caches of SwiftAlgorithmClubTest promise, apart from how   *)
(* they keep their books: a bounded map from keys to values that drops the *)
(* key whose last use (a put, or a get that hits) lies furthest back.      *)
(*                                                                         *)
(* order  is the resident keys, most recently used first;                  *)
(* store  maps a key to its value, or to None when it is not resident;     *)
(* result is what the last get handed to its caller.                       *)
(***************************************************************************)
EXTENDS RecencyOrder

CONSTANTS Keys,      \* what callers use as keys
          Values,    \* what callers store, None not among them
          Capacity,  \* how many keys may be resident after a put
          None       \* Swift's nil

VARIABLES order, store, result

vars == <<order, store, result>>

Resident == {k \in Keys : store[k] # None}

Init == /\ order = <<>>
        /\ store = [k \in Keys |-> None]
        /\ result = None

(* A get that hits refreshes the key; one that misses changes nothing. *)
Get(k) ==
  /\ result' = store[k]
  /\ order' = IF k \in Resident THEN MoveToFront(order, k) ELSE order
  /\ UNCHANGED store

(* A put of a resident key overwrites its value and refreshes it. *)
PutResident(k, v) ==
  /\ k \in Resident
  /\ order' = MoveToFront(order, k)
  /\ store' = [store EXCEPT ![k] = v]
  /\ UNCHANGED result

(* A put of a new key below capacity evicts nothing. *)
PutNew(k, v) ==
  /\ k \notin Resident
  /\ Len(order) < Capacity
  /\ order' = Cons(k, order)
  /\ store' = [store EXCEPT ![k] = v]
  /\ UNCHANGED result

(* A put of a new key at capacity evicts the key used least recently: the  *)
(* last of the others, or the new key itself when Capacity is 0.           *)
PutEvict(k, v) ==
  /\ k \notin Resident
  /\ Len(order) >= Capacity
  /\ LET grown  == Cons(k, order)
         victim == Last(grown)
     IN  /\ order' = Front(grown)
         /\ store' = [[store EXCEPT ![k] = v] EXCEPT ![victim] = None]
  /\ UNCHANGED result

Put(k, v) == PutResident(k, v) \/ PutNew(k, v) \/ PutEvict(k, v)

Next == \E k \in Keys : Get(k) \/ \E v \in Values : Put(k, v)

Spec == Init /\ [][Next]_vars
=============================================================================
