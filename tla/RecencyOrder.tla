---------------------------- MODULE RecencyOrder ----------------------------
(***************************************************************************)
(* Orders of use, as sequences without repetition, the most recently used  *)
(* element first.                                                          *)
(***************************************************************************)
EXTENDS Naturals, SequencesExt

(* The position of the element e of s. *)
PositionOf(s, e) == CHOOSE p \in DOMAIN s : e = s[p]

(* The sequence s with its element e brought to the front. *)
MoveToFront(s, e) == Cons(e, RemoveAt(s, PositionOf(s, e)))
=============================================================================
