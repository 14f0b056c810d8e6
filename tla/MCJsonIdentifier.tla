-------------------------- MODULE MCJsonIdentifier --------------------------
(* Two keys of which one is a prefix of the other, and short texts.  That  *)
(* true is printed like 1 is left aside: the numbers and the truth values  *)
(* here have no digit in common.                                           *)
EXTENDS JsonIdentifier

A == 10
B == 11
MCKeys == {<<A>>, <<A, B>>}
MCTexts == {<<A>>, <<B>>, <<B, A>>}
MCNumbers == {1}
MCTruths == {FALSE}
=============================================================================
