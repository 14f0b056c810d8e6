----------------------------- MODULE ValueLists -----------------------------
(***************************************************************************)
(* What LinkedList.swift promises its callers: each list is a sequence of  *)
(* values, and an operation changes the list it is called on and no other. *)
(***************************************************************************)
EXTENDS Naturals, SequencesExt

CONSTANTS Lists, Values

VARIABLE contents     \* contents[l]: the values of the list l, in order

Init == contents = [l \in Lists |-> <<>>]

Become(l, s) == contents' = [contents EXCEPT ![l] = s]

Insert(l, i, v) == i \in 0..Len(contents[l]) /\ Become(l, InsertAt(contents[l], i + 1, v))
RemoveAtIndex(l, i) == i \in 1..Len(contents[l]) /\ Become(l, RemoveAt(contents[l], i))
RemoveAll(l) == Become(l, <<>>)
Reversed(l) == Become(l, Reverse(contents[l]))
AppendList(l, m) == l # m /\ Become(l, contents[l] \o contents[m])

(* The list m is assigned what l.map or l.filter returned. *)
Mapped(l, m, f) == Become(m, [i \in 1..Len(contents[l]) |-> f[contents[l][i]]])

(* What is left are the values at the positions that satisfy keep, in      *)
(* their order.                                                            *)
Filtered(l, m, keep) ==
  LET s == contents[l]
      Enumerates(g) == /\ \A i, j \in DOMAIN g : i < j => g[i] < g[j]
                       /\ {g[i] : i \in DOMAIN g} = {i \in 1..Len(s) : s[i] \in keep}
  IN  \E k \in 0..Len(s) : \E g \in [1..k -> 1..Len(s)] :
        Enumerates(g) /\ Become(m, [i \in 1..k |-> s[g[i]]])

Next == \E l, m \in Lists :
  \/ \E i \in 0..Len(contents[l]), v \in Values : Insert(l, i, v)
  \/ \E i \in 1..Len(contents[l]) : RemoveAtIndex(l, i)
  \/ RemoveAll(l) \/ Reversed(l) \/ AppendList(l, m)
  \/ \E f \in [Values -> Values] : Mapped(l, m, f)
  \/ \E keep \in SUBSET Values : Filtered(l, m, keep)

Spec == Init /\ [][Next]_contents
=============================================================================
