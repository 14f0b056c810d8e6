---------------------------- MODULE MCSpotStore -----------------------------
(* SpotStore with a file that has every kind of item for table ac: one     *)
(* that repeats an earlier value of column as, one that repeats a value of *)
(* column ac of an item that was itself ignored, and one that the decoder  *)
(* rejects between items it accepts; and a repeated key for table sc.      *)
EXTENDS SpotStore

AC(ac, as) == [unique |-> {<<"ac", ac>>, <<"as", as>>}, decodable |-> TRUE]
SC(s) == [unique |-> {<<"s", s>>}, decodable |-> TRUE]
Broken == [unique |-> {}, decodable |-> FALSE]

ConfigFile ==
  [t \in {"ac", "sc"} |->
     IF t = "ac"
     THEN <<AC("ksm", "x"), AC("btc", "x"), Broken, AC("btc", "y"), AC("eth", "y")>>
     ELSE <<SC("p"), Broken, SC("p"), SC("q")>>]

FetchLimits == {0, 1, 2, 3}
=============================================================================
