--------------------------- MODULE JsonIdentifier ---------------------------
(***************************************************************************)
(* JsonTest: generateJsonUniqueIdentifier turns a JSON document into one   *)
(* string, which the app then hashes.  The strings of a document, and the  *)
(* keys, matter here letter by letter, because the identifier is their     *)
(* concatenation: a text is a sequence of characters, and a character is a *)
(* number, so that texts can be sorted.                                    *)
(*                                                                         *)
(* External: JSONSerialization, which gives a number or a truth value as   *)
(* an NSNumber that Swift lets pass for an Int if it is integral (true is  *)
(* then 1), and null as an object of no type the switch names.             *)
(***************************************************************************)
EXTENDS Naturals, FiniteSets, SequencesExt

CONSTANTS
  Keys,          \* the keys a dictionary may have, texts
  Texts,         \* the strings a document may hold
  Numbers,       \* its integers, from 0 to 9
  Truths,        \* its truth values
  MaxDocuments   \* bound: documents the app is given

VARIABLE printed    \* the documents so far, each with the identifier printed

Text(t) == [is |-> "string", text |-> t]
Number(n) == [is |-> "number", number |-> n]
Truth(b) == [is |-> "truth", truth |-> b]
Null == [is |-> "null"]
List(values) == [is |-> "list", values |-> values]
Dict(values) == [is |-> "dict", values |-> values]

(* The characters of a digit, and of the text UnknownType. *)
Digit(n) == <<n>>
UnknownType == <<99>>

(* json.keys.sorted() *)
Before(s, t) ==
  \E n \in 0..Len(s) :
    /\ n <= Len(t) /\ SubSeq(s, 1, n) = SubSeq(t, 1, n)
    /\ n < Len(t) /\ (n = Len(s) \/ s[n + 1] < t[n + 1])

SortedKeys(values) == SetToSortSeq(DOMAIN values, Before)

RECURSIVE generateJsonUniqueIdentifier(_, _)

(* The parent's text, and then what the value adds to it: a list or a      *)
(* dictionary the identifiers of its members, each with its index or key   *)
(* for parent, and nothing in between.                                     *)
generateJsonUniqueIdentifier(json, parent) ==
  parent \o
  CASE json.is = "dict" ->
         FlattenSeq([i \in 1..Len(SortedKeys(json.values)) |->
           LET key == SortedKeys(json.values)[i]
           IN  generateJsonUniqueIdentifier(json.values[key], key)])
    [] json.is = "list" ->
         FlattenSeq([i \in 1..Len(json.values) |->
           generateJsonUniqueIdentifier(json.values[i], Digit(i - 1))])
    [] json.is = "string" -> json.text
    [] json.is = "number" -> Digit(json.number)
    [] json.is = "truth" -> Digit(IF json.truth THEN 1 ELSE 0)
    [] json.is = "null" -> UnknownType

-----------------------------------------------------------------------------
Leaves == {Text(t) : t \in Texts} \cup {Number(n) : n \in Numbers}
            \cup {Truth(b) : b \in Truths} \cup {Null}

DictsOf(values) == UNION {{Dict(f) : f \in [ks -> values]} : ks \in SUBSET Keys}

(* Dictionaries, as the app asks for, of values at most one level deep. *)
Documents == DictsOf(Leaves \cup {List(<<v>>) : v \in Leaves} \cup DictsOf(Leaves))

Init == printed = {}

(* testJsonUniqueIdentifierEvent, for the document in its source text. *)
Generate(json) ==
  /\ Cardinality(printed) < MaxDocuments
  /\ printed' = printed \cup {<<json, generateJsonUniqueIdentifier(json, <<>>)>>}

Next == \E json \in Documents : Generate(json)

Spec == Init /\ [][Next]_printed

-----------------------------------------------------------------------------
(* "Recursively generates a unique identifier" (line 115): two documents   *)
(* that differ have different identifiers.                                 *)
IdentifiersUnique ==
  \A p, q \in printed : p[2] = q[2] => p[1] = q[1]
=============================================================================
