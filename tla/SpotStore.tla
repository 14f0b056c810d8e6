----------------------------- MODULE SpotStore ------------------------------
(***************************************************************************)
(* The import of the bundled configuration into SQLite by the LBSpotStore  *)
(* app, at every launch: ViewController.jsonToDB, LBSpotACStore,           *)
(* LBSpotSCStore and the queue they share (LBGRDBStore.dbQueue).           *)
(*                                                                         *)
(* The process may die at any step; a call into the database may fail at   *)
(* any step.  External: SQLite through GRDB.  A transaction is invisible   *)
(* until it commits and gone if the process dies; INSERT OR IGNORE skips a *)
(* row that repeats a value of a unique column.                            *)
(*                                                                         *)
(* An item is a record of the values it has in unique columns, as pairs    *)
(* <<column, value>> (columns ac and as of table ac, column s of table sc) *)
(* and of whether the decoder accepts it.                                  *)
(***************************************************************************)
EXTENDS Naturals, FiniteSets, SequencesExt

CONSTANTS
  Config,      \* Config[t]: the items for the table t, as the file lists them
  MaxCrashes,  \* bound: deaths of the process
  MaxFaults,   \* bound: failing calls into the database
  MaxDeletes,  \* bound: deletions by a caller
  Limits       \* the limits a caller of fetch passes

Tables == {"ac", "sc"}

Items(t) == ToSet(Config[t])

ASSUME ConfigAssumption ==
  /\ \A t \in Tables : /\ Config[t] \in Seq(Items(t))
                       /\ \A item \in Items(t) : item.decodable \in BOOLEAN
  /\ MaxCrashes \in Nat /\ MaxFaults \in Nat /\ MaxDeletes \in Nat

VARIABLES
  pc,        \* where the launch is; "up" once viewDidLoad has returned
  table,     \* the table the launch is at
  dbOpen,    \* whether dbQueue is not nil in this process
  created,   \* the tables that exist on disk
  disk,      \* disk[t]: the committed rows of t
  txn,       \* the rows of the table as the open transaction sees them
  at,        \* the next item the open transaction inserts
  fetched,   \* what the last fetch answered
  crashes, faults, deletes      \* what is left of the bounds

vars == <<pc, table, dbOpen, created, disk, txn, at, fetched, crashes, faults, deletes>>
launch == <<pc, table, txn, at>>
bounds == <<crashes, faults, deletes>>

(* jsonToDB: an item the decoder rejects is reported and left out.  What   *)
(* remains, as positions in the file.                                      *)
Batch(t) == {i \in 1..Len(Config[t]) : Config[t][i].decodable}

(* The part of a batch that the open transaction has still to insert. *)
Left == {i \in Batch(table) : i >= at}

Conflicts(row, item) == row.unique \cap item.unique # {}

(* Fault: the conflict is resolved in favour of the new row. *)
InsertOrReplace(rows, item) == {row \in rows : ~Conflicts(row, item)} \cup {item}

(* INSERT OR IGNORE of one item into a set of rows. *)
InsertOrIgnore(rows, item) ==
  IF \E row \in rows : Conflicts(row, item) THEN rows ELSE rows \cup {item}

NothingFetched == [rows |-> {}, more |-> FALSE, ok |-> FALSE]

Init ==
  /\ pc = "down" /\ table = "ac" /\ dbOpen = FALSE /\ created = {}
  /\ disk = [t \in Tables |-> {}] /\ txn = {} /\ at = 1
  /\ fetched = NothingFetched
  /\ crashes = MaxCrashes /\ faults = MaxFaults /\ deletes = MaxDeletes

Fault == faults > 0 /\ faults' = faults - 1 /\ UNCHANGED <<crashes, deletes>>

(* The first use of dbQueue opens the file; if that fails it stays nil. *)
Launch ==
  /\ pc = "down"
  /\ pc' = "create" /\ table' = "ac"
  /\ \/ dbOpen' = TRUE /\ UNCHANGED bounds
     \/ dbOpen' = FALSE /\ Fault
  /\ UNCHANGED <<created, disk, txn, at, fetched>>

(* The initialisers of acStore and scStore, one after the other; a failure *)
(* to create the table is printed and otherwise ignored.                   *)
CreateTable ==
  /\ pc = "create"
  /\ \/ /\ dbOpen
        /\ created' = created \cup {table}
        /\ UNCHANGED bounds
     \/ /\ dbOpen /\ Fault
        /\ UNCHANGED created
     \/ /\ ~dbOpen
        /\ UNCHANGED <<created, bounds>>
  /\ IF table = "ac" THEN table' = "sc" /\ pc' = "create"
                     ELSE table' = "ac" /\ pc' = "begin"
  /\ UNCHANGED <<dbOpen, disk, txn, at, fetched>>

(* Fault: the rows of one import are carried into the next. *)
ImportOverUnreset ==
  /\ IF table = "ac" THEN table' = "sc" /\ pc' = "begin"
                     ELSE table' = table /\ pc' = "up"
  /\ txn' = txn /\ at' = 1

(* The import of a table is over, committed or not: the next one, or done. *)
ImportOver ==
  /\ IF table = "ac" THEN table' = "sc" /\ pc' = "begin"
                     ELSE table' = table /\ pc' = "up"
  /\ txn' = {} /\ at' = 1

BeginTransaction ==
  /\ pc = "begin"
  /\ \/ /\ dbOpen
        /\ pc' = "insert" /\ txn' = disk[table] /\ at' = 1
        /\ UNCHANGED <<table, bounds>>
     \/ dbOpen /\ Fault /\ ImportOver
     \/ ~dbOpen /\ ImportOver /\ UNCHANGED bounds
  /\ UNCHANGED <<dbOpen, created, disk, fetched>>

(* Fault: every insertion is a transaction of its own. *)
InsertItemAlone ==
  /\ pc = "insert" /\ Left # {} /\ table \in created
  /\ txn' = InsertOrIgnore(txn, Config[table][Min(Left)])
  /\ disk' = [disk EXCEPT ![table] = txn']
  /\ at' = Min(Left) + 1
  /\ UNCHANGED <<pc, table, bounds, dbOpen, created, fetched>>

(* Fault: an insertion that fails ends the launch, not just its import. *)
InsertItemThrowing ==
  /\ pc = "insert" /\ Left # {}
  /\ \/ /\ table \in created
        /\ txn' = InsertOrIgnore(txn, Config[table][Min(Left)])
        /\ at' = Min(Left) + 1
        /\ UNCHANGED <<pc, table, bounds>>
     \/ /\ IF table \in created THEN Fault ELSE UNCHANGED bounds
        /\ pc' = "up" /\ txn' = {} /\ at' = 1 /\ UNCHANGED table
  /\ UNCHANGED <<dbOpen, created, disk, fetched>>

(* One item.onConflict(.ignore); an error rolls the transaction back. *)
InsertItem ==
  /\ pc = "insert" /\ Left # {}
  /\ \/ /\ table \in created
        /\ txn' = InsertOrIgnore(txn, Config[table][Min(Left)])
        /\ at' = Min(Left) + 1
        /\ UNCHANGED <<pc, table, bounds>>
     \/ table \in created /\ Fault /\ ImportOver
     \/ table \notin created /\ ImportOver /\ UNCHANGED bounds
  /\ UNCHANGED <<dbOpen, created, disk, fetched>>

CommitTransaction ==
  /\ pc = "insert" /\ Left = {}
  /\ \/ disk' = [disk EXCEPT ![table] = txn] /\ UNCHANGED bounds
     \/ disk' = disk /\ Fault
  /\ ImportOver
  /\ UNCHANGED <<dbOpen, created, fetched>>

(* deleteSpotDBACItem(s) with the given values of column ac.  Both stores  *)
(* have these methods, and in both they work on the table ac.              *)
DeleteItems(acs) ==
  /\ pc = "up" /\ deletes > 0
  /\ \/ /\ dbOpen /\ "ac" \in created
        /\ disk' = [disk EXCEPT !["ac"] =
                      {row \in @ : row.unique \cap {<<"ac", a>> : a \in acs} = {}}]
        /\ UNCHANGED faults
     \/ dbOpen /\ faults > 0 /\ faults' = faults - 1 /\ UNCHANGED disk
     \/ ~(dbOpen /\ "ac" \in created) /\ UNCHANGED <<disk, faults>>
  /\ deletes' = deletes - 1
  /\ UNCHANGED <<launch, dbOpen, created, fetched, crashes>>

(* Fault: a full page is not taken for a sign that there is more. *)
MoreThan(rows, limit) == Cardinality(rows) > limit

(* fetchSpotDBACItems(limit), of either store: at most limit rows of the   *)
(* table ac, and whether there were as many as asked for.  A read that     *)
(* fails is answered like an empty table.                                  *)
More(rows, limit) == Cardinality(rows) = limit

FetchItems(limit) ==
  /\ pc = "up"
  /\ \/ /\ dbOpen /\ "ac" \in created
        /\ \E rows \in SUBSET disk["ac"] :
             /\ \/ Cardinality(rows) = limit
                \/ Cardinality(rows) < limit /\ rows = disk["ac"]
             /\ fetched' = [rows |-> rows, more |-> More(rows, limit), ok |-> TRUE]
        /\ UNCHANGED bounds
     \/ /\ fetched' = [rows |-> {}, more |-> More({}, limit), ok |-> FALSE]
        /\ IF dbOpen /\ "ac" \in created THEN Fault ELSE UNCHANGED bounds
  /\ UNCHANGED <<launch, dbOpen, created, disk, deletes>>

Crash ==
  /\ pc # "down" /\ crashes > 0
  /\ pc' = "down" /\ table' = "ac" /\ dbOpen' = FALSE /\ txn' = {} /\ at' = 1
  /\ fetched' = NothingFetched
  /\ crashes' = crashes - 1
  /\ UNCHANGED <<created, disk, faults, deletes>>

AcNames == UNION {{u[2] : u \in {w \in Config["ac"][i].unique : w[1] = "ac"}} :
                    i \in 1..Len(Config["ac"])}

LaunchStep == Launch \/ CreateTable \/ BeginTransaction \/ InsertItem \/ CommitTransaction

Next ==
  \/ LaunchStep
  \/ \E acs \in SUBSET AcNames \ {{}} : DeleteItems(acs)
  \/ \E limit \in Limits : FetchItems(limit)
  \/ Crash

(* A launch, once begun or wanted, is not abandoned; nothing else is fair. *)
Spec == Init /\ [][Next]_vars /\ WF_vars(LaunchStep)

-----------------------------------------------------------------------------
(* Of the items of a batch, those that a set of rows lets in: an item is   *)
(* let in if it conflicts with none of the rows, and with no item let in   *)
(* that the file lists before it.                                          *)
LetIn(t, rows, W) ==
  \A i \in Batch(t) :
    i \in W <=> /\ \A row \in rows : ~Conflicts(row, Config[t][i])
               /\ \A j \in W : j < i => ~Conflicts(Config[t][j], Config[t][i])

(* What a whole batch makes of a set of rows. *)
Imported(t, rows) ==
  rows \cup {Config[t][i] : i \in CHOOSE W \in SUBSET Batch(t) : LetIn(t, rows, W)}

(* Every variable has its type. *)
TypeOK ==
  /\ pc \in {"down", "create", "begin", "insert", "up"}
  /\ table \in Tables /\ dbOpen \in BOOLEAN /\ created \subseteq Tables
  /\ \A t \in Tables : disk[t] \subseteq Items(t)
  /\ txn \subseteq Items(table)
  /\ at \in 1..(Len(Config[table]) + 1)
  /\ fetched.rows \subseteq Items("ac")
  /\ crashes \in 0..MaxCrashes /\ faults \in 0..MaxFaults /\ deletes \in 0..MaxDeletes

(* However launches fail, die and repeat, and whatever callers delete in   *)
(* between, a row on disk is one that a first, undisturbed launch would    *)
(* have stored: of two items that share a unique value the same one wins.  *)
SameWinners == \A t \in Tables : disk[t] \subseteq Imported(t, {})

(* The rows of a table change by one whole import, or by a deletion from   *)
(* table ac: no launch leaves part of a batch behind.                      *)
ImportIsAtomic ==
  [][\A t \in Tables : \/ disk'[t] = Imported(t, disk[t])
                       \/ disk'[t] = disk[t]
                       \/ t = "ac" /\ disk'[t] \subseteq disk[t] /\ pc = "up"]_disk

(* A launch with no failure left to strike brings both tables to the state *)
(* of a first, undisturbed launch, whatever its predecessors left behind.  *)
(* (It also brings back what callers had deleted.)                         *)
RelaunchRepairs ==
  (pc = "down" /\ crashes = 0 /\ faults = 0)
    ~> (pc = "up" /\ \A t \in Tables : disk[t] = Imported(t, {}))

(* However the import of table ac ended, rolled back or not, table sc gets *)
(* its own: a launch is up without every row of sc only where the database *)
(* is closed, the table was never made, or a call of that very import      *)
(* failed (the catch of lines 65 to 69 and the calls of jsonToDB).         *)
SecondImportIndependent ==
  [][pc # "up" /\ pc' = "up" =>
       /\ table = "sc"
       /\ \/ ~dbOpen \/ "sc" \notin created
          \/ faults' < faults
          \/ disk'["sc"] = Imported("sc", {})]_vars

(* When a fetch that could read says there is no more, it has returned the *)
(* whole table.                                                            *)
NoMoreMeansAll ==
  [][fetched'.ok /\ ~fetched'.more => fetched'.rows = disk["ac"]]_fetched
=============================================================================
