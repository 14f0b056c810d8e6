--------------------------- MODULE SpotStoreProofs ---------------------------
(* Proofs about the import of LBSpotStore, for every configuration file    *)
(* and any number of deaths, failures and deletions.                       *)
EXTENDS SpotStore, WellFoundedInduction, TLAPS

(* Every set of naturals that is not empty has a least element. *)
LEMMA Least ==
  ASSUME NEW T \in SUBSET Nat, T # {}
  PROVE  \E m \in T : \A k \in T : m <= k
<1>1. PICK x \in T : \A y \in T : ~ (<<y, x>> \in OpToRel(<, Nat))
  BY NatLessThanWellFounded, WFMin
<1>2. \A y \in T : ~(y < x)
  BY <1>1 DEF OpToRel
<1>3. QED
  BY <1>2

LEMMA MinLeast ==
  ASSUME NEW T \in SUBSET Nat, T # {}
  PROVE  Min(T) \in T /\ \A k \in T : Min(T) <= k
BY Least DEF Min

LEMMA BatchType ==
  ASSUME NEW t \in Tables
  PROVE  /\ Batch(t) \subseteq Nat \ {0}
         /\ Len(Config[t]) \in Nat
         /\ \A i \in Batch(t) : i <= Len(Config[t]) /\ Config[t][i] \in Items(t)
BY ConfigAssumption DEF Batch, Items, ToSet

LEMMA ConflictsBothWays ==
  ASSUME NEW a, NEW b
  PROVE  Conflicts(a, b) <=> Conflicts(b, a)
BY DEF Conflicts

-----------------------------------------------------------------------------
Chosen(t, rows) == CHOOSE W \in SUBSET Batch(t) : LetIn(t, rows, W)

(* LetIn, of the first n positions of the file. *)
LetInUpTo(t, rows, W, n) ==
  \A i \in Batch(t) : i <= n =>
    (i \in W <=> /\ \A row \in rows : ~Conflicts(row, Config[t][i])
                 /\ \A j \in W : j < i => ~Conflicts(Config[t][j], Config[t][i]))

Upto(t, n) == {i \in Batch(t) : i <= n}

(* Whatever the file and the rows, there is a set of items that they let   *)
(* in: it grows with the file.                                             *)
LEMMA SomeAreLetIn ==
  ASSUME NEW t \in Tables, NEW rows
  PROVE  \E W \in SUBSET Batch(t) : LetIn(t, rows, W)
<1> DEFINE T == {n \in Nat : ~ \E W \in SUBSET Upto(t, n) : LetInUpTo(t, rows, W, n)}
<1>1. T = {}
  <2>1. SUFFICES ASSUME T # {} PROVE FALSE
    OBVIOUS
  <2>2. PICK m \in T : \A k \in T : m <= k
    <3>1. T \in SUBSET Nat OBVIOUS
    <3>2. QED BY <2>1, <3>1, Least
  <2>3. m # 0
    <3>1. LetInUpTo(t, rows, {}, 0) BY BatchType DEF LetInUpTo
    <3>2. QED BY <3>1
  <2>4. m - 1 \in Nat /\ m - 1 \notin T
    BY <2>2, <2>3
  <2>5. PICK W \in SUBSET Upto(t, m - 1) : LetInUpTo(t, rows, W, m - 1)
    BY <2>4
  <2> DEFINE V == W \cup {i \in Batch(t) : /\ i = m
                                           /\ \A row \in rows : ~Conflicts(row, Config[t][i])
                                           /\ \A j \in W : ~Conflicts(Config[t][j], Config[t][i])}
  <2>6. V \in SUBSET Upto(t, m)
    BY BatchType DEF Upto
  <2>7. LetInUpTo(t, rows, V, m)
    <3>1. SUFFICES ASSUME NEW i \in Batch(t), i <= m
                   PROVE  i \in V <=> /\ \A row \in rows : ~Conflicts(row, Config[t][i])
                                      /\ \A j \in V : j < i => ~Conflicts(Config[t][j], Config[t][i])
      BY DEF LetInUpTo
    <3>2. i \in Nat /\ m \in Nat /\ V \subseteq Nat /\ \A j \in V : j \in W \/ j = m
      BY BatchType DEF Upto
    <3>3. \A j \in W : j \in Nat /\ j <= m - 1
      BY BatchType DEF Upto
    <3>4. CASE i <= m - 1
      <4>1. i \in V <=> i \in W BY <3>2, <3>4
      <4>2. \A j \in V : j < i => j \in W BY <3>2, <3>4
      <4>3. QED BY <4>1, <4>2, <2>5, <3>4 DEF LetInUpTo
    <3>5. CASE i = m
      <4>1. \A j \in V : j < i <=> j \in W BY <3>2, <3>3, <3>5
      <4>2. i \notin W BY <3>2, <3>3, <3>5
      <4>3. QED BY <4>1, <4>2, <3>5
    <3>6. QED BY <3>1, <3>2, <3>4, <3>5
  <2>8. QED BY <2>6, <2>7
<1>2. Len(Config[t]) \in Nat
  BY BatchType
<1>3. PICK W \in SUBSET Upto(t, Len(Config[t])) : LetInUpTo(t, rows, W, Len(Config[t]))
  BY <1>1, <1>2
<1>4. W \in SUBSET Batch(t) /\ LetIn(t, rows, W)
  BY <1>3, BatchType DEF Upto, LetIn, LetInUpTo
<1>5. QED
  BY <1>4

LEMMA ChosenLetIn ==
  ASSUME NEW t \in Tables, NEW rows
  PROVE  Chosen(t, rows) \in SUBSET Batch(t) /\ LetIn(t, rows, Chosen(t, rows))
BY SomeAreLetIn DEF Chosen

LEMMA ImportedIs ==
  ASSUME NEW t \in Tables, NEW rows
  PROVE  Imported(t, rows) = rows \cup {Config[t][i] : i \in Chosen(t, rows)}
BY DEF Imported, Chosen

(* A batch imported over rows of a first import adds none that a first     *)
(* import would not have stored.  The first item to do so in the file      *)
(* would conflict with one the first import let in, which is not let in    *)
(* now; but what keeps that one out is itself of the first import, and     *)
(* conflicts with it.                                                      *)
LEMMA WinnersKept ==
  ASSUME NEW t \in Tables, NEW rows \in SUBSET Imported(t, {})
  PROVE  Imported(t, rows) \subseteq Imported(t, {})
<1> DEFINE F == Chosen(t, {})
           W == Chosen(t, rows)
           T == W \ F
<1>1. F \in SUBSET Batch(t) /\ LetIn(t, {}, F) /\ W \in SUBSET Batch(t) /\ LetIn(t, rows, W)
  BY ChosenLetIn
<1>2. F \subseteq Nat /\ W \subseteq Nat
  BY <1>1, BatchType
<1> HIDE DEF F, W
<1>3. T = {}
  <2>1. SUFFICES ASSUME T # {} PROVE FALSE
    OBVIOUS
  <2>2. PICK i \in T : \A k \in T : i <= k
    BY <1>2, <2>1, Least
  <2>3. PICK j \in F : j < i /\ Conflicts(Config[t][j], Config[t][i])
    BY <1>1, <2>2 DEF LetIn
  <2>4. j \notin W
    BY <1>1, <2>2, <2>3 DEF LetIn
  <2>5. ASSUME NEW m \in F, Conflicts(Config[t][m], Config[t][j]) PROVE m = j
    <3>1. CASE m < j BY <1>1, <2>5, <3>1 DEF LetIn
    <3>2. CASE j < m
      <4>1. Conflicts(Config[t][j], Config[t][m]) BY <2>5, ConflictsBothWays
      <4>2. QED BY <1>1, <3>2, <4>1 DEF LetIn
    <3>3. QED BY <1>2, <3>1, <3>2
  <2>6. CASE \E row \in rows : Conflicts(row, Config[t][j])
    <3>1. PICK row \in rows : Conflicts(row, Config[t][j]) BY <2>6
    <3>2. PICK m \in F : row = Config[t][m] BY ImportedIs DEF F
    <3>3. row = Config[t][j] BY <2>5, <3>1, <3>2
    <3>4. QED BY <1>1, <2>2, <2>3, <3>1, <3>3 DEF LetIn
  <2>7. CASE \E k \in W : k < j /\ Conflicts(Config[t][k], Config[t][j])
    <3>1. PICK k \in W : k < j /\ Conflicts(Config[t][k], Config[t][j]) BY <2>7
    <3>2. k \in T BY <1>2, <2>5, <3>1
    <3>3. QED BY <1>2, <2>2, <2>3, <3>1, <3>2
  <2>8. QED BY <1>1, <2>4, <2>6, <2>7 DEF LetIn
<1>4. QED
  BY <1>3, ImportedIs DEF F, W

-----------------------------------------------------------------------------
(* The part of a batch from the position n on, and what the part before it *)
(* has made of a set of rows.                                              *)
From(t, n) == {i \in Batch(t) : i >= n}

Before(t, rows, n) == rows \cup {Config[t][i] : i \in {k \in Chosen(t, rows) : k < n}}

(* What an open transaction sees. *)
Midway == pc = "insert" => txn = Before(table, disk[table], at)

(* Outside a transaction there is nothing left of one. *)
Between == pc # "insert" => txn = {} /\ at = 1

IInv ==
  /\ TypeOK /\ SameWinners /\ Midway /\ Between
  /\ disk \in [Tables -> SUBSET (Items("ac") \cup Items("sc"))]

(* The next item of the batch. *)
LEMMA NextItem ==
  ASSUME NEW t \in Tables, NEW n \in Nat, NEW rows, From(t, n) # {}
  PROVE  /\ Min(From(t, n)) \in Batch(t)
         /\ Min(From(t, n)) + 1 \in 1..(Len(Config[t]) + 1)
         /\ InsertOrIgnore(Before(t, rows, n), Config[t][Min(From(t, n))])
              = Before(t, rows, Min(From(t, n)) + 1)
<1> DEFINE m == Min(From(t, n))
           W == Chosen(t, rows)
<1>1. m \in From(t, n) /\ \A k \in From(t, n) : m <= k
  <2>1. From(t, n) \in SUBSET Nat BY BatchType DEF From
  <2>2. QED BY <2>1, MinLeast
<1>2. m \in Batch(t) /\ m \in Nat \ {0} /\ m <= Len(Config[t]) /\ Len(Config[t]) \in Nat
  BY <1>1, BatchType DEF From
<1>3. W \in SUBSET Batch(t) /\ LetIn(t, rows, W) /\ W \subseteq Nat
  BY ChosenLetIn, BatchType
<1> HIDE DEF m
<1>4. Before(t, rows, n) = Before(t, rows, m)
  <2>1. \A k \in W : k < n <=> k < m BY <1>1, <1>2, <1>3 DEF From
  <2>2. {k \in W : k < n} = {k \in W : k < m} BY <2>1
  <2>3. QED BY <2>2 DEF Before
<1>5. Before(t, rows, m) = rows \cup {Config[t][i] : i \in {k \in W : k < m}}
  BY DEF Before
<1> HIDE DEF W
<1>6. m \in W <=> ~\E row \in Before(t, rows, m) : Conflicts(row, Config[t][m])
  BY <1>2, <1>3, <1>5 DEF LetIn
<1>7. {k \in W : k < m + 1} = {k \in W : k < m} \cup (IF m \in W THEN {m} ELSE {})
  <2>1. \A k \in W : k < m + 1 <=> k < m \/ k = m BY <1>2, <1>3
  <2>2. QED BY <2>1, <1>2
<1>8. InsertOrIgnore(Before(t, rows, m), Config[t][m])
        = rows \cup {Config[t][i] : i \in {k \in W : k < m + 1}}
  <2>1. CASE m \in W
    BY <2>1, <1>5, <1>6, <1>7 DEF InsertOrIgnore
  <2>2. CASE m \notin W
    BY <2>2, <1>5, <1>6, <1>7 DEF InsertOrIgnore
  <2>3. QED BY <2>1, <2>2
<1>9. m \in Batch(t) /\ m + 1 \in 1..(Len(Config[t]) + 1)
  BY <1>2
<1>10. Before(t, rows, m + 1) = rows \cup {Config[t][i] : i \in {k \in W : k < m + 1}}
  BY DEF Before, W
<1>11. QED
  BY <1>4, <1>8, <1>9, <1>10 DEF m

(* A transaction that has come to the end of its batch sees a whole import. *)
LEMMA WholeBatch ==
  ASSUME IInv, pc = "insert", Left = {}
  PROVE  txn = Imported(table, disk[table])
<1>1. table \in Tables /\ at \in Nat
  BY ConfigAssumption DEF IInv, TypeOK
<1> DEFINE W == Chosen(table, disk[table])
<1>2. W \in SUBSET Batch(table)
  BY <1>1, ChosenLetIn
<1>3. {k \in W : k < at} = W
  BY <1>1, <1>2, BatchType DEF Left
<1>4. QED
  BY <1>1, <1>3, ImportedIs DEF IInv, Midway, Before

(* Types, winners, and what an open transaction sees, are preserved by     *)
(* every step of a launch, of a caller, and by the death of the process.   *)
THEOREM Invariance == Spec => []IInv
<1>1. Init => IInv
  <2> SUFFICES ASSUME Init PROVE IInv OBVIOUS
  <2> USE ConfigAssumption DEF Init, Tables
  <2>1. TypeOK
    <3>1. 1 \in 1..(Len(Config["ac"]) + 1) BY BatchType
    <3>2. crashes \in 0..MaxCrashes /\ faults \in 0..MaxFaults /\ deletes \in 0..MaxDeletes
      OBVIOUS
    <3>3. fetched.rows \subseteq Items("ac") BY DEF NothingFetched
    <3>4. QED BY <3>1, <3>2, <3>3 DEF TypeOK
  <2>2. SameWinners BY DEF SameWinners
  <2>3. QED BY <2>1, <2>2 DEF IInv, Midway, Between
<1>2. IInv /\ [Next]_vars => IInv'
  <2> SUFFICES ASSUME IInv, [Next]_vars PROVE IInv'
    OBVIOUS
  <2> USE ConfigAssumption DEF IInv, launch, bounds, Fault
  <2>1. CASE Launch
    <3> USE <2>1 DEF Launch
    <3>1. TypeOK'
      <4>1. table' \in Tables /\ txn' = {} /\ at' = 1 BY DEF TypeOK, Tables, Between
      <4>2. at' \in 1..(Len(Config[table']) + 1) BY <4>1, BatchType
      <4>3. created' \subseteq Tables /\ dbOpen' \in BOOLEAN BY DEF TypeOK
      <4>4. crashes' \in 0..MaxCrashes /\ faults' \in 0..MaxFaults /\ deletes' \in 0..MaxDeletes
        BY DEF TypeOK
      <4>5. fetched'.rows \subseteq Items("ac") BY DEF TypeOK
      <4>6. QED BY <4>1, <4>2, <4>3, <4>4, <4>5 DEF TypeOK
    <3>2. SameWinners' BY DEF SameWinners
    <3>3. Midway' BY DEF TypeOK, Midway
    <3>4. (disk \in [Tables -> SUBSET (Items("ac") \cup Items("sc"))])' BY DEF TypeOK
    <3>5. Between' BY DEF TypeOK, Between
    <3>6. QED BY <3>1, <3>2, <3>3, <3>4, <3>5
  <2>2. CASE CreateTable
    <3> USE <2>2 DEF CreateTable
    <3>1. TypeOK'
      <4>1. table' \in Tables /\ txn' = {} /\ at' = 1 BY DEF TypeOK, Tables, Between
      <4>2. at' \in 1..(Len(Config[table']) + 1) BY <4>1, BatchType
      <4>3. created' \subseteq Tables /\ dbOpen' \in BOOLEAN BY DEF TypeOK
      <4>4. crashes' \in 0..MaxCrashes /\ faults' \in 0..MaxFaults /\ deletes' \in 0..MaxDeletes
        BY DEF TypeOK
      <4>5. fetched'.rows \subseteq Items("ac") BY DEF TypeOK
      <4>6. QED BY <4>1, <4>2, <4>3, <4>4, <4>5 DEF TypeOK
    <3>2. SameWinners' BY DEF SameWinners
    <3>3. Midway' BY DEF TypeOK, Midway
    <3>4. (disk \in [Tables -> SUBSET (Items("ac") \cup Items("sc"))])' BY DEF TypeOK
    <3>5. Between' BY DEF TypeOK, Between
    <3>6. QED BY <3>1, <3>2, <3>3, <3>4, <3>5
  <2>3. CASE BeginTransaction
    <3> USE <2>3 DEF BeginTransaction, ImportOver
    <3>1. TypeOK' BY BatchType DEF TypeOK, Tables, Between
    <3>2. SameWinners' BY DEF SameWinners
    <3>3. Midway'
      <4>1. SUFFICES ASSUME pc' = "insert"
                     PROVE  disk[table] = Before(table, disk[table], 1)
        BY DEF Midway
      <4>2. table \in Tables BY DEF TypeOK
      <4>3. {k \in Chosen(table, disk[table]) : k < 1} = {} BY <4>2, ChosenLetIn, BatchType
      <4>4. QED BY <4>1, <4>3 DEF Before
    <3>4. (disk \in [Tables -> SUBSET (Items("ac") \cup Items("sc"))])' BY DEF TypeOK
    <3>5. Between' BY DEF TypeOK, Between
    <3>6. QED BY <3>1, <3>2, <3>3, <3>4, <3>5
  <2>4. CASE InsertItem
    <3> USE <2>4 DEF InsertItem
    <3>a. CASE UNCHANGED <<pc, table, bounds>>
      <4>1. table \in Tables /\ at \in Nat BY DEF TypeOK
      <4>2. txn = Before(table, disk[table], at) BY DEF Midway
      <4>a. Left = From(table, at) BY DEF Left, From
      <4> DEFINE m == Min(Left)
      <4>3. /\ m \in Batch(table) /\ m + 1 \in 1..(Len(Config[table]) + 1)
            /\ InsertOrIgnore(txn, Config[table][m]) = Before(table, disk[table], m + 1)
        BY <4>1, <4>2, <4>a, NextItem
      <4>4. txn' = InsertOrIgnore(txn, Config[table][m]) /\ at' = m + 1
        BY <3>a DEF ImportOver
      <4>5. txn' \subseteq Items(table)
        BY <4>1, <4>3, <4>4, BatchType DEF InsertOrIgnore, TypeOK
      <4> HIDE DEF m
      <4>6. TypeOK' BY <3>a, <4>3, <4>4, <4>5 DEF TypeOK
      <4>7. SameWinners' BY DEF SameWinners
      <4>8. Midway' BY <3>a, <4>3, <4>4 DEF Midway
      <4>9. QED BY <3>a, <4>6, <4>7, <4>8 DEF Between
    <3>b. CASE ImportOver
      <4> USE <3>b DEF ImportOver
      <4>1. TypeOK' BY BatchType DEF TypeOK, Tables
      <4>2. SameWinners' BY DEF SameWinners
      <4>3. Midway' /\ Between' BY DEF Midway, Between
      <4>4. QED BY <4>1, <4>2, <4>3
    <3>1. QED BY <3>a, <3>b
  <2>5. CASE CommitTransaction
    <3> USE <2>5 DEF CommitTransaction, ImportOver
    <3>1. TypeOK' BY BatchType DEF TypeOK, Tables, Between
    <3>a. txn = Imported(table, disk[table]) /\ table \in Tables BY WholeBatch DEF TypeOK
    <3>b. txn \subseteq Imported(table, {}) BY <3>a, WinnersKept DEF SameWinners
    <3>2. SameWinners' BY <3>a, <3>b DEF SameWinners
    <3>3. Midway' BY DEF TypeOK, Midway
    <3>4. (disk \in [Tables -> SUBSET (Items("ac") \cup Items("sc"))])'
      <4>1. txn \subseteq Items("ac") \cup Items("sc") BY DEF TypeOK, Tables
      <4>2. QED BY <4>1
    <3>5. Between' BY DEF TypeOK, Between
    <3>6. QED BY <3>1, <3>2, <3>3, <3>4, <3>5
  <2>6. ASSUME NEW acs \in SUBSET AcNames \ {{}}, DeleteItems(acs) PROVE IInv'
    <3> USE <2>6 DEF DeleteItems
    <3>1. TypeOK' BY BatchType DEF TypeOK, Tables, Between
    <3>2. SameWinners' BY DEF SameWinners
    <3>3. Midway' BY DEF TypeOK, Midway
    <3>4. (disk \in [Tables -> SUBSET (Items("ac") \cup Items("sc"))])' BY DEF TypeOK
    <3>5. Between' BY DEF TypeOK, Between
    <3>6. QED BY <3>1, <3>2, <3>3, <3>4, <3>5
  <2>7. ASSUME NEW limit \in Limits, FetchItems(limit) PROVE IInv'
    <3> USE <2>7 DEF FetchItems
    <3>1. TypeOK' BY BatchType DEF TypeOK, Tables, Between
    <3>2. SameWinners' BY DEF SameWinners
    <3>3. Midway' BY DEF TypeOK, Midway
    <3>4. (disk \in [Tables -> SUBSET (Items("ac") \cup Items("sc"))])' BY DEF TypeOK
    <3>5. Between' BY DEF TypeOK, Between
    <3>6. QED BY <3>1, <3>2, <3>3, <3>4, <3>5
  <2>8. CASE Crash
    <3> USE <2>8 DEF Crash, NothingFetched
    <3>1. TypeOK'
      <4>1. table' \in Tables /\ txn' = {} /\ at' = 1 BY DEF TypeOK, Tables, Between
      <4>2. at' \in 1..(Len(Config[table']) + 1) BY <4>1, BatchType
      <4>3. created' \subseteq Tables /\ dbOpen' \in BOOLEAN BY DEF TypeOK
      <4>4. crashes' \in 0..MaxCrashes /\ faults' \in 0..MaxFaults /\ deletes' \in 0..MaxDeletes
        BY DEF TypeOK
      <4>5. fetched'.rows \subseteq Items("ac") BY DEF TypeOK
      <4>6. QED BY <4>1, <4>2, <4>3, <4>4, <4>5 DEF TypeOK
    <3>2. SameWinners' BY DEF SameWinners
    <3>3. Midway' BY DEF TypeOK, Midway
    <3>4. (disk \in [Tables -> SUBSET (Items("ac") \cup Items("sc"))])' BY DEF TypeOK
    <3>5. Between' BY DEF TypeOK, Between
    <3>6. QED BY <3>1, <3>2, <3>3, <3>4, <3>5
  <2>9. CASE UNCHANGED vars
    <3> USE <2>9 DEF vars
    <3>1. TypeOK' BY BatchType DEF TypeOK, Tables, Between
    <3>2. SameWinners' BY DEF SameWinners
    <3>3. Midway' BY DEF TypeOK, Midway
    <3>4. (disk \in [Tables -> SUBSET (Items("ac") \cup Items("sc"))])' BY DEF TypeOK
    <3>5. Between' BY DEF TypeOK, Between
    <3>6. QED BY <3>1, <3>2, <3>3, <3>4, <3>5
  <2>10. QED
    BY <2>1, <2>2, <2>3, <2>4, <2>5, <2>6, <2>7, <2>8, <2>9 DEF Next, LaunchStep
<1>3. QED
  BY <1>1, <1>2, PTL DEF Spec

(* The types. *)
THEOREM TypeCorrect == Spec => []TypeOK
<1>1. IInv => TypeOK
  BY DEF IInv
<1>2. QED
  BY <1>1, Invariance, PTL

(* Of two items that share a unique value the same one is stored, whatever *)
(* failed, died, was repeated or deleted before.                           *)
THEOREM AlwaysSameWinners == Spec => []SameWinners
<1>1. IInv => SameWinners
  BY DEF IInv
<1>2. QED
  BY <1>1, Invariance, PTL

(* No step stores part of a batch. *)
THEOREM ImportAlwaysAtomic == Spec => ImportIsAtomic
<1>1. IInv /\ [Next]_vars
        => [\A t \in Tables : \/ disk'[t] = Imported(t, disk[t])
                              \/ disk'[t] = disk[t]
                              \/ t = "ac" /\ disk'[t] \subseteq disk[t] /\ pc = "up"]_disk
  <2> DEFINE Atomic(t) == \/ disk'[t] = Imported(t, disk[t])
                          \/ disk'[t] = disk[t]
                          \/ t = "ac" /\ disk'[t] \subseteq disk[t] /\ pc = "up"
  <2> SUFFICES ASSUME IInv, [Next]_vars, disk' # disk, NEW t \in Tables PROVE Atomic(t)
    OBVIOUS
  <2>1. CommitTransaction \/ \E acs \in SUBSET AcNames \ {{}} : DeleteItems(acs)
    BY DEF Next, LaunchStep, Launch, CreateTable, BeginTransaction, InsertItem, FetchItems,
           Crash, vars
  <2>2. CASE CommitTransaction
    <3>1. txn = Imported(table, disk[table])
      BY <2>2, WholeBatch DEF CommitTransaction
    <3>2. disk' = [disk EXCEPT ![table] = txn] \/ disk' = disk
      BY <2>2 DEF CommitTransaction
    <3>3. table \in Tables BY DEF IInv, TypeOK
    <3>4. CASE disk' = disk BY <3>4
    <3>5. CASE disk' = [disk EXCEPT ![table] = txn]
      <4>1. disk'[t] = IF t = table THEN Imported(table, disk[table]) ELSE disk[t]
        BY <3>1, <3>3, <3>5 DEF IInv
      <4>2. CASE t = table BY <4>1, <4>2
      <4>3. CASE t # table BY <4>1, <4>3
      <4>4. QED BY <4>2, <4>3
    <3>6. QED BY <3>2, <3>4, <3>5
  <2>3. ASSUME NEW acs \in SUBSET AcNames \ {{}}, DeleteItems(acs) PROVE Atomic(t)
    BY <2>3 DEF DeleteItems, IInv
  <2>4. QED BY <2>1, <2>2, <2>3
<1>2. QED
  BY <1>1, Invariance, PTL DEF Spec, ImportIsAtomic

(* Table sc, from which nobody deletes, has no row or every row of an      *)
(* undisturbed import.                                                     *)
ScWhole == disk["sc"] \in {{}, Imported("sc", {})}

(* Importing a whole import again changes nothing. *)
LEMMA ImportedTwice ==
  ASSUME NEW t \in Tables, NEW rows \in {{}, Imported(t, {})}
  PROVE  Imported(t, rows) = Imported(t, {})
<1>1. CASE rows = {}
  BY <1>1
<1>2. CASE rows = Imported(t, {})
  <2>1. Imported(t, rows) \subseteq Imported(t, {}) BY <1>2, WinnersKept
  <2>2. rows \subseteq Imported(t, rows) BY ImportedIs
  <2>3. QED BY <1>2, <2>1, <2>2
<1>3. QED
  BY <1>1, <1>2

LEMMA ScAlwaysWhole == Spec => []ScWhole
<1> DEFINE Atomic == \A t \in Tables : \/ disk'[t] = Imported(t, disk[t])
                                       \/ disk'[t] = disk[t]
                                       \/ t = "ac" /\ disk'[t] \subseteq disk[t] /\ pc = "up"
<1>1. Init => ScWhole
  BY DEF Init, ScWhole, Tables
<1>2. ScWhole /\ [Atomic]_disk => ScWhole'
  <2> SUFFICES ASSUME ScWhole, [Atomic]_disk PROVE ScWhole'
    OBVIOUS
  <2>1. "sc" \in Tables /\ "sc" # "ac" BY DEF Tables
  <2>2. Imported("sc", disk["sc"]) = Imported("sc", {}) BY <2>1, ImportedTwice DEF ScWhole
  <2>3. disk'["sc"] = disk["sc"] \/ disk'["sc"] = Imported("sc", disk["sc"]) BY <2>1
  <2>4. QED BY <2>2, <2>3 DEF ScWhole
<1> HIDE DEF Atomic
<1>3. Spec => [][Atomic]_disk
  BY ImportAlwaysAtomic DEF ImportIsAtomic, Atomic
<1>4. QED
  BY <1>1, <1>2, <1>3, PTL DEF Spec

(* The import of table sc depends on nothing that happened to that of ac.  *)
THEOREM SecondImportAlwaysIndependent == Spec => SecondImportIndependent
<1> DEFINE Own == \/ ~dbOpen \/ "sc" \notin created
                  \/ faults' < faults
                  \/ disk'["sc"] = Imported("sc", {})
<1>1. IInv /\ ScWhole /\ [Next]_vars => [pc # "up" /\ pc' = "up" => table = "sc" /\ Own]_vars
  <2> SUFFICES ASSUME IInv, ScWhole, Next, pc # "up", pc' = "up" PROVE table = "sc" /\ Own
    OBVIOUS
  <2>1. table \in Tables /\ faults \in Nat
    BY ConfigAssumption DEF IInv, TypeOK
  <2>2. Fault => faults' < faults
    BY <2>1 DEF Fault
  <2>3. BeginTransaction \/ InsertItem \/ CommitTransaction
    BY DEF Next, LaunchStep, Launch, CreateTable, DeleteItems, FetchItems, Crash, launch
  <2>4. ImportOver /\ table = "sc"
    BY <2>1, <2>3 DEF BeginTransaction, InsertItem, CommitTransaction, ImportOver, Tables
  <2>5. CASE BeginTransaction
    BY <2>2, <2>4, <2>5 DEF BeginTransaction
  <2>6. CASE InsertItem
    BY <2>2, <2>4, <2>6 DEF InsertItem
  <2>7. CASE CommitTransaction
    <3>1. CASE Fault
      BY <2>2, <2>4, <3>1
    <3>2. CASE disk' = [disk EXCEPT ![table] = txn]
      <4>1. txn = Imported(table, disk[table]) BY <2>7, WholeBatch DEF CommitTransaction
      <4>2. Imported("sc", disk["sc"]) = Imported("sc", {})
        BY <2>1, <2>4, ImportedTwice DEF ScWhole
      <4>3. disk'["sc"] = txn BY <2>1, <2>4, <3>2 DEF IInv
      <4>4. QED BY <2>4, <4>1, <4>2, <4>3
    <3>3. QED BY <2>7, <3>1, <3>2 DEF CommitTransaction
  <2>8. QED
    BY <2>3, <2>5, <2>6, <2>7
<1>2. QED
  BY <1>1, Invariance, ScAlwaysWhole, PTL DEF Spec, SecondImportIndependent

(* A fetch that says there is no more has returned the whole table. *)
THEOREM NoMoreAlwaysMeansAll == Spec => NoMoreMeansAll
<1>1. [Next]_vars => [fetched'.ok /\ ~fetched'.more => fetched'.rows = disk["ac"]]_fetched
  <2> SUFFICES ASSUME [Next]_vars, fetched' # fetched, fetched'.ok, ~fetched'.more
               PROVE  fetched'.rows = disk["ac"]
    OBVIOUS
  <2>1. Crash \/ \E limit \in Limits : FetchItems(limit)
    BY DEF Next, LaunchStep, Launch, CreateTable, BeginTransaction, InsertItem,
           CommitTransaction, DeleteItems, vars
  <2>2. ~Crash
    BY DEF Crash, NothingFetched
  <2>3. ASSUME NEW limit \in Limits, FetchItems(limit) PROVE fetched'.rows = disk["ac"]
    <3>1. CASE \E rows \in SUBSET disk["ac"] :
                 /\ Cardinality(rows) = limit \/ (Cardinality(rows) < limit /\ rows = disk["ac"])
                 /\ fetched' = [rows |-> rows, more |-> More(rows, limit), ok |-> TRUE]
      <4>1. PICK rows \in SUBSET disk["ac"] :
              /\ Cardinality(rows) = limit \/ rows = disk["ac"]
              /\ fetched' = [rows |-> rows, more |-> More(rows, limit), ok |-> TRUE]
        BY <3>1
      <4>2. fetched'.rows = rows /\ fetched'.more = More(rows, limit)
        BY <4>1
      <4>3. Cardinality(rows) # limit
        BY <4>2 DEF More
      <4>4. QED BY <4>1, <4>2, <4>3
    <3>2. CASE fetched' = [rows |-> {}, more |-> More({}, limit), ok |-> FALSE]
      BY <3>2
    <3>3. QED BY <2>3, <3>1, <3>2 DEF FetchItems
  <2>4. QED BY <2>1, <2>2, <2>3
<1>2. QED
  BY <1>1, PTL DEF Spec, NoMoreMeansAll
=============================================================================
