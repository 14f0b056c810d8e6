------------------------- MODULE DispatchGroupProofs -------------------------
(* Proofs about the two functions of DispatchGroupTest, for any number of  *)
(* tasks.                                                                  *)
EXTENDS DispatchGroup, FiniteSetTheorems, SequenceTheorems, TLAPS

C == "concurrent"
S == "serial"

States == {"none", "queued", "running", "left", "done"}

Types ==
  /\ fun \in Groups \cup {"returned"} /\ pc \in {"loop", "each", "timed"}
  /\ next \in 1..(MaxNum + 1)
  /\ count \in [Groups -> Nat]
  /\ task \in [Groups -> [Tasks -> States]]
  /\ notice \in [Groups -> {"none", "registered", "due", "queued", "run"}]
  /\ result \in [Groups -> {"none", "success", "timedOut"}]

(* The first function hands over its tasks in order; the group counts      *)
(* those that have not ended.                                              *)
Active == {i \in Tasks : task[C][i] \in {"queued", "running"}}

Concurrent ==
  /\ fun = C => pc # "each"
  /\ \A i \in Tasks : /\ task[C][i] # "left"
                      /\ task[C][i] = "none" <=> fun = C /\ pc = "loop" /\ i >= next
  /\ count[C] = Cardinality(Active)

(* The second has one task at a time that counts, twice until it leaves.   *)
Serial ==
  /\ \A i \in Tasks :
       task[S][i] = IF fun = "returned" \/ (fun = S /\ i < next) THEN "done"
                    ELSE IF fun = S /\ pc = "each" /\ i = next THEN task[S][i]
                    ELSE "none"
  /\ fun = S /\ pc = "each" =>
       /\ next \in Tasks /\ task[S][next] # "none"
       /\ count[S] = IF task[S][next] = "done" THEN 0
                     ELSE IF task[S][next] = "left" THEN 1 ELSE 2
  /\ ~(fun = S /\ pc = "each") => count[S] = 0
  /\ fun \in Groups /\ pc = "timed" => next = MaxNum + 1

(* What has been asked for and said at which point.                        *)
Reports ==
  /\ notice[C] = "none" <=> fun = C /\ pc = "loop"
  /\ notice[S] = "none" <=> fun = C \/ (fun = S /\ pc # "timed")
  /\ notice[C] = "registered" => count[C] > 0
  /\ notice[C] \in {"due", "queued", "run"} => AllDone(C)
  /\ notice[S] \notin {"registered", "due"}
  /\ result[C] = "none" <=> fun = C
  /\ result[C] = "success" => notice[C] \in {"due", "queued", "run"}
  /\ result[S] = IF fun = "returned" THEN "success" ELSE "none"
  /\ \A g \in Groups : notice[g] = "run" => fun = "returned"

(* The main queue holds each block that was handed over, once. *)
Queue ==
  \/ mainQueue = <<>> /\ notice[C] # "queued" /\ notice[S] # "queued"
  \/ mainQueue = <<C>> /\ notice[C] = "queued" /\ notice[S] # "queued"
  \/ mainQueue = <<S>> /\ notice[C] # "queued" /\ notice[S] = "queued"
  \/ mainQueue \in {<<C, S>>, <<S, C>>} /\ notice[C] = "queued" /\ notice[S] = "queued"

IInv == Types /\ Concurrent /\ Serial /\ Reports /\ Queue

(* One task more, or one less, is active. *)
LEMMA ActiveFinite == IsFiniteSet(Active)
<1>1. IsFiniteSet(Tasks) BY MaxNumAssumption, FS_Interval DEF Tasks
<1>2. QED BY <1>1, FS_Subset DEF Active

LEMMA OneMoreActive ==
  ASSUME NEW i \in Tasks, task[C][i] \notin {"queued", "running"},
         Active' = Active \cup {i}
  PROVE  Cardinality(Active') = Cardinality(Active) + 1
BY ActiveFinite, FS_AddElement DEF Active

LEMMA OneLessActive ==
  ASSUME NEW i \in Active, Active' = Active \ {i}
  PROVE  /\ Cardinality(Active) \in Nat
         /\ Cardinality(Active) > 0
         /\ Cardinality(Active') = Cardinality(Active) - 1
         /\ Cardinality(Active) = 1 => Active' = {}
<1>1. Cardinality(Active \ {i}) = Cardinality(Active) - 1 /\ Cardinality(Active) \in Nat
  BY ActiveFinite, FS_RemoveElement, FS_CardinalityType
<1>2. IsFiniteSet(Active \ {i}) /\ Cardinality(Active \ {i}) \in Nat
  BY ActiveFinite, FS_RemoveElement, FS_CardinalityType
<1>3. QED BY <1>1, <1>2, FS_EmptySet

LEMMA AppendPair ==
  ASSUME NEW T, NEW a \in T, NEW b \in T
  PROVE  Append(<<>>, b) = <<b>> /\ Append(<<a>>, b) = <<a, b>>
<1>1. <<a>> \in Seq(T) /\ Len(<<a>>) = 1 /\ <<a>>[1] = a
  OBVIOUS
<1>2. /\ Append(<<a>>, b) \in Seq(T) /\ Len(Append(<<a>>, b)) = 2
      /\ Append(<<a>>, b)[1] = a /\ Append(<<a>>, b)[2] = b
  BY <1>1
<1>3. <<a, b>> \in Seq(T) /\ Len(<<a, b>>) = 2 /\ <<a, b>>[1] = a /\ <<a, b>>[2] = b
  OBVIOUS
<1>4. \A i \in 1..2 : Append(<<a>>, b)[i] = <<a, b>>[i]
  BY <1>2, <1>3
<1>5. Append(<<a>>, b) = <<a, b>>
  BY <1>2, <1>3, <1>4, SeqEqual
<1>6. QED
  BY <1>5

LEMMA AppendNotice ==
  /\ Append(<<>>, C) = <<C>> /\ Append(<<>>, S) = <<S>>
  /\ Append(<<C>>, S) = <<C, S>> /\ Append(<<S>>, C) = <<S, C>>
<1>1. C \in Groups /\ S \in Groups
  BY DEF C, S, Groups
<1>2. QED
  BY <1>1, AppendPair

(* What each function has handed over, counted and reported at each point  *)
(* of viewDidLoad and after.                                               *)
THEOREM Invariance == Spec => []IInv
<1>1. Init => IInv
  <2> SUFFICES ASSUME Init PROVE IInv OBVIOUS
  <2> USE MaxNumAssumption DEF Init, Groups, Tasks, C, S
  <2>1. Types BY DEF Types, States
  <2>2. Concurrent
    <3>1. Active = {} BY DEF Active
    <3>2. QED BY <3>1, FS_EmptySet DEF Concurrent
  <2>3. Serial BY DEF Serial
  <2>4. Reports BY DEF Reports
  <2>5. Queue BY DEF Queue
  <2>6. QED BY <2>1, <2>2, <2>3, <2>4, <2>5 DEF IInv
<1>2. IInv /\ [Next]_vars => IInv'
  <2> SUFFICES ASSUME IInv, [Next]_vars PROVE IInv'
    OBVIOUS
  <2> USE MaxNumAssumption DEF IInv, Groups, Tasks, C, S, reports
  <2>1. CASE SubmitConcurrent
    <3> USE <2>1 DEF SubmitConcurrent, Enter, SetTask
    <3>0. /\ next \in Tasks /\ task[C][next] = "none"
          /\ Active' = Active \cup {next}
      BY DEF Types, Concurrent, Active
    <3>a. Cardinality(Active') = Cardinality(Active) + 1
      BY <3>0, OneMoreActive
    <3>1. Types'
      <4>1. count' \in [Groups -> Nat] BY DEF Types
      <4>2. task' \in [Groups -> [Tasks -> States]] BY DEF Types, States
      <4>3. QED BY <4>1, <4>2 DEF Types
    <3>2. Concurrent' BY <3>0, <3>a DEF Types, Concurrent, Serial
    <3>3. Serial' BY DEF Types, Serial
    <3>4. Reports' BY <3>0 DEF Types, Concurrent, Serial, Reports, AllDone, Active
    <3>5. Queue' BY DEF Types, Serial, Reports, Queue
    <3>6. QED BY <3>1, <3>2, <3>3, <3>4, <3>5
  <2>2. CASE SubmitSerial
    <3> USE <2>2 DEF SubmitSerial, Enter, SetTask
    <3>0. Active' = Active BY DEF Types, Concurrent, Active
    <3>1. Types'
      <4>1. count' \in [Groups -> Nat] BY DEF Types, Serial
      <4>2. task' \in [Groups -> [Tasks -> States]] BY DEF Types, States
      <4>3. QED BY <4>1, <4>2 DEF Types, Serial
    <3>2. Concurrent' BY <3>0 DEF Types, Concurrent, Serial
    <3>3. Serial' BY DEF Types, Serial
    <3>4. Reports' BY <3>0 DEF Types, Concurrent, Serial, Reports, AllDone, Active
    <3>5. Queue' BY DEF Types, Serial, Reports, Queue
    <3>6. QED BY <3>1, <3>2, <3>3, <3>4, <3>5
  <2>3. CASE WaitForEach
    <3> USE <2>3 DEF WaitForEach
    <3>0. Active' = Active BY DEF Types, Concurrent, Active
    <3>1. Types' BY <3>0 DEF Types, States, Concurrent, Serial
    <3>2. Concurrent' BY <3>0 DEF Types, Concurrent, Serial
    <3>3. Serial' BY DEF Types, Serial
    <3>4. Reports' BY <3>0 DEF Types, Concurrent, Serial, Reports, AllDone, Active
    <3>5. Queue' BY DEF Types, Serial, Reports, Queue
    <3>6. QED BY <3>1, <3>2, <3>3, <3>4, <3>5
  <2>4. CASE Notify
    <3> USE <2>4 DEF Notify, QueueNotice
    <3>0. Active' = Active BY DEF Types, Concurrent, Active
    <3>1. Types' BY <3>0 DEF Types, States, Concurrent, Serial
    <3>2. Concurrent' BY <3>0 DEF Types, Concurrent, Serial
    <3>3. Serial' BY DEF Types, Serial
    <3>a. CASE fun = C
      <4>1. Reports'
        <5>1. count[C] = 0 => AllDone(C)
          <6>1. count[C] = 0 => Active = {}
            BY ActiveFinite, FS_EmptySet DEF Concurrent
          <6>2. SUFFICES ASSUME count[C] = 0, NEW i \in Tasks PROVE task[C][i] = "done"
            BY DEF AllDone
          <6>3. task[C][i] \notin {"queued", "running"} BY <6>1, <6>2 DEF Active
          <6>4. ~(i >= next) BY DEF Types
          <6>5. task[C][i] \notin {"none", "left"} BY <6>4 DEF Concurrent
          <6>6. task[C][i] \in States BY DEF Types
          <6>7. QED BY <6>3, <6>5, <6>6 DEF States
        <5>2. AllDone(C)' = AllDone(C) BY DEF AllDone
        <5>3. QED BY <5>1, <5>2, <3>a DEF Types, Reports
      <4>2. mainQueue = <<>> BY <3>a DEF Reports, Queue
      <4>3. Queue' BY <4>2, <3>a DEF Types, Reports, Queue
      <4>4. QED BY <4>1, <4>3, <3>1, <3>2, <3>3
    <3>b. CASE fun = S
      <4>1. count[S] = 0 BY <3>b DEF Serial
      <4>2. AllDone(C)' = AllDone(C) BY DEF AllDone
      <4>3. Reports' BY <4>1, <4>2, <3>b DEF Types, Reports
      <4>4. mainQueue = <<>> \/ mainQueue = <<C>> BY <3>b DEF Reports, Queue
      <4>5. Append(<<>>, S) = <<S>> /\ Append(<<C>>, S) = <<C, S>>
        BY AppendNotice
      <4>6. Queue'
        <5>1. mainQueue' = Append(mainQueue, S) /\ notice' = [notice EXCEPT ![S] = "queued"]
          BY <4>1, <3>b
        <5>2. mainQueue' = <<S>> \/ mainQueue' = <<C, S>> BY <5>1, <4>4, <4>5
        <5>3. QED BY <5>1, <4>4, <4>5, <3>b DEF Types, Reports, Queue
      <4>7. QED BY <4>3, <4>6, <3>1, <3>2, <3>3
    <3>4. Reports' BY <3>a, <3>b
    <3>5. Queue' BY <3>a, <3>b
    <3>6. QED BY <3>1, <3>2, <3>3, <3>4, <3>5
  <2>5. CASE WaitAtMost
    <3> USE <2>5 DEF WaitAtMost
    <3>0. Active' = Active BY DEF Types, Concurrent, Active
    <3>1. Types' BY <3>0 DEF Types, States, Concurrent, Serial
    <3>2. Concurrent' BY <3>0 DEF Types, Concurrent, Serial
    <3>3. Serial' BY DEF Types, Serial
    <3>4. Reports' BY <3>0 DEF Types, Concurrent, Serial, Reports, AllDone, Active
    <3>5. Queue' BY DEF Types, Serial, Reports, Queue
    <3>6. QED BY <3>1, <3>2, <3>3, <3>4, <3>5
  <2>6. CASE RunNotice
    <3> USE <2>6 DEF RunNotice
    <3>0. Active' = Active BY DEF Types, Concurrent, Active
    <3>1. Types' BY <3>0 DEF Types, States, Concurrent, Serial
    <3>2. Concurrent' BY <3>0 DEF Types, Concurrent, Serial
    <3>3. Serial' BY DEF Types, Serial
    <3>4. Reports'
      <4>1. Head(mainQueue) \in Groups /\ notice[Head(mainQueue)] = "queued"
        BY DEF Queue
      <4>2. AllDone(C)' = AllDone(C) BY DEF AllDone
      <4>3. QED BY <4>1, <4>2 DEF Types, Reports
    <3>5. Queue'
      <4>1. CASE mainQueue = <<C>>
        BY <4>1 DEF Types, Queue
      <4>2. CASE mainQueue = <<S>>
        BY <4>2 DEF Types, Queue
      <4>3. CASE mainQueue = <<C, S>>
        BY <4>3 DEF Types, Queue
      <4>4. CASE mainQueue = <<S, C>>
        BY <4>4 DEF Types, Queue
      <4>5. QED BY <4>1, <4>2, <4>3, <4>4 DEF Queue
    <3>6. QED BY <3>1, <3>2, <3>3, <3>4, <3>5
  <2>7. ASSUME NEW i \in Tasks, BeginTask(C, i) PROVE IInv'
    <3> USE <2>7 DEF BeginTask, SetTask
    <3>0. Active' = Active BY DEF Types, Concurrent, Active
    <3>1. Types' BY <3>0 DEF Types, States, Concurrent, Serial
    <3>2. Concurrent' BY <3>0 DEF Types, Concurrent, Serial
    <3>3. Serial' BY DEF Types, Serial
    <3>4. Reports' BY <3>0 DEF Types, Concurrent, Serial, Reports, AllDone, Active
    <3>5. Queue' BY DEF Types, Serial, Reports, Queue
    <3>6. QED BY <3>1, <3>2, <3>3, <3>4, <3>5
  <2>8. ASSUME NEW i \in Tasks, BeginTask(S, i) PROVE IInv'
    <3> USE <2>8 DEF BeginTask, SetTask
    <3>0. Active' = Active BY DEF Types, Concurrent, Active
    <3>1. Types' BY <3>0 DEF Types, States, Concurrent, Serial
    <3>2. Concurrent' BY <3>0 DEF Types, Concurrent, Serial
    <3>3. Serial' BY DEF Types, Serial
    <3>4. Reports' BY <3>0 DEF Types, Concurrent, Serial, Reports, AllDone, Active
    <3>5. Queue' BY DEF Types, Serial, Reports, Queue
    <3>6. QED BY <3>1, <3>2, <3>3, <3>4, <3>5
  <2>9. ASSUME NEW i \in Tasks, EndTask(C, i) PROVE IInv'
    <3> USE <2>9 DEF EndTask, SetTask, Leave
    <3>0. i \in Active /\ Active' = Active \ {i}
      BY DEF Types, Active
    <3>a. /\ count[C] \in Nat /\ count[C] > 0
          /\ Cardinality(Active') = count[C] - 1
          /\ count[C] = 1 => Active' = {}
      BY <3>0, OneLessActive DEF Concurrent
    <3>b. count' = [count EXCEPT ![C] = @ - 1] /\ fun' = fun
      BY <3>a
    <3>c. task' = [task EXCEPT ![C][i] = "done"] /\ i \in Tasks /\ task[C][i] = "running"
      OBVIOUS
    <3>d. \/ count[C] = 1 /\ notice[C] = "registered" /\ notice' = [notice EXCEPT ![C] = "due"]
          \/ ~(count[C] = 1 /\ notice[C] = "registered") /\ UNCHANGED notice
      OBVIOUS
    <3>e. UNCHANGED <<pc, next, result, mainQueue>> OBVIOUS
    <3>1. Types'
      <4>1. count' \in [Groups -> Nat] BY <3>a, <3>b DEF Types
      <4>2. task' \in [Groups -> [Tasks -> States]]
        <5>1. [task[C] EXCEPT ![i] = "done"] \in [Tasks -> States] BY DEF Types, States
        <5>2. QED BY <5>1, <3>c DEF Types
      <4>3. notice' \in [Groups -> {"none", "registered", "due", "queued", "run"}] BY <3>d DEF Types
      <4>4. QED BY <4>1, <4>2, <4>3, <3>b, <3>e DEF Types
    <3>2. Concurrent' BY <3>a, <3>b, <3>c, <3>e DEF Types, Concurrent
    <3>3. Serial' BY <3>b, <3>c, <3>e DEF Types, Serial
    <3>4. Reports'
      <4>1. ASSUME notice[C] = "registered", count[C] = 1 PROVE AllDone(C)'
        <5>1. SUFFICES ASSUME NEW j \in Tasks PROVE task'[C][j] = "done"
          BY DEF AllDone
        <5>2. j \notin Active' BY <3>a, <4>1
        <5>3. ~(fun = C /\ pc = "loop") BY <4>1 DEF Reports
        <5>4. task'[C][j] \notin {"none", "left"} BY <3>2, <3>b, <3>e, <5>3 DEF Concurrent
        <5>5. task'[C][j] \in States BY <3>1 DEF Types
        <5>6. QED BY <5>2, <5>4, <5>5 DEF Active, States
      <4>2. AllDone(C) => AllDone(C)' BY <3>c DEF AllDone, Types
      <4>3. QED BY <4>1, <4>2, <3>a, <3>b, <3>d, <3>e DEF Types, Reports
    <3>5. Queue' BY <3>d, <3>e DEF Types, Queue
    <3>6. QED BY <3>1, <3>2, <3>3, <3>4, <3>5
  <2>10. ASSUME NEW i \in Tasks, EndTask(S, i) PROVE IInv'
    <3> USE <2>10 DEF EndTask, SetTask, Leave
    <3>0. Active' = Active BY DEF Types, Concurrent, Active
    <3>1. Types'
      <4>1. count' \in [Groups -> Nat] BY DEF Types, Serial
      <4>2. task' \in [Groups -> [Tasks -> States]] BY DEF Types, States
      <4>3. QED BY <4>1, <4>2 DEF Types, Serial
    <3>2. Concurrent' BY <3>0 DEF Types, Concurrent, Serial
    <3>3. Serial' BY DEF Types, Serial
    <3>4. Reports' BY <3>0 DEF Types, Concurrent, Serial, Reports, AllDone, Active
    <3>5. Queue' BY DEF Types, Serial, Reports, Queue
    <3>6. QED BY <3>1, <3>2, <3>3, <3>4, <3>5
  <2>11. ASSUME NEW i \in Tasks, LeaveInTask(i) PROVE IInv'
    <3> USE <2>11 DEF LeaveInTask, SetTask, Leave
    <3>0. Active' = Active BY DEF Types, Concurrent, Active
    <3>1. Types'
      <4>1. count' \in [Groups -> Nat] BY DEF Types, Serial
      <4>2. task' \in [Groups -> [Tasks -> States]] BY DEF Types, States
      <4>3. QED BY <4>1, <4>2 DEF Types, Serial
    <3>2. Concurrent' BY <3>0 DEF Types, Concurrent, Serial
    <3>3. Serial' BY DEF Types, Serial
    <3>4. Reports' BY <3>0 DEF Types, Concurrent, Serial, Reports, AllDone, Active
    <3>5. Queue' BY DEF Types, Serial, Reports, Queue
    <3>6. QED BY <3>1, <3>2, <3>3, <3>4, <3>5
  <2>12. CASE UNCHANGED vars
    <3> USE <2>12 DEF vars
    <3>0. Active' = Active BY DEF Types, Concurrent, Active
    <3>1. Types' BY <3>0 DEF Types, States, Concurrent, Serial
    <3>2. Concurrent' BY <3>0 DEF Types, Concurrent, Serial
    <3>3. Serial' BY DEF Types, Serial
    <3>4. Reports' BY <3>0 DEF Types, Concurrent, Serial, Reports, AllDone, Active
    <3>5. Queue' BY DEF Types, Serial, Reports, Queue
    <3>6. QED BY <3>1, <3>2, <3>3, <3>4, <3>5
  <2>13. ASSUME NEW g \in Groups, HandOver(g) PROVE IInv'
    <3> USE <2>13 DEF HandOver, QueueNotice
    <3>0. Active' = Active BY DEF Types, Concurrent, Active
    <3>a. g = C BY DEF Reports
    <3>1. Types' BY <3>0 DEF Types, States, Concurrent, Serial
    <3>2. Concurrent' BY <3>0 DEF Types, Concurrent, Serial
    <3>3. Serial' BY DEF Types, Serial
    <3>4. Reports'
      <4>1. AllDone(C)' = AllDone(C) BY DEF AllDone
      <4>2. QED BY <3>a, <4>1 DEF Types, Reports
    <3>5. Queue'
      <4>1. \/ mainQueue = <<>> /\ notice[S] # "queued"
            \/ mainQueue = <<S>> /\ notice[S] = "queued"
        BY <3>a DEF Queue
      <4>2. notice'[C] = "queued" /\ notice'[S] = notice[S] BY <3>a DEF Types
      <4>3. \/ mainQueue' = <<C>> /\ notice[S] # "queued"
            \/ mainQueue' = <<S, C>> /\ notice[S] = "queued"
        BY <3>a, <4>1, AppendNotice
      <4>4. QED BY <4>2, <4>3 DEF Queue
    <3>6. QED BY <3>1, <3>2, <3>3, <3>4, <3>5
  <2>14. QED
    BY <2>1, <2>2, <2>3, <2>4, <2>5, <2>6, <2>7, <2>8, <2>9, <2>10, <2>11, <2>12, <2>13
       DEF Next, MainThread, Worker
<1>3. QED
  BY <1>1, <1>2, PTL DEF Spec

(* The types, and that no leave finds the group empty: the process is not  *)
(* ended by an unbalanced leave.                                           *)
THEOREM TypeCorrect == Spec => [](TypeOK /\ fun # "trapped")
<1>1. IInv => TypeOK /\ fun # "trapped"
  <2> SUFFICES ASSUME IInv PROVE TypeOK /\ fun # "trapped" OBVIOUS
  <2>1. mainQueue \in Seq(Groups)
    <3>1. C \in Groups /\ S \in Groups BY DEF C, S, Groups
    <3>2. \A a, b \in Groups : <<>> \in Seq(Groups) /\ <<a>> \in Seq(Groups) /\ <<a, b>> \in Seq(Groups)
      OBVIOUS
    <3>3. mainQueue \in {<<>>, <<C>>, <<S>>, <<C, S>>, <<S, C>>}
      BY DEF IInv, Queue
    <3>4. QED BY <3>1, <3>2, <3>3
  <2>2. QED BY <2>1 DEF IInv, Types, TypeOK, States, Groups
<1>2. QED
  BY <1>1, Invariance, PTL

(* No group is reported complete, on the main queue or by the wait, while  *)
(* one of its tasks has not ended.                                         *)
THEOREM ReportsAlwaysTrue == Spec => []ReportsAreTrue
<1>1. IInv => ReportsAreTrue
  <2> SUFFICES ASSUME IInv PROVE ReportsAreTrue OBVIOUS
  <2> USE DEF IInv, Groups, C, S
  <2>1. notice[C] \in {"queued", "run"} \/ result[C] = "success" => AllDone(C)
    BY DEF Reports
  <2>2. notice[S] \in {"queued", "run"} \/ result[S] = "success" => AllDone(S)
    <3>1. SUFFICES ASSUME notice[S] # "none" \/ result[S] = "success", NEW i \in Tasks
                   PROVE  task[S][i] = "done"
      BY DEF AllDone
    <3>2. fun = "returned" \/ (fun = S /\ pc = "timed")
      BY <3>1 DEF Types, Reports
    <3>3. fun = "returned" \/ (fun = S /\ i < next)
      BY <3>2, MaxNumAssumption DEF Serial, Tasks
    <3>4. QED BY <3>3 DEF Serial
  <2>3. QED BY <2>1, <2>2 DEF ReportsAreTrue
<1>2. QED
  BY <1>1, Invariance, PTL

(* A task of the second function is handed over only when those before it  *)
(* have ended, and its last wait succeeds.                                 *)
THEOREM SerialAlwaysInOrder == Spec => []SerialInOrder
<1>1. IInv => SerialInOrder
  <2> SUFFICES ASSUME IInv PROVE SerialInOrder OBVIOUS
  <2> USE DEF IInv, Groups, C, S
  <2>1. ASSUME NEW i \in Tasks, NEW j \in Tasks, i < j, task[S][j] # "none"
        PROVE  task[S][i] = "done"
    BY <2>1, MaxNumAssumption DEF Types, Serial, Tasks
  <2>2. result[S] # "timedOut"
    BY DEF Reports
  <2>3. QED BY <2>1, <2>2 DEF SerialInOrder
<1>2. QED
  BY <1>1, Invariance, PTL
=============================================================================
