--------------------------- MODULE DispatchGroup ----------------------------
(***************************************************************************)
(* DispatchGroupTest: viewDidLoad calls testDispatchGroupConcurrent and    *)
(* testDispatchGroupSerial one after the other on the main thread.  Each   *)
(* has a group of its own (named here after the function), hands MaxNum    *)
(* tasks to as many private queues, asks to be notified on the main queue, *)
(* and waits at most five seconds.                                         *)
(*                                                                         *)
(* The queues of a function are different objects even where their labels  *)
(* are equal, so a task may begin at any time after it was handed over.    *)
(* External: libdispatch.  A group counts; async(group:) enters it at once *)
(* and leaves it when the block has returned; a leave that takes the count *)
(* below zero ends the process; when the count comes to zero, the last to  *)
(* leave hands the block that waits for it to the main queue, which runs   *)
(* once viewDidLoad returned.  A wait answers by the count alone, be that  *)
(* block handed over already or not.                                       *)
(* That five seconds have passed is a free choice while the count is not   *)
(* zero.                                                                   *)
(***************************************************************************)
EXTENDS Integers, Sequences

CONSTANT MaxNum     \* maxNum of both functions

ASSUME MaxNumAssumption == MaxNum \in Nat

Groups == {"concurrent", "serial"}
Tasks == 1..MaxNum

VARIABLES
  fun,       \* the function the main thread is in, or "returned", "trapped"
  pc,        \* where in the function: "loop", "each", "timed"
  next,      \* the loop variable, from 1
  count,     \* count[g]: what the group g counts
  task,      \* task[g][i]: "none", "queued", "running", "left" or "done"
  notice,    \* notice[g]: "none", "registered", "due", "queued" or "run"
  mainQueue, \* the groups whose notify blocks the main queue holds
  result     \* result[g]: "none", or what the wait with a timeout answered

vars == <<fun, pc, next, count, task, notice, mainQueue, result>>
reports == <<notice, mainQueue>>

Init ==
  /\ fun = "concurrent" /\ pc = "loop" /\ next = 1
  /\ count = [g \in Groups |-> 0]
  /\ task = [g \in Groups |-> [i \in Tasks |-> "none"]]
  /\ notice = [g \in Groups |-> "none"] /\ mainQueue = <<>>
  /\ result = [g \in Groups |-> "none"]

SetTask(g, i, state) == task' = [task EXCEPT ![g][i] = state]

(* Fault: the group is not entered on behalf of the task. *)
EnterNot(g, n) == count' = [count EXCEPT ![g] = @ + n - 1]

(* The group is entered n times. *)
Enter(g, n) == count' = [count EXCEPT ![g] = @ + n]

QueueNotice(g) ==
  /\ notice' = [notice EXCEPT ![g] = "queued"]
  /\ mainQueue' = Append(mainQueue, g)

(* The group is left once: the last one out has a block to hand over. *)
Leave(g) ==
  /\ count' = [count EXCEPT ![g] = @ - 1]
  /\ fun' = IF count[g] = 0 THEN "trapped" ELSE fun
  /\ notice' = IF count[g] = 1 /\ notice[g] = "registered"
               THEN [notice EXCEPT ![g] = "due"] ELSE notice
  /\ UNCHANGED mainQueue

-----------------------------------------------------------------------------
(* The main thread. *)

(* queue.async(group:) in the loop of the first function: the group is     *)
(* entered by async alone.                                                 *)
SubmitConcurrent ==
  /\ fun = "concurrent" /\ pc = "loop" /\ next <= MaxNum
  /\ Enter("concurrent", 1) /\ SetTask("concurrent", next, "queued")
  /\ next' = next + 1
  /\ UNCHANGED <<fun, pc, reports, result>>

(* enter() and queue.async(group:): the group is entered twice per task. *)
SubmitSerial ==
  /\ fun = "serial" /\ pc = "loop" /\ next <= MaxNum
  /\ Enter("serial", 2) /\ SetTask("serial", next, "queued")
  /\ pc' = "each"
  /\ UNCHANGED <<fun, next, reports, result>>

(* Fault: the loop goes on without waiting. *)
WaitForNone ==
  /\ fun = "serial" /\ pc = "each"
  /\ pc' = "loop" /\ next' = next + 1
  /\ UNCHANGED <<fun, count, task, reports, result>>

(* dispatchGroup.wait() at the end of every turn of the second loop. *)
WaitForEach ==
  /\ fun = "serial" /\ pc = "each" /\ count["serial"] = 0
  /\ pc' = "loop" /\ next' = next + 1
  /\ UNCHANGED <<fun, count, task, reports, result>>

(* Fault: the block goes to the main queue without regard to the count. *)
NotifyAtOnce ==
  /\ fun \in Groups /\ pc = "loop" /\ next = MaxNum + 1
  /\ QueueNotice(fun)
  /\ pc' = "timed"
  /\ UNCHANGED <<fun, next, count, task, result>>

(* notify(queue: .main): at once if the count is zero, else when it is. *)
Notify ==
  /\ fun \in Groups /\ pc = "loop" /\ next = MaxNum + 1
  /\ IF count[fun] = 0
     THEN QueueNotice(fun)
     ELSE notice' = [notice EXCEPT ![fun] = "registered"] /\ UNCHANGED mainQueue
  /\ pc' = "timed"
  /\ UNCHANGED <<fun, next, count, task, result>>

(* wait(timeout: .now() + 5) and the return from the function. *)
WaitAtMost ==
  /\ fun \in Groups /\ pc = "timed"
  /\ result' = [result EXCEPT ![fun] = IF count[fun] = 0 THEN "success" ELSE "timedOut"]
  /\ IF fun = "concurrent" THEN fun' = "serial" /\ pc' = "loop" /\ next' = 1
                           ELSE fun' = "returned" /\ UNCHANGED <<pc, next>>
  /\ UNCHANGED <<count, task, reports>>

(* The main queue, once the main thread is back in its run loop. *)
RunNotice ==
  /\ fun = "returned" /\ mainQueue # <<>>
  /\ notice' = [notice EXCEPT ![Head(mainQueue)] = "run"]
  /\ mainQueue' = Tail(mainQueue)
  /\ UNCHANGED <<fun, pc, next, count, task, result>>

-----------------------------------------------------------------------------
(* The threads of the private queues. *)

Running == fun # "trapped"

BeginTask(g, i) ==
  /\ Running /\ task[g][i] = "queued"
  /\ SetTask(g, i, "running")
  /\ UNCHANGED <<fun, pc, next, count, reports, result>>

(* Fault: the task forgets to leave. *)
LeaveForgotten(i) ==
  /\ Running /\ task["serial"][i] = "running"
  /\ SetTask("serial", i, "left")
  /\ UNCHANGED <<fun, count, reports, pc, next, result>>

(* dispatchGroup.leave() at the end of a block of the second function. *)
LeaveInTask(i) ==
  /\ Running /\ task["serial"][i] = "running"
  /\ SetTask("serial", i, "left") /\ Leave("serial")
  /\ UNCHANGED <<pc, next, result>>

(* The block returns, and libdispatch leaves the group it entered. *)
EndTask(g, i) ==
  /\ Running /\ task[g][i] = (IF g = "serial" THEN "left" ELSE "running")
  /\ SetTask(g, i, "done") /\ Leave(g)
  /\ UNCHANGED <<pc, next, result>>

(* The thread that left last hands the block over; in between, any other   *)
(* thread may see that the count is zero.                                  *)
HandOver(g) ==
  /\ Running /\ notice[g] = "due"
  /\ QueueNotice(g)
  /\ UNCHANGED <<fun, pc, next, count, task, result>>

MainThread ==
  \/ SubmitConcurrent \/ SubmitSerial \/ WaitForEach
  \/ Notify \/ WaitAtMost \/ RunNotice

Worker(i) == (\E g \in Groups : BeginTask(g, i) \/ EndTask(g, i)) \/ LeaveInTask(i)

Next == MainThread \/ (\E i \in Tasks : Worker(i)) \/ \E g \in Groups : HandOver(g)

(* Threads that can run do run: every block is a loop over three numbers,  *)
(* and the main thread blocks only in wait.                                *)
Spec ==
  /\ Init /\ [][Next]_vars
  /\ WF_vars(MainThread) /\ \A i \in Tasks : WF_vars(Worker(i))
  /\ \A g \in Groups : WF_vars(HandOver(g))

-----------------------------------------------------------------------------
AllDone(g) == \A i \in Tasks : task[g][i] = "done"

TypeOK ==
  /\ fun \in Groups \cup {"returned", "trapped"} /\ pc \in {"loop", "each", "timed"}
  /\ next \in 1..(MaxNum + 1)
  /\ count \in [Groups -> Nat]
  /\ task \in [Groups -> [Tasks -> {"none", "queued", "running", "left", "done"}]]
  /\ notice \in [Groups -> {"none", "registered", "due", "queued", "run"}]
  /\ mainQueue \in Seq(Groups)
  /\ result \in [Groups -> {"none", "success", "timedOut"}]

(* "When all tasks have completed, on the main queue" (lines 38 and 77),   *)
(* and "all tasks completed within the time" (lines 47 and 86): neither    *)
(* is ever said of a group with a task still to begin or to end, however   *)
(* late tasks run and whatever the other function does meanwhile.          *)
ReportsAreTrue ==
  \A g \in Groups :
    notice[g] \in {"queued", "run"} \/ result[g] = "success" => AllDone(g)

(* The tasks of the second function run one at a time and in order, on     *)
(* three different queues, and its last wait can no longer time out; tasks *)
(* of the first function that outlived its wait do not disturb that.       *)
SerialInOrder ==
  /\ \A i, j \in Tasks : i < j /\ task["serial"][j] # "none" => task["serial"][i] = "done"
  /\ result["serial"] # "timedOut"

(* No wait blocks the main thread for ever and no leave is unbalanced:     *)
(* viewDidLoad returns and both blocks run.                                *)
BothNotified == <>(\A g \in Groups : notice[g] = "run")
=============================================================================
