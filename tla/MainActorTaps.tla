--------------------------- MODULE MainActorTaps ----------------------------
(***************************************************************************)
(* MainActorTest's view controller.  Every tap on its button starts a task *)
(* that counts the tap, sleeps for a second, and then shows the count; the *)
(* tasks of several taps overlap at the sleep.                             *)
(*                                                                         *)
(* External: UIKit makes the class one of the main actor, so that a task   *)
(* runs on the main thread without interruption up to its next suspension. *)
(* MainActor.run belongs to no actor, so that awaiting it may take the     *)
(* task off the main thread and back.  The main queue is first in, first   *)
(* out; sleepers, and a task that is off the main thread, return to it in  *)
(* any order.                                                              *)
(***************************************************************************)
EXTENDS Naturals, Sequences

CONSTANT MaxTaps     \* bound: taps on the button

ASSUME MaxTapsAssumption == MaxTaps \in Nat

VARIABLES
  countNumber,     \* the taps counted
  structCount,     \* structInstance.count
  label,           \* the number textLabel shows, 0 while it shows a text
  mainQueue,       \* the jobs the main thread has to run, in order
  asleep,          \* asleep[i]: tap i's task is in Task.sleep
  away,            \* the task with the message is off the main thread
  seen,            \* history: seen[i], the count that tap i's task made
  shown,           \* history: the last number that the label showed
  taps

vars == <<countNumber, structCount, label, mainQueue, asleep, away, seen, shown, taps>>

Taps == 1..MaxTaps
Job(does, i) == [does |-> does, tap |-> i]

(* viewDidLoad has created its two tasks. *)
Init ==
  /\ countNumber = 0 /\ structCount = 0 /\ label = 0
  /\ mainQueue = <<Job("increment", 0), Job("message", 0)>>
  /\ asleep = [i \in Taps |-> FALSE] /\ away = FALSE
  /\ seen = [i \in Taps |-> 0] /\ shown = 0 /\ taps = 0

(* handleTestMainActorEvent: a task, to start when the main thread can. *)
Tap ==
  /\ taps < MaxTaps
  /\ taps' = taps + 1
  /\ mainQueue' = Append(mainQueue, Job("fetchData", taps + 1))
  /\ UNCHANGED <<countNumber, structCount, label, asleep, away, seen, shown>>

Run(does) == mainQueue # <<>> /\ Head(mainQueue).does = does /\ mainQueue' = Tail(mainQueue)

(* The first task of viewDidLoad. *)
Increment ==
  /\ Run("increment")
  /\ structCount' = structCount + 1
  /\ UNCHANGED <<countNumber, label, asleep, away, seen, shown, taps>>

(* The second, up to await MainActor.run, which may suspend it. *)
PerformTask ==
  /\ Run("message")
  /\ \/ away' = TRUE /\ UNCHANGED label
     \/ label' = 0 /\ UNCHANGED away
  /\ UNCHANGED <<countNumber, structCount, asleep, seen, shown, taps>>

(* MainActor.run hands its body to the main thread. *)
HopBack ==
  /\ away
  /\ away' = FALSE
  /\ mainQueue' = Append(mainQueue, Job("body", 0))
  /\ UNCHANGED <<countNumber, structCount, label, asleep, seen, shown, taps>>

(* The body: a text replaces what the label shows. *)
ShowMessage ==
  /\ Run("body")
  /\ label' = 0
  /\ UNCHANGED <<countNumber, structCount, asleep, away, seen, shown, taps>>

(* fetchData up to its suspension. *)
FetchData ==
  /\ Run("fetchData")
  /\ countNumber' = countNumber + 1
  /\ LET i == Head(mainQueue).tap
     IN  /\ seen' = [seen EXCEPT ![i] = countNumber + 1]
         /\ asleep' = [asleep EXCEPT ![i] = TRUE]
  /\ UNCHANGED <<structCount, label, away, shown, taps>>

(* Fault: a sleep that throws ends the task. *)
WakeThrowing(i) ==
  /\ asleep[i]
  /\ asleep' = [asleep EXCEPT ![i] = FALSE]
  /\ UNCHANGED <<countNumber, structCount, label, mainQueue, away, seen, shown, taps>>

(* Task.sleep is over: the task is to be resumed on the main thread. *)
Wake(i) ==
  /\ asleep[i]
  /\ asleep' = [asleep EXCEPT ![i] = FALSE]
  /\ mainQueue' = Append(mainQueue, Job("updateUI", i))
  /\ UNCHANGED <<countNumber, structCount, label, away, seen, shown, taps>>

(* Fault: the task shows the count it saw before it slept. *)
UpdateSeen ==
  /\ Run("updateUI")
  /\ label' = seen[Head(mainQueue).tap] /\ shown' = label'
  /\ UNCHANGED <<countNumber, structCount, asleep, away, seen, taps>>

(* updateUI: the count as it is now. *)
UpdateUI ==
  /\ Run("updateUI")
  /\ label' = countNumber /\ shown' = label'
  /\ UNCHANGED <<countNumber, structCount, asleep, away, seen, taps>>

MainThread == Increment \/ PerformTask \/ ShowMessage \/ FetchData \/ UpdateUI

Next == Tap \/ MainThread \/ HopBack \/ \E i \in Taps : Wake(i)

(* The main thread runs what is queued, a sleep of a second ends, and a    *)
(* task that is off the main thread comes back to it.                      *)
Spec ==
  /\ Init /\ [][Next]_vars
  /\ WF_vars(MainThread) /\ WF_vars(HopBack) /\ \A i \in Taps : WF_vars(Wake(i))

-----------------------------------------------------------------------------
(* The step in which the task of tap i shows the count. *)
Resumed(i) ==
  mainQueue # <<>> /\ Head(mainQueue) = Job("updateUI", i) /\ mainQueue' = Tail(mainQueue)

(* In whatever order overlapping tasks wake, and whether or not the text   *)
(* of viewDidLoad came in between, no number on the label is followed by a *)
(* smaller one; a task shows its own tap or a later one.                   *)
NumbersNeverGoBack ==
  [][/\ shown' >= shown
     /\ \A i \in Taps : Resumed(i) => label' >= seen[i]]_vars

(* No tap is lost to the overlap: after each the label comes to show a     *)
(* number that has counted it, even if never its own number, and even if   *)
(* the text of viewDidLoad replaces it later.                              *)
EveryTapShown == \A i \in Taps : taps >= i ~> shown >= i
=============================================================================
