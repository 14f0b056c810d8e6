----------------------------- MODULE LBNSTimer ------------------------------
(***************************************************************************)
(* LBAppBaseFramework's LBNSTimer: start() and stop() may be called from   *)
(* any thread, nothing is synchronised, and the sources tick on a          *)
(* concurrent queue.                                                       *)
(*                                                                         *)
(* External: libdispatch and reference counting.  A source ticks from its  *)
(* resumption until it is cancelled or its last reference is gone, and its *)
(* handler never runs twice at once.  Assigning the strong field timer is  *)
(* not atomic: the old value is loaded, the new one stored, and the old    *)
(* one released, so that two assignments may release one reference twice   *)
(* (the process ends) or lose another (the source ticks for ever).         *)
(***************************************************************************)
EXTENDS Naturals, FiniteSets

CONSTANTS
  Callers,     \* the threads that call start and stop
  MaxSources,  \* bound: sources ever made
  Nil

Sources == 1..MaxSources

ASSUME SourcesAssumption == MaxSources \in Nat /\ Nil \notin Sources

VARIABLES
  isRunning,   \* the field isRunning
  timer,       \* the field timer
  made,        \* how many sources there have been
  refs,        \* refs[s]: strong references to the source s
  cancelled,   \* the sources that were cancelled
  ticking,     \* the sources whose handler is inside onTimer
  held,        \* whether somebody outside refers to the LBNSTimer
  alive,       \* whether the LBNSTimer has not been deallocated
  at,          \* at[c]: the line of start or stop that c executes next
  mine,        \* mine[c]: the local variable timer of start
  old,         \* old[c]: the value c loaded from the field
  overlapped,  \* history: whether two calls ever overlapped
  trapped      \* whether the process ended on a freed object

object == <<held, alive>>
fields == <<isRunning, timer>>
sources == <<made, refs, cancelled>>
locals == <<mine, old>>
vars == <<fields, sources, ticking, object, at, locals, overlapped, trapped>>

Armed == {s \in Sources : refs[s] > 0 /\ s \notin cancelled}
NoCall == \A c \in Callers : at[c] = "idle"

Init ==
  /\ isRunning = FALSE /\ timer = Nil
  /\ made = 0 /\ refs = [s \in Sources |-> 0] /\ cancelled = {} /\ ticking = {}
  /\ held = TRUE /\ alive = TRUE
  /\ at = [c \in Callers |-> "idle"]
  /\ mine = [c \in Callers |-> Nil] /\ old = [c \in Callers |-> Nil]
  /\ overlapped = FALSE /\ trapped = FALSE

Go(c, line) == at' = [at EXCEPT ![c] = line]

Retain(s) == refs' = [refs EXCEPT ![s] = @ + 1]

(* A reference to s goes; there must be one. *)
Release(s) ==
  IF s = Nil THEN UNCHANGED <<refs, trapped>>
  ELSE IF refs[s] = 0 THEN trapped' = TRUE /\ UNCHANGED refs
  ELSE refs' = [refs EXCEPT ![s] = @ - 1] /\ UNCHANGED trapped

(* Fault: the handler captures self, and an armed source its handler. *)
CapturedStrongly == Armed # {}

(* [weak self]: a source that is armed does not retain the LBNSTimer. *)
Captured == FALSE

(* What is left of the object once its references are as given: when the   *)
(* last one goes, so does its reference to the source in the field.        *)
Retire(outside, calls, handlers) ==
  IF outside \/ calls \/ handlers # {} \/ Captured
  THEN UNCHANGED <<alive, timer, refs, trapped>>
  ELSE alive' = FALSE /\ timer' = Nil /\ Release(timer)

-----------------------------------------------------------------------------
(* The guards of both: c has read isRunning, and has not written it yet.   *)
Call(c, line) ==
  /\ ~trapped /\ held /\ at[c] = "idle"
  /\ Go(c, line)
  /\ overlapped' = (overlapped \/ ~NoCall)
  /\ UNCHANGED <<fields, sources, ticking, object, locals, trapped>>

Starting == {c \in Callers : at[c] \in {"run", "arm"}}

start(c) ==
  /\ ~isRunning /\ made + Cardinality(Starting) < MaxSources
  /\ Call(c, "run")

stop(c) == isRunning /\ Call(c, "halt")

(* Fault: start does not say that it runs. *)
SetRunningOff(c) ==
  /\ ~trapped
  /\ \/ at[c] = "run" /\ UNCHANGED isRunning /\ Go(c, "arm")
     \/ at[c] = "halt" /\ isRunning' = FALSE /\ Go(c, "fetch")
  /\ UNCHANGED <<timer, sources, ticking, object, locals, overlapped, trapped>>

SetRunning(c) ==
  /\ ~trapped
  /\ \/ at[c] = "run" /\ isRunning' = TRUE /\ Go(c, "arm")
     \/ at[c] = "halt" /\ isRunning' = FALSE /\ Go(c, "fetch")
  /\ UNCHANGED <<timer, sources, ticking, object, locals, overlapped, trapped>>

(* makeTimerSource to resume(): from now on the new source ticks. *)
Arm(c) ==
  /\ ~trapped /\ at[c] = "arm"
  /\ made' = made + 1
  /\ mine' = [mine EXCEPT ![c] = made + 1]
  /\ Retain(made + 1)
  /\ Go(c, "load")
  /\ UNCHANGED <<fields, cancelled, ticking, object, old, overlapped, trapped>>

(* timer?.cancel(), first half: what is in the field is loaded. *)
Fetch(c) ==
  /\ ~trapped /\ at[c] = "fetch"
  /\ old' = [old EXCEPT ![c] = timer]
  /\ Go(c, "cancel")
  /\ UNCHANGED <<fields, sources, ticking, object, mine, overlapped, trapped>>

(* timer?.cancel(), second half: a source that is gone cannot be used. *)
Cancel(c) ==
  /\ ~trapped /\ at[c] = "cancel"
  /\ IF old[c] # Nil /\ refs[old[c]] = 0
     THEN trapped' = TRUE /\ UNCHANGED cancelled
     ELSE cancelled' = cancelled \cup ({old[c]} \ {Nil}) /\ UNCHANGED trapped
  /\ Go(c, "load")
  /\ UNCHANGED <<fields, made, refs, ticking, object, locals, overlapped>>

(* self.timer = timer of start, timer = nil of stop: the old value ... *)
Load(c) ==
  /\ ~trapped /\ at[c] = "load"
  /\ old' = [old EXCEPT ![c] = timer]
  /\ Go(c, "store")
  /\ UNCHANGED <<fields, sources, ticking, object, mine, overlapped, trapped>>

(* ... is released once the new one is stored.  The reference in the local *)
(* variable of start becomes the one in the field.                         *)
Store(c) ==
  /\ ~trapped /\ at[c] = "store"
  /\ timer' = mine[c] /\ Release(old[c])
  /\ Go(c, "return")
  /\ UNCHANGED <<isRunning, made, cancelled, ticking, object, locals, overlapped>>

Return(c) ==
  /\ ~trapped /\ at[c] = "return"
  /\ Go(c, "idle")
  /\ mine' = [mine EXCEPT ![c] = Nil] /\ old' = [old EXCEPT ![c] = Nil]
  /\ Retire(held, \E d \in Callers \ {c} : at[d] # "idle", ticking)
  /\ UNCHANGED <<isRunning, made, cancelled, ticking, held, overlapped>>

(* The owner lets go of the timer without having stopped it: what becomes  *)
(* of a timer in a local variable, as in the test apps' viewDidLoad.       *)
Drop ==
  /\ ~trapped /\ held
  /\ held' = FALSE
  /\ Retire(FALSE, ~NoCall, ticking)
  /\ UNCHANGED <<isRunning, made, cancelled, ticking, at, locals, overlapped>>

(* The handler: self?.onTimer() holds the object until onTimer returns. *)
BeginTick(s) ==
  /\ ~trapped /\ s \in Armed \ ticking /\ alive
  /\ ticking' = ticking \cup {s}
  /\ UNCHANGED <<fields, sources, object, at, locals, overlapped, trapped>>

EndTick(s) ==
  /\ ~trapped /\ s \in ticking
  /\ ticking' = ticking \ {s}
  /\ Retire(held, ~NoCall, ticking \ {s})
  /\ UNCHANGED <<isRunning, made, cancelled, held, at, locals, overlapped>>

Next ==
  \/ \E c \in Callers :
       \/ start(c) \/ stop(c) \/ SetRunning(c) \/ Arm(c)
       \/ Fetch(c) \/ Cancel(c) \/ Load(c) \/ Store(c) \/ Return(c)
  \/ \E s \in Sources : BeginTick(s) \/ EndTick(s)
  \/ Drop

Spec == Init /\ [][Next]_vars

-----------------------------------------------------------------------------
TypeOK ==
  /\ isRunning \in BOOLEAN /\ timer \in Sources \cup {Nil}
  /\ made \in 0..MaxSources /\ refs \in [Sources -> Nat]
  /\ cancelled \subseteq Sources /\ ticking \subseteq Sources
  /\ held \in BOOLEAN /\ alive \in BOOLEAN
  /\ at \in [Callers -> {"idle", "run", "arm", "halt", "fetch", "cancel", "load", "store", "return"}]
  /\ mine \in [Callers -> Sources \cup {Nil}] /\ old \in [Callers -> Sources \cup {Nil}]
  /\ overlapped \in BOOLEAN /\ trapped \in BOOLEAN

(* As long as no two calls overlap, on whatever threads they are made:     *)
(* nothing that is gone is used, and between calls the one source that     *)
(* ticks is the one in the field, while isRunning says so.  (Two calls     *)
(* that overlap can break every part of this.)                             *)
SerializedUseIsSound ==
  ~overlapped =>
    /\ ~trapped
    /\ NoCall => Armed = IF isRunning /\ alive THEN {timer} ELSE {}

(* When the owner lets go of a timer, started or not, and even from inside *)
(* onTimer or while start is running, it stops ticking: no source survives *)
(* the object.                                                             *)
TicksEndWithOwner ==
  ~overlapped /\ ~held /\ NoCall /\ ticking = {} => Armed = {}
=============================================================================
