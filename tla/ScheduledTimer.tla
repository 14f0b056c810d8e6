--------------------------- MODULE ScheduledTimer ---------------------------
(***************************************************************************)
(* The LBNSTimer of the LBAppBaseFramework pod: it ticks from its          *)
(* initialiser on, on a concurrent queue; each tick puts a block on the    *)
(* main queue, and the block calls the user's block, or sends the selector *)
(* to the target.  cancel() may be called on the main thread, from inside  *)
(* that very call too, or on another thread; calls of cancel do not        *)
(* overlap each other.                                                     *)
(*                                                                         *)
(* External: libdispatch and reference counting.  A source ticks from      *)
(* resume() until it is cancelled or released, its handler never twice at  *)
(* once; an object lives while something alive refers to it, and two       *)
(* objects that refer to each other live until one lets go.                *)
(*                                                                         *)
(* The timer repeats whatever repeats says: the code ignores it.  userInfo *)
(* is set and cleared with target and only passed on; it is left out.      *)
(***************************************************************************)
EXTENDS Naturals

CONSTANT MaxQueued    \* bound: blocks of the timer on the main queue

ASSUME MaxQueuedAssumption == MaxQueued \in Nat

Threads == {"main", "other"}

VARIABLES
  variant,     \* which initialiser made it: "block" or "target"
  maker,       \* the thread that ran the initialiser
  owns,        \* whether the target refers to the timer, as a controller does
  isRunning, hasTimer, hasTarget, hasSelector,   \* the fields: whether set
  armed,       \* whether the source ticks
  handler,     \* whether a tick holds the timer and is about to enqueue
  queued,      \* how many blocks are on the main queue
  run,         \* the block on the main thread: "idle", "asked", "calling"
  at,          \* at[t]: the line of init or cancel the thread t is at, or "no"
  held,        \* whether somebody outside refers to the timer
  targetHeld,  \* whether somebody outside refers to the target
  cancelled,   \* history: a cancel that passed its guard has returned
  offMain,     \* history: a cancel passed its guard off the main thread
  trapped      \* whether a nil selector was sent

kind == <<variant, maker, owns>>
fields == <<isRunning, hasTimer, hasTarget, hasSelector>>
queue == <<handler, queued, run>>
owners == <<held, targetHeld>>
history == <<cancelled, offMain, trapped>>
vars == <<kind, fields, armed, queue, at, owners, history>>

Init ==
  /\ variant \in {"block", "target"} /\ maker \in Threads
  /\ owns \in (IF variant = "target" THEN BOOLEAN ELSE {FALSE})
  /\ isRunning = TRUE /\ hasTimer = FALSE
  /\ hasTarget = (variant = "target") /\ hasSelector = (variant = "target")
  /\ armed = FALSE /\ handler = FALSE /\ queued = 0 /\ run = "idle"
  /\ at = [t \in Threads |-> IF t = maker THEN "resume" ELSE "no"]
  /\ held = TRUE /\ targetHeld = (variant = "target")
  /\ cancelled = FALSE /\ offMain = FALSE /\ trapped = FALSE

(* The timer is referred to by an owner, by a tick, by a block on the main *)
(* queue or running, by a method in progress, and by a target that owns it *)
(* and is itself referred to: by others, or by the timer.                  *)
Busy == handler \/ queued > 0 \/ run # "idle" \/ \E t \in Threads : at[t] # "no"
Alive == held \/ Busy \/ (owns /\ (targetHeld \/ hasTarget))

Made == at[maker] \notin {"resume", "assign"}

Go(t, line) == at' = [at EXCEPT ![t] = line]

-----------------------------------------------------------------------------
(* The last lines of both initialisers: the source ticks from resume() on, *)
(* and is assigned to the field only then.                                 *)
Resume ==
  /\ ~trapped /\ at[maker] = "resume"
  /\ armed' = TRUE /\ Go(maker, "assign")
  /\ UNCHANGED <<kind, fields, queue, owners, history>>

Assign ==
  /\ ~trapped /\ at[maker] = "assign"
  /\ hasTimer' = TRUE /\ Go(maker, "no")
  /\ UNCHANGED <<kind, isRunning, hasTarget, hasSelector, armed, queue, owners, history>>

(* The event handler on the shared queue: guard let strongSelf = self ... *)
Tick ==
  /\ ~trapped /\ armed /\ Alive /\ ~handler /\ queued < MaxQueued
  /\ handler' = TRUE
  /\ UNCHANGED <<kind, fields, armed, queued, run, at, owners, history>>

(* ... and DispatchQueue.main.async. *)
Enqueue ==
  /\ ~trapped /\ handler
  /\ handler' = FALSE /\ queued' = queued + 1
  /\ UNCHANGED <<kind, fields, armed, run, at, owners, history>>

(* Fault: the block does not ask whether there is a target and a selector. *)
RunBlockUnasked ==
  /\ ~trapped /\ queued > 0 /\ run = "idle" /\ at["main"] = "no"
  /\ queued' = queued - 1
  /\ run' = IF variant = "block" THEN "calling" ELSE "asked"
  /\ UNCHANGED <<kind, fields, armed, handler, at, owners, history>>

(* The block, on the main thread: it calls the user's block, or finds that *)
(* there is a target which responds to the selector, or prints.            *)
RunBlock ==
  /\ ~trapped /\ queued > 0 /\ run = "idle" /\ at["main"] = "no"
  /\ queued' = queued - 1
  /\ run' = IF variant = "block" THEN "calling"
            ELSE IF hasTarget /\ hasSelector THEN "asked" ELSE "idle"
  /\ UNCHANGED <<kind, fields, armed, handler, at, owners, history>>

(* target.perform(strongSelf.selector, ...) reads the field once more. *)
Perform ==
  /\ ~trapped /\ run = "asked"
  /\ IF hasSelector THEN run' = "calling" /\ UNCHANGED trapped
                    ELSE trapped' = TRUE /\ UNCHANGED run
  /\ UNCHANGED <<kind, fields, armed, handler, queued, at, owners, cancelled, offMain>>

CallReturns ==
  /\ ~trapped /\ run = "calling" /\ at["main"] = "no"
  /\ run' = "idle"
  /\ UNCHANGED <<kind, fields, armed, handler, queued, at, owners, history>>

-----------------------------------------------------------------------------
(* Who can name the timer: an owner once the initialiser has returned, and *)
(* the call in progress, a user's block by its argument from the first     *)
(* tick on, a target by its own reference.                                 *)
MayCancel(t) ==
  \/ Made /\ (held \/ (owns /\ targetHeld)) /\ (t = "main" => run # "asked")
  \/ t = "main" /\ run = "calling" /\ (variant = "block" \/ (owns /\ Made))

(* cancel(), a field after the other. *)
cancel(t) ==
  /\ ~trapped /\ MayCancel(t) /\ isRunning
  /\ \A u \in Threads : at[u] \in {"no", "resume", "assign"}
  /\ at[t] = "no"
  /\ isRunning' = FALSE /\ offMain' = (t # "main")
  /\ Go(t, "disarm")
  /\ UNCHANGED <<kind, hasTimer, hasTarget, hasSelector, armed, queue, owners, cancelled, trapped>>

(* Fault: the source is left alone. *)
DisarmNot(t) ==
  /\ ~trapped /\ at[t] = "disarm"
  /\ Go(t, "target")
  /\ UNCHANGED <<kind, fields, armed, queue, owners, history>>

(* timer?.cancel(); timer = nil *)
Disarm(t) ==
  /\ ~trapped /\ at[t] = "disarm"
  /\ armed' = (armed /\ ~hasTimer) /\ hasTimer' = FALSE
  /\ Go(t, "target")
  /\ UNCHANGED <<kind, isRunning, hasTarget, hasSelector, queue, owners, history>>

(* Fault: the target is kept. *)
KeepTarget(t) ==
  /\ ~trapped /\ at[t] = "target"
  /\ Go(t, "selector")
  /\ UNCHANGED <<kind, fields, armed, queue, owners, history>>

ClearTarget(t) ==
  /\ ~trapped /\ at[t] = "target"
  /\ hasTarget' = FALSE
  /\ Go(t, "selector")
  /\ UNCHANGED <<kind, isRunning, hasTimer, hasSelector, armed, queue, owners, history>>

(* Fault: the selector is kept. *)
KeepSelector(t) ==
  /\ ~trapped /\ at[t] = "selector"
  /\ cancelled' = TRUE
  /\ Go(t, "no")
  /\ UNCHANGED <<kind, fields, armed, queue, owners, offMain, trapped>>

(* selector = nil, and the return. *)
ClearSelector(t) ==
  /\ ~trapped /\ at[t] = "selector"
  /\ hasSelector' = FALSE /\ cancelled' = TRUE
  /\ Go(t, "no")
  /\ UNCHANGED <<kind, isRunning, hasTimer, hasTarget, armed, queue, owners, offMain, trapped>>

(* An owner of the timer, or of the target, lets go of it. *)
Drop ==
  /\ ~trapped /\ Made
  /\ \/ held /\ held' = FALSE /\ UNCHANGED targetHeld
     \/ targetHeld /\ targetHeld' = FALSE /\ UNCHANGED held
  /\ UNCHANGED <<kind, fields, armed, queue, at, history>>

Block == RunBlock \/ Perform \/ CallReturns
CancelStep(t) == Disarm(t) \/ ClearTarget(t) \/ ClearSelector(t)

Next ==
  \/ Resume \/ Assign \/ Tick \/ Enqueue \/ Block \/ Drop
  \/ \E t \in Threads : cancel(t) \/ CancelStep(t)

(* A tick that began enqueues, the main thread runs its queue, the calls   *)
(* of the user's code return, and so does cancel.                          *)
Spec ==
  /\ Init /\ [][Next]_vars
  /\ WF_vars(Enqueue) /\ WF_vars(Block)
  /\ \A t \in Threads : WF_vars(CancelStep(t))

-----------------------------------------------------------------------------
TypeOK ==
  /\ variant \in {"block", "target"} /\ maker \in Threads /\ owns \in BOOLEAN
  /\ isRunning \in BOOLEAN /\ hasTimer \in BOOLEAN
  /\ hasTarget \in BOOLEAN /\ hasSelector \in BOOLEAN /\ armed \in BOOLEAN
  /\ handler \in BOOLEAN /\ queued \in Nat /\ run \in {"idle", "asked", "calling"}
  /\ at \in [Threads -> {"no", "resume", "assign", "disarm", "target", "selector"}]
  /\ held \in BOOLEAN /\ targetHeld \in BOOLEAN
  /\ cancelled \in BOOLEAN /\ offMain \in BOOLEAN /\ trapped \in BOOLEAN

(* A timer that was cancelled no longer ticks, with one exception: a block *)
(* timer made off the main thread can be cancelled by its first tick while *)
(* the initialiser has still to assign the source; it then ticks on, and   *)
(* isRunning keeps every later cancel from stopping it.                    *)
CancelStops ==
  cancelled /\ armed => maker = "other" /\ variant = "block"

(* The block asks for target and selector and reads the selector again to  *)
(* send it: only a cancel on another thread can come in between and make   *)
(* it send nil.                                                            *)
TrapsOnlyAcrossThreads == trapped => offMain

(* No block that was on the main queue, or half-way through, when cancel   *)
(* returned sends the selector to the target.                              *)
NeverMessagedAfterCancel ==
  [][run = "asked" /\ run' = "calling" => ~cancelled]_vars

(* A cancel that stopped the source brings the timer to rest: its blocks   *)
(* run out, and only an owner keeps it alive, not the target it had.       *)
SettlesAfterCancel ==
  (cancelled /\ ~armed) ~> (trapped \/ [](~Busy /\ (Alive => held \/ targetHeld)))
=============================================================================
