------------------------ MODULE ScheduledTimerProofs ------------------------
(* Proofs about the pod's LBNSTimer, for every bound on the main queue.    *)
EXTENDS ScheduledTimer, TLAPS

InCancel(t) == at[t] \in {"disarm", "target", "selector"}
PastDisarm == cancelled \/ \E t \in Threads : at[t] \in {"target", "selector"}

(* The types of the variables, those that are truth values apart. *)
Flags ==
  /\ owns \in BOOLEAN /\ isRunning \in BOOLEAN /\ hasTimer \in BOOLEAN
  /\ hasTarget \in BOOLEAN /\ hasSelector \in BOOLEAN /\ armed \in BOOLEAN
  /\ handler \in BOOLEAN /\ held \in BOOLEAN /\ targetHeld \in BOOLEAN
  /\ cancelled \in BOOLEAN /\ offMain \in BOOLEAN /\ trapped \in BOOLEAN

Others ==
  /\ variant \in {"block", "target"} /\ maker \in Threads
  /\ queued \in Nat /\ run \in {"idle", "asked", "calling"}
  /\ at \in [Threads -> {"no", "resume", "assign", "disarm", "target", "selector"}]

(* The one way in which a cancel may miss the source. *)
ByFirstTick == maker = "other" /\ variant = "block"

(* There is one cancel at most, and it began while isRunning was true. *)
OneCancel ==
  /\ isRunning => ~cancelled /\ \A t \in Threads : ~InCancel(t)
  /\ \A t, u \in Threads : InCancel(t) /\ InCancel(u) => t = u
  /\ cancelled => \A t \in Threads : ~InCancel(t)

(* A cancel finds the source in the field, or has come too early for it. *)
SourceInField ==
  /\ armed /\ Made /\ ~PastDisarm => hasTimer
  /\ cancelled \/ (\E t \in Threads : InCancel(t)) => Made \/ ByFirstTick
  /\ PastDisarm /\ armed => ByFirstTick

(* Where the selector is nil though the block found it there. *)
SelectorGone ==
  /\ cancelled => ~hasSelector
  /\ InCancel("other") => offMain
  /\ at["main"] # "no" => run # "asked"
  /\ run = "asked" /\ ~hasSelector => offMain
  /\ trapped => offMain

IInv == TypeOK /\ OneCancel /\ SourceInField /\ SelectorGone

(* The types, the single cancel, the field and the selector hold of the    *)
(* timer from its initialiser on, as every step of init, of a tick, of a   *)
(* block and of cancel preserves them.                                     *)
THEOREM Invariance == Spec => []IInv
<1>1. Init => IInv
  <2> SUFFICES ASSUME Init PROVE IInv OBVIOUS
  <2> USE DEF Init, Threads
  <2>1. TypeOK BY DEF TypeOK
  <2>2. OneCancel BY DEF OneCancel, InCancel
  <2>3. SourceInField BY DEF SourceInField, InCancel, PastDisarm, ByFirstTick, Made
  <2>4. SelectorGone BY DEF SelectorGone, InCancel
  <2>5. QED BY <2>1, <2>2, <2>3, <2>4 DEF IInv
<1>2. IInv /\ [Next]_vars => IInv'
  <2> SUFFICES ASSUME IInv, [Next]_vars PROVE IInv'
    OBVIOUS
  <2> USE DEF IInv, Go, kind, fields, queue, owners, history, Threads
  <2>1. CASE Resume
    <3> USE <2>1 DEF Resume
    <3>1. TypeOK' BY DEF TypeOK
    <3>2. OneCancel' BY DEF TypeOK, OneCancel, InCancel
    <3>3. SourceInField' BY DEF TypeOK, SourceInField, InCancel, PastDisarm, ByFirstTick, Made
    <3>4. SelectorGone' BY DEF TypeOK, SelectorGone, InCancel
    <3>5. QED BY <3>1, <3>2, <3>3, <3>4
  <2>2. CASE Assign
    <3> USE <2>2 DEF Assign
    <3>1. TypeOK' BY DEF TypeOK
    <3>2. OneCancel' BY DEF TypeOK, OneCancel, InCancel
    <3>3. SourceInField' BY DEF TypeOK, SourceInField, InCancel, PastDisarm, ByFirstTick, Made
    <3>4. SelectorGone' BY DEF TypeOK, SelectorGone, InCancel
    <3>5. QED BY <3>1, <3>2, <3>3, <3>4
  <2>3. CASE Tick
    <3> USE <2>3 DEF Tick
    <3>1. TypeOK' BY DEF TypeOK
    <3>2. OneCancel' BY DEF TypeOK, OneCancel, InCancel
    <3>3. SourceInField' BY DEF TypeOK, SourceInField, InCancel, PastDisarm, ByFirstTick, Made
    <3>4. SelectorGone' BY DEF TypeOK, SelectorGone, InCancel
    <3>5. QED BY <3>1, <3>2, <3>3, <3>4
  <2>4. CASE Enqueue
    <3> USE <2>4 DEF Enqueue
    <3>1. TypeOK'
      <4>1. Flags' BY Zenon DEF TypeOK, Flags
      <4>2. Others' BY DEF TypeOK, Others
      <4>3. QED BY <4>1, <4>2 DEF TypeOK, Flags, Others
    <3>2. OneCancel' BY DEF TypeOK, OneCancel, InCancel
    <3>3. SourceInField' BY DEF TypeOK, SourceInField, InCancel, PastDisarm, ByFirstTick, Made
    <3>4. SelectorGone' BY DEF TypeOK, SelectorGone, InCancel
    <3>5. QED BY <3>1, <3>2, <3>3, <3>4
  <2>5. CASE RunBlock
    <3> USE <2>5 DEF RunBlock
    <3>1. TypeOK' BY DEF TypeOK
    <3>2. OneCancel' BY DEF TypeOK, OneCancel, InCancel
    <3>3. SourceInField' BY DEF TypeOK, SourceInField, InCancel, PastDisarm, ByFirstTick, Made
    <3>4. SelectorGone' BY DEF TypeOK, SelectorGone, InCancel
    <3>5. QED BY <3>1, <3>2, <3>3, <3>4
  <2>6. CASE Perform
    <3> USE <2>6 DEF Perform
    <3>1. TypeOK'
      <4>1. Flags' BY Zenon DEF TypeOK, Flags
      <4>2. Others' BY DEF TypeOK, Others
      <4>3. QED BY <4>1, <4>2 DEF TypeOK, Flags, Others
    <3>2. OneCancel' BY DEF TypeOK, OneCancel, InCancel
    <3>3. SourceInField' BY DEF TypeOK, SourceInField, InCancel, PastDisarm, ByFirstTick, Made
    <3>4. SelectorGone' BY DEF TypeOK, SelectorGone, InCancel
    <3>5. QED BY <3>1, <3>2, <3>3, <3>4
  <2>7. CASE CallReturns
    <3> USE <2>7 DEF CallReturns
    <3>1. TypeOK' BY DEF TypeOK
    <3>2. OneCancel' BY DEF TypeOK, OneCancel, InCancel
    <3>3. SourceInField' BY DEF TypeOK, SourceInField, InCancel, PastDisarm, ByFirstTick, Made
    <3>4. SelectorGone' BY DEF TypeOK, SelectorGone, InCancel
    <3>5. QED BY <3>1, <3>2, <3>3, <3>4
  <2>8. CASE Drop
    <3> USE <2>8 DEF Drop
    <3>1. TypeOK'
      <4>1. Flags' BY Zenon DEF TypeOK, Flags
      <4>2. Others' BY DEF TypeOK, Others
      <4>3. QED BY <4>1, <4>2 DEF TypeOK, Flags, Others
    <3>2. OneCancel' BY DEF TypeOK, OneCancel, InCancel
    <3>3. SourceInField' BY DEF TypeOK, SourceInField, InCancel, PastDisarm, ByFirstTick, Made
    <3>4. SelectorGone' BY DEF TypeOK, SelectorGone, InCancel
    <3>5. QED BY <3>1, <3>2, <3>3, <3>4
  <2>9. ASSUME NEW t \in Threads, cancel(t) PROVE IInv'
    <3> USE <2>9 DEF cancel, MayCancel
    <3>1. TypeOK'
      <4>1. Flags' BY Zenon DEF TypeOK, Flags
      <4>2. Others' BY DEF TypeOK, Others
      <4>3. QED BY <4>1, <4>2 DEF TypeOK, Flags, Others
    <3>2. OneCancel' BY DEF TypeOK, OneCancel, InCancel
    <3>3. SourceInField'
      BY DEF TypeOK, OneCancel, SourceInField, InCancel, PastDisarm, ByFirstTick, Made
    <3>4. SelectorGone' BY DEF TypeOK, SelectorGone, InCancel
    <3>5. QED BY <3>1, <3>2, <3>3, <3>4
  <2>10. ASSUME NEW t \in Threads, Disarm(t) PROVE IInv'
    <3> USE <2>10 DEF Disarm
    <3>1. TypeOK'
      <4>1. Flags' BY Zenon DEF TypeOK, Flags
      <4>2. Others' BY DEF TypeOK, Others
      <4>3. QED BY <4>1, <4>2 DEF TypeOK, Flags, Others
    <3>2. OneCancel' BY DEF TypeOK, OneCancel, InCancel
    <3>3. SourceInField'
      BY DEF TypeOK, OneCancel, SourceInField, InCancel, PastDisarm, ByFirstTick, Made
    <3>4. SelectorGone' BY DEF TypeOK, SelectorGone, InCancel
    <3>5. QED BY <3>1, <3>2, <3>3, <3>4
  <2>11. ASSUME NEW t \in Threads, ClearTarget(t) PROVE IInv'
    <3> USE <2>11 DEF ClearTarget
    <3>1. TypeOK'
      <4>1. Flags' BY Zenon DEF TypeOK, Flags
      <4>2. Others' BY DEF TypeOK, Others
      <4>3. QED BY <4>1, <4>2 DEF TypeOK, Flags, Others
    <3>2. OneCancel' BY DEF TypeOK, OneCancel, InCancel
    <3>3. SourceInField'
      BY DEF TypeOK, OneCancel, SourceInField, InCancel, PastDisarm, ByFirstTick, Made
    <3>4. SelectorGone' BY DEF TypeOK, SelectorGone, InCancel
    <3>5. QED BY <3>1, <3>2, <3>3, <3>4
  <2>12. ASSUME NEW t \in Threads, ClearSelector(t) PROVE IInv'
    <3> USE <2>12 DEF ClearSelector
    <3>1. TypeOK'
      <4>1. Flags' BY Zenon DEF TypeOK, Flags
      <4>2. Others' BY DEF TypeOK, Others
      <4>3. QED BY <4>1, <4>2 DEF TypeOK, Flags, Others
    <3>2. OneCancel' BY DEF TypeOK, OneCancel, InCancel
    <3>3. SourceInField'
      BY DEF TypeOK, OneCancel, SourceInField, InCancel, PastDisarm, ByFirstTick, Made
    <3>4. SelectorGone' BY DEF TypeOK, SelectorGone, InCancel
    <3>5. QED BY <3>1, <3>2, <3>3, <3>4
  <2>13. CASE UNCHANGED vars
    BY <2>13 DEF vars, TypeOK, OneCancel, SourceInField, SelectorGone, InCancel, PastDisarm,
                 ByFirstTick, Made
  <2>14. QED
    BY <2>1, <2>2, <2>3, <2>4, <2>5, <2>6, <2>7, <2>8, <2>9, <2>10, <2>11, <2>12, <2>13
       DEF Next, Block, CancelStep
<1>3. QED
  BY <1>1, <1>2, PTL DEF Spec

(* The types. *)
THEOREM TypeCorrect == Spec => []TypeOK
<1>1. IInv => TypeOK
  BY DEF IInv
<1>2. QED
  BY <1>1, Invariance, PTL

(* A cancelled timer no longer ticks, unless its first tick cancelled it   *)
(* before its initialiser had assigned the source.                         *)
THEOREM CancelAlwaysStops == Spec => []CancelStops
<1>1. IInv => CancelStops
  BY DEF IInv, SourceInField, PastDisarm, ByFirstTick, CancelStops
<1>2. QED
  BY <1>1, Invariance, PTL

(* The field selector is nil where the block sends it only if a cancel on  *)
(* another thread came in between.                                         *)
THEOREM TrapsNeedAnotherThread == Spec => []TrapsOnlyAcrossThreads
<1>1. IInv => TrapsOnlyAcrossThreads
  BY DEF IInv, SelectorGone, TrapsOnlyAcrossThreads
<1>2. QED
  BY <1>1, Invariance, PTL

(* Once cancel has returned there is no selector left to send, whatever    *)
(* blocks are still on the main queue.                                     *)
THEOREM NeverMessaged == Spec => NeverMessagedAfterCancel
<1>1. IInv /\ [Next]_vars => [run = "asked" /\ run' = "calling" => ~cancelled]_vars
  <2> SUFFICES ASSUME IInv, Next, run = "asked", run' = "calling" PROVE ~cancelled
    BY DEF vars, queue
  <2>1. cancelled => ~hasSelector
    BY DEF IInv, SelectorGone
  <2>2. Perform
    BY DEF Next, Block, CancelStep, Resume, Assign, Tick, Enqueue, RunBlock, CallReturns, Drop,
           cancel, Disarm, ClearTarget, ClearSelector, queue
  <2>3. hasSelector
    BY <2>2 DEF Perform
  <2>4. QED
    BY <2>1, <2>3
<1>2. QED
  BY <1>1, Invariance, PTL DEF Spec, NeverMessagedAfterCancel
=============================================================================
