-------------------------- MODULE LBNSTimerProofs ---------------------------
(* Proofs about the framework's LBNSTimer, for any threads and any number  *)
(* of sources, as long as no two calls overlap.                            *)
EXTENDS LBNSTimer, FiniteSetTheorems, TLAPS

Lines == {"idle", "run", "arm", "halt", "fetch", "cancel", "load", "store", "return"}

(* The types of the variables, those that are truth values apart. *)
Flags ==
  /\ isRunning \in BOOLEAN /\ held \in BOOLEAN /\ alive \in BOOLEAN
  /\ overlapped \in BOOLEAN /\ trapped \in BOOLEAN

Others ==
  /\ timer \in Sources \cup {Nil}
  /\ made \in 0..MaxSources /\ refs \in [Sources -> Nat]
  /\ cancelled \subseteq Sources /\ ticking \subseteq Sources
  /\ at \in [Callers -> Lines]
  /\ mine \in [Callers -> Sources \cup {Nil}] /\ old \in [Callers -> Sources \cup {Nil}]

(* c is in start, and its new source is in its local variable. *)
Holds(c, s) == at[c] \in {"load", "store"} /\ mine[c] = s

OneCall == \A c, d \in Callers : at[c] # "idle" /\ at[d] # "idle" => c = d

(* A source is referred to by the field, or by the start that made it, and *)
(* by nothing else; those still to be made are untouched.                  *)
Counted ==
  \A s \in Sources :
    /\ refs[s] = IF s = timer \/ \E c \in Callers : Holds(c, s) THEN 1 ELSE 0
    /\ s > made => s # timer /\ s \notin cancelled /\ \A c \in Callers : mine[c] # s

Ticks == timer \in Sources /\ timer \notin cancelled

(* What is so when a call has come to a line: of start once its source is  *)
(* in its local variable, and of start before that, and of stop.           *)
Starts(c) ==
  CASE at[c] \in {"load", "store"} -> isRunning /\ timer = Nil /\ mine[c] \notin cancelled
    [] at[c] = "return" -> isRunning /\ timer = mine[c] /\ Ticks
    [] OTHER -> FALSE

Stops(c) ==
  CASE at[c] = "run" -> ~isRunning /\ timer = Nil /\ made < MaxSources
    [] at[c] = "arm" -> isRunning /\ timer = Nil /\ made < MaxSources
    [] at[c] = "halt" -> isRunning /\ Ticks
    [] at[c] = "fetch" -> ~isRunning /\ Ticks
    [] at[c] = "cancel" -> ~isRunning /\ Ticks /\ old[c] = timer
    [] at[c] \in {"load", "store"} -> ~isRunning /\ timer \in cancelled
    [] at[c] = "return" -> ~isRunning /\ timer = Nil
    [] OTHER -> TRUE

InOrder ==
  \A c \in Callers :
    /\ IF mine[c] = Nil THEN Stops(c) ELSE Starts(c)
    /\ at[c] = "store" => old[c] = timer

(* Between calls the field holds a source that ticks exactly while the     *)
(* timer runs, until the object is gone.                                   *)
AtRest ==
  /\ NoCall /\ alive => IF isRunning THEN Ticks ELSE timer = Nil
  /\ ~alive => timer = Nil
  /\ alive <=> held \/ ~NoCall \/ ticking # {}

Sound == ~trapped /\ TypeOK /\ OneCall /\ Counted /\ InOrder /\ AtRest

IInv == ~overlapped => Sound

(* While calls do not overlap, the field and the local variable of a start *)
(* count for one reference each, and the lines of a call find what the     *)
(* lines before it left.                                                   *)
THEOREM Invariance == Spec => []IInv
<1>1. Init => IInv
  <2> SUFFICES ASSUME Init PROVE Sound
    BY DEF IInv
  <2> USE SourcesAssumption DEF Init, Sources
  <2>1. ~trapped /\ TypeOK
    <3>1. ~trapped /\ Flags BY Zenon DEF Flags
    <3>2. Others BY DEF Others, Lines
    <3>3. QED BY <3>1, <3>2 DEF TypeOK, Flags, Others, Lines
  <2>2. OneCall BY DEF OneCall
  <2>3. Counted BY DEF Counted, Holds
  <2>4. InOrder BY DEF InOrder, Stops
  <2>5. AtRest BY DEF AtRest, NoCall
  <2>6. QED BY <2>1, <2>2, <2>3, <2>4, <2>5 DEF Sound
<1>2. IInv /\ [Next]_vars => IInv'
  <2> SUFFICES ASSUME IInv, [Next]_vars, ~overlapped' PROVE Sound'
    BY DEF IInv
  <2>a. Sound
    <3>1. CASE overlapped
      <4>1. overlapped'
        BY <3>1 DEF Next, vars, start, stop, Call, SetRunning, Arm, Fetch, Cancel, Load, Store,
                    Return, BeginTick, EndTick, Drop
      <4>2. QED BY <4>1
    <3>2. QED BY <3>1 DEF IInv
  <2> USE <2>a, SourcesAssumption DEF Sound, Go, object, fields, sources, locals, NoCall
  <2>1. ASSUME NEW c \in Callers, start(c) PROVE Sound'
    <3> USE <2>1 DEF start, Call
    <3>0. made < MaxSources
      <4>1. Starting = {} BY DEF Starting
      <4>2. QED BY <4>1, FS_EmptySet DEF TypeOK
    <3>1. ~trapped' BY DEF TypeOK, InOrder, Counted, Stops, Starts, Ticks
    <3>2. TypeOK' BY DEF TypeOK, Sources, InOrder, Stops, Starts
    <3>3. OneCall' BY DEF TypeOK, OneCall
    <3>4. Counted' BY DEF TypeOK, OneCall, Counted, Holds, InOrder, Stops, Starts, Ticks
    <3>5. InOrder' BY <3>0 DEF TypeOK, OneCall, Counted, InOrder, Stops, Starts, Ticks, AtRest
    <3>6. AtRest' BY DEF TypeOK, OneCall, InOrder, Stops, Starts, Ticks, AtRest
    <3>7. QED BY <3>1, <3>2, <3>3, <3>4, <3>5, <3>6
  <2>2. ASSUME NEW c \in Callers, stop(c) PROVE Sound'
    <3> USE <2>2 DEF stop, Call
    <3>1. ~trapped' BY DEF TypeOK, InOrder, Counted, Stops, Starts, Ticks
    <3>2. TypeOK' BY DEF TypeOK, Sources, InOrder, Stops, Starts
    <3>3. OneCall' BY DEF TypeOK, OneCall
    <3>4. Counted' BY DEF TypeOK, OneCall, Counted, Holds, InOrder, Stops, Starts, Ticks
    <3>5. InOrder' BY DEF TypeOK, OneCall, Counted, InOrder, Stops, Starts, Ticks, AtRest
    <3>6. AtRest' BY DEF TypeOK, OneCall, InOrder, Stops, Starts, Ticks, AtRest
    <3>7. QED BY <3>1, <3>2, <3>3, <3>4, <3>5, <3>6
  <2>3. ASSUME NEW c \in Callers, SetRunning(c) PROVE Sound'
    <3> USE <2>3 DEF SetRunning
    <3>1. ~trapped' BY DEF TypeOK, InOrder, Counted, Stops, Starts, Ticks
    <3>2. TypeOK' BY DEF TypeOK, Sources, InOrder, Stops, Starts
    <3>3. OneCall' BY DEF TypeOK, OneCall
    <3>4. Counted' BY DEF TypeOK, OneCall, Counted, Holds, InOrder, Stops, Starts, Ticks
    <3>5. InOrder' BY DEF TypeOK, OneCall, Counted, InOrder, Stops, Starts, Ticks, AtRest
    <3>6. AtRest' BY DEF TypeOK, OneCall, InOrder, Stops, Starts, Ticks, AtRest
    <3>7. QED BY <3>1, <3>2, <3>3, <3>4, <3>5, <3>6
  <2>4. ASSUME NEW c \in Callers, Arm(c) PROVE Sound'
    <3> USE <2>4 DEF Arm, Retain
    <3>0. /\ mine[c] = Nil /\ isRunning /\ timer = Nil /\ made + 1 \in Sources
          /\ made + 1 > made /\ made \in Nat
          /\ made + 1 \notin cancelled /\ refs[made + 1] = 0
          /\ \A d \in Callers \ {c} : at[d] = "idle" /\ mine[d] = Nil
      BY DEF TypeOK, OneCall, Counted, Holds, InOrder, Stops, Starts, Sources
    <3>1. ~trapped' BY DEF TypeOK, InOrder, Counted, Stops, Starts, Ticks
    <3>2. TypeOK' BY DEF TypeOK, Sources, InOrder, Stops, Starts
    <3>3. OneCall' BY DEF TypeOK, OneCall
    <3>4. Counted'
      <4>1. SUFFICES ASSUME NEW s \in Sources
                     PROVE  /\ refs'[s] = IF s = timer \/ \E d \in Callers : Holds(d, s)' THEN 1 ELSE 0
                            /\ s > made' => s # timer /\ s \notin cancelled /\ \A d \in Callers : mine'[d] # s
        BY DEF Counted
      <4>2. CASE s = made + 1
        BY <3>0, <4>2 DEF TypeOK, Counted, Holds
      <4>3. CASE s # made + 1
        BY <3>0, <4>3 DEF TypeOK, Counted, Holds, Sources
      <4>4. QED BY <4>2, <4>3
    <3>5. InOrder' BY <3>0 DEF TypeOK, OneCall, Counted, InOrder, Stops, Starts, Ticks, AtRest
    <3>6. AtRest' BY DEF TypeOK, OneCall, InOrder, Stops, Starts, Ticks, AtRest
    <3>7. QED BY <3>1, <3>2, <3>3, <3>4, <3>5, <3>6
  <2>5. ASSUME NEW c \in Callers, Fetch(c) PROVE Sound'
    <3> USE <2>5 DEF Fetch
    <3>1. ~trapped' BY DEF TypeOK, InOrder, Counted, Stops, Starts, Ticks
    <3>2. TypeOK' BY DEF TypeOK, Sources, InOrder, Stops, Starts
    <3>3. OneCall' BY DEF TypeOK, OneCall
    <3>4. Counted' BY DEF TypeOK, OneCall, Counted, Holds, InOrder, Stops, Starts, Ticks
    <3>5. InOrder' BY DEF TypeOK, OneCall, Counted, InOrder, Stops, Starts, Ticks, AtRest
    <3>6. AtRest' BY DEF TypeOK, OneCall, InOrder, Stops, Starts, Ticks, AtRest
    <3>7. QED BY <3>1, <3>2, <3>3, <3>4, <3>5, <3>6
  <2>6. ASSUME NEW c \in Callers, Cancel(c) PROVE Sound'
    <3> USE <2>6 DEF Cancel
    <3>1. ~trapped' BY DEF TypeOK, InOrder, Counted, Stops, Starts, Ticks
    <3>2. TypeOK' BY DEF TypeOK, Sources, InOrder, Stops, Starts
    <3>3. OneCall' BY DEF TypeOK, OneCall
    <3>4. Counted' BY DEF TypeOK, OneCall, Counted, Holds, InOrder, Stops, Starts, Ticks
    <3>5. InOrder' BY DEF TypeOK, OneCall, Counted, InOrder, Stops, Starts, Ticks, AtRest
    <3>6. AtRest' BY DEF TypeOK, OneCall, InOrder, Stops, Starts, Ticks, AtRest
    <3>7. QED BY <3>1, <3>2, <3>3, <3>4, <3>5, <3>6
  <2>7. ASSUME NEW c \in Callers, Load(c) PROVE Sound'
    <3> USE <2>7 DEF Load
    <3>1. ~trapped' BY DEF TypeOK, InOrder, Counted, Stops, Starts, Ticks
    <3>2. TypeOK' BY DEF TypeOK, Sources, InOrder, Stops, Starts
    <3>3. OneCall' BY DEF TypeOK, OneCall
    <3>4. Counted' BY DEF TypeOK, OneCall, Counted, Holds, InOrder, Stops, Starts, Ticks
    <3>5. InOrder' BY DEF TypeOK, OneCall, Counted, InOrder, Stops, Starts, Ticks, AtRest
    <3>6. AtRest' BY DEF TypeOK, OneCall, InOrder, Stops, Starts, Ticks, AtRest
    <3>7. QED BY <3>1, <3>2, <3>3, <3>4, <3>5, <3>6
  <2>8. ASSUME NEW c \in Callers, Store(c) PROVE Sound'
    <3> USE <2>8 DEF Store, Release
    <3>1. ~trapped' BY DEF TypeOK, InOrder, Counted, Stops, Starts, Ticks
    <3>2. TypeOK'
      <4>1. Flags' BY Zenon DEF TypeOK, Flags
      <4>2. Others' BY DEF TypeOK, Others, Lines, Sources, InOrder, Stops, Starts
      <4>3. QED BY <4>1, <4>2 DEF TypeOK, Flags, Others, Lines
    <3>3. OneCall' BY DEF TypeOK, OneCall
    <3>4. Counted' BY DEF TypeOK, OneCall, Counted, Holds, InOrder, Stops, Starts, Ticks
    <3>5. InOrder' BY DEF TypeOK, OneCall, Counted, InOrder, Stops, Starts, Ticks, AtRest
    <3>6. AtRest' BY DEF TypeOK, OneCall, InOrder, Stops, Starts, Ticks, AtRest
    <3>7. QED BY <3>1, <3>2, <3>3, <3>4, <3>5, <3>6
  <2>9. ASSUME NEW c \in Callers, Return(c) PROVE Sound'
    <3> USE <2>9 DEF Return, Retire, Release, Captured
    <3>1. ~trapped' BY DEF TypeOK, InOrder, Counted, Stops, Starts, Ticks
    <3>2. TypeOK'
      <4>1. Flags' BY Zenon DEF TypeOK, Flags
      <4>2. Others' BY DEF TypeOK, Others, Lines, Sources, InOrder, Stops, Starts
      <4>3. QED BY <4>1, <4>2 DEF TypeOK, Flags, Others, Lines
    <3>3. OneCall' BY DEF TypeOK, OneCall
    <3>4. Counted' BY DEF TypeOK, OneCall, Counted, Holds, InOrder, Stops, Starts, Ticks
    <3>5. InOrder' BY DEF TypeOK, OneCall, Counted, InOrder, Stops, Starts, Ticks, AtRest
    <3>6. AtRest' BY DEF TypeOK, OneCall, InOrder, Stops, Starts, Ticks, AtRest
    <3>7. QED BY <3>1, <3>2, <3>3, <3>4, <3>5, <3>6
  <2>10. ASSUME NEW x \in Sources, BeginTick(x) PROVE Sound'
    <3> USE <2>10 DEF BeginTick, Armed
    <3>1. ~trapped' BY DEF TypeOK, InOrder, Counted, Stops, Starts, Ticks
    <3>2. TypeOK' BY DEF TypeOK, Sources, InOrder, Stops, Starts
    <3>3. OneCall' BY DEF TypeOK, OneCall
    <3>4. Counted' BY DEF TypeOK, OneCall, Counted, Holds, InOrder, Stops, Starts, Ticks
    <3>5. InOrder' BY DEF TypeOK, OneCall, Counted, InOrder, Stops, Starts, Ticks, AtRest
    <3>6. AtRest' BY DEF TypeOK, OneCall, InOrder, Stops, Starts, Ticks, AtRest
    <3>7. QED BY <3>1, <3>2, <3>3, <3>4, <3>5, <3>6
  <2>11. ASSUME NEW x \in Sources, EndTick(x) PROVE Sound'
    <3> USE <2>11 DEF EndTick, Retire, Release, Captured
    <3>1. ~trapped' BY DEF TypeOK, InOrder, Counted, Stops, Starts, Ticks
    <3>2. TypeOK'
      <4>1. Flags' BY Zenon DEF TypeOK, Flags
      <4>2. Others'
        <5>1. timer' \in Sources \cup {Nil} /\ refs' \in [Sources -> Nat]
          BY DEF TypeOK, Sources
        <5>2. QED BY <5>1 DEF TypeOK, Others, Lines
      <4>3. QED BY <4>1, <4>2 DEF TypeOK, Flags, Others, Lines
    <3>3. OneCall' BY DEF TypeOK, OneCall
    <3>4. Counted' BY DEF TypeOK, OneCall, Counted, Holds, InOrder, Stops, Starts, Ticks
    <3>5. InOrder' BY DEF TypeOK, OneCall, Counted, InOrder, Stops, Starts, Ticks, AtRest
    <3>6. AtRest' BY DEF TypeOK, OneCall, InOrder, Stops, Starts, Ticks, AtRest
    <3>7. QED BY <3>1, <3>2, <3>3, <3>4, <3>5, <3>6
  <2>12. CASE Drop
    <3> USE <2>12 DEF Drop, Retire, Release, Captured
    <3>1. ~trapped' BY DEF TypeOK, InOrder, Counted, Stops, Starts, Ticks
    <3>2. TypeOK'
      <4>1. Flags' BY Zenon DEF TypeOK, Flags
      <4>2. Others'
        <5>1. timer' \in Sources \cup {Nil} /\ refs' \in [Sources -> Nat]
          BY DEF TypeOK, Sources
        <5>2. QED BY <5>1 DEF TypeOK, Others, Lines
      <4>3. QED BY <4>1, <4>2 DEF TypeOK, Flags, Others, Lines
    <3>3. OneCall' BY DEF TypeOK, OneCall
    <3>4. Counted' BY DEF TypeOK, OneCall, Counted, Holds, InOrder, Stops, Starts, Ticks
    <3>5. InOrder'
      <4>1. CASE NoCall
        BY <4>1 DEF TypeOK, InOrder, Stops, Starts, Ticks
      <4>2. CASE ~NoCall
        BY <4>2 DEF TypeOK, InOrder, Stops, Starts, Ticks
      <4>3. QED BY <4>1, <4>2
    <3>6. AtRest' BY DEF TypeOK, OneCall, InOrder, Stops, Starts, Ticks, AtRest
    <3>7. QED BY <3>1, <3>2, <3>3, <3>4, <3>5, <3>6
  <2>13. CASE UNCHANGED vars
    <3> USE <2>13 DEF vars
    <3>1. ~trapped' BY DEF TypeOK, InOrder, Counted, Stops, Starts, Ticks
    <3>2. TypeOK' BY DEF TypeOK, Sources, InOrder, Stops, Starts
    <3>3. OneCall' BY DEF TypeOK, OneCall
    <3>4. Counted' BY DEF TypeOK, OneCall, Counted, Holds, InOrder, Stops, Starts, Ticks
    <3>5. InOrder' BY DEF TypeOK, OneCall, Counted, InOrder, Stops, Starts, Ticks, AtRest
    <3>6. AtRest' BY DEF TypeOK, OneCall, InOrder, Stops, Starts, Ticks, AtRest
    <3>7. QED BY <3>1, <3>2, <3>3, <3>4, <3>5, <3>6
  <2>14. QED
    BY <2>1, <2>2, <2>3, <2>4, <2>5, <2>6, <2>7, <2>8, <2>9, <2>10, <2>11, <2>12, <2>13
       DEF Next
<1>3. QED
  BY <1>1, <1>2, PTL DEF Spec

(* Between calls, the sources that tick are those of the field. *)
LEMMA ArmedAtRest ==
  ASSUME Sound, NoCall
  PROVE  Armed = IF isRunning /\ alive THEN {timer} ELSE {}
<1> USE SourcesAssumption DEF Sound, AtRest, Ticks
<1>1. \A s \in Sources : refs[s] = IF s = timer THEN 1 ELSE 0
  BY DEF Counted, Holds, NoCall
<1>2. CASE isRunning /\ alive
  BY <1>1, <1>2 DEF Armed
<1>3. CASE ~(isRunning /\ alive)
  <2>1. timer = Nil
    BY <1>3
  <2>2. QED
    BY <1>1, <1>3, <2>1 DEF Armed
<1>4. QED
  BY <1>2, <1>3

(* Calls that do not overlap use no source that is gone, and leave exactly *)
(* one ticking, the one in the field, while isRunning says so.             *)
THEOREM SerializedUseAlwaysSound == Spec => []SerializedUseIsSound
<1>1. IInv => SerializedUseIsSound
  <2> SUFFICES ASSUME IInv, ~overlapped
               PROVE  ~trapped /\ (NoCall => Armed = IF isRunning /\ alive THEN {timer} ELSE {})
    BY DEF SerializedUseIsSound
  <2>1. Sound BY DEF IInv
  <2>2. QED BY <2>1, ArmedAtRest DEF Sound
<1>2. QED
  BY <1>1, Invariance, PTL

(* No source outlives the timer whose owner let go of it. *)
THEOREM TicksAlwaysEndWithOwner == Spec => []TicksEndWithOwner
<1>1. IInv => TicksEndWithOwner
  <2> SUFFICES ASSUME IInv, ~overlapped, ~held, NoCall, ticking = {} PROVE Armed = {}
    BY DEF TicksEndWithOwner
  <2>1. Sound BY DEF IInv
  <2>2. ~alive BY <2>1 DEF Sound, AtRest
  <2>3. QED BY <2>1, <2>2, ArmedAtRest
<1>2. QED
  BY <1>1, Invariance, PTL
=============================================================================
