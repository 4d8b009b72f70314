-------------------------- MODULE StateMachineProofs --------------------------
(***************************************************************************)
(* Proofs about StateMachine, for every chart.                             *)
(***************************************************************************)
EXTENDS StateMachine, FiniteSetTheorems, TLAPS

-----------------------------------------------------------------------------
(* Containment.  UpIn(ch, x) is the least set that holds x and is closed   *)
(* under taking parents; what a path of states satisfies is proved by      *)
(* exhibiting another closed set.                                          *)

(* U is closed under taking parents.                                       *)
Closed(ch, U) == \A x \in U \ {Top} : ch.parent[x] \in U

LEMMA UpLeast ==
  ASSUME NEW ch, NEW x, NEW U \in SUBSET State, x \in U, Closed(ch, U)
  PROVE  UpIn(ch, x) \subseteq U
BY DEF UpIn, Closed

LEMMA UpClosed ==
  ASSUME NEW ch, IsChart(ch), NEW x \in State
  PROVE  UpIn(ch, x) \subseteq State /\ x \in UpIn(ch, x) /\ Closed(ch, UpIn(ch, x))
<1>1. ASSUME NEW y \in UpIn(ch, x) \ {Top} PROVE ch.parent[y] \in UpIn(ch, x)
  <2>1. y \in State \ {Top} /\ ch.parent[y] \in State
    BY <1>1 DEF UpIn, IsChart
  <2>. QED BY <1>1, <2>1 DEF UpIn
<1>. QED BY <1>1 DEF UpIn, Closed

(* What contains a state that contains x contains x.                       *)
LEMMA UpTransitive ==
  ASSUME NEW ch, IsChart(ch), NEW x \in State, NEW y \in UpIn(ch, x)
  PROVE  UpIn(ch, y) \subseteq UpIn(ch, x)
BY UpClosed, UpLeast

LEMMA UpTop == ASSUME NEW ch PROVE UpIn(ch, Top) \subseteq {Top}
BY UpLeast, ChartAssumption DEF Closed

(* The containers of x are x and those of its parent.                      *)
LEMMA UpStep ==
  ASSUME NEW ch, IsChart(ch), NEW x \in State \ {Top}
  PROVE  /\ ch.parent[x] \in State
         /\ UpIn(ch, x) = {x} \cup UpIn(ch, ch.parent[x])
<1>. DEFINE p == ch.parent[x]
<1>1. p \in State /\ p \in UpIn(ch, x) /\ x \in UpIn(ch, x)
  BY UpClosed DEF Closed, IsChart
<1>2. UpIn(ch, p) \subseteq UpIn(ch, x)
  BY <1>1, UpTransitive
<1>3. UpIn(ch, p) \subseteq State /\ p \in UpIn(ch, p) /\ Closed(ch, UpIn(ch, p))
  BY <1>1, UpClosed
<1>4. Closed(ch, {x} \cup UpIn(ch, p))
  BY <1>3 DEF Closed
<1>5. UpIn(ch, x) \subseteq {x} \cup UpIn(ch, p)
  BY <1>3, <1>4, UpLeast
<1>. QED BY <1>1, <1>2, <1>5

(* The hierarchy has no cycle, because every state is under the top.       *)
LEMMA Acyclic ==
  ASSUME NEW ch, IsChart(ch), NEW x \in State \ {Top}
  PROVE  x \notin UpIn(ch, ch.parent[x])
<1>. DEFINE U == {y \in State : x \in UpIn(ch, y)}
<1>. SUFFICES ASSUME x \in UpIn(ch, ch.parent[x]) PROVE FALSE
  OBVIOUS
<1>1. ASSUME NEW y \in U \ {Top} PROVE ch.parent[y] \in U
  <2>1. ch.parent[y] \in State /\ UpIn(ch, y) = {y} \cup UpIn(ch, ch.parent[y])
    BY <1>1, UpStep
  <2>. QED BY <1>1, <2>1
<1>2. x \in U
  BY UpClosed
<1>3. UpIn(ch, x) \subseteq U
  BY <1>1, <1>2, UpLeast DEF Closed
<1>4. Top \in U
  BY <1>3 DEF IsChart
<1>. QED BY <1>4, UpTop

(* Two states that contain each other are one.                             *)
LEMMA UpAntisymmetric ==
  ASSUME NEW ch, IsChart(ch), NEW x \in State, NEW y \in State,
         x \in UpIn(ch, y), y \in UpIn(ch, x)
  PROVE  x = y
<1>1. CASE x = Top
  BY <1>1, UpTop
<1>2. CASE x # Top /\ x # y
  <2>1. y \in UpIn(ch, ch.parent[x]) /\ ch.parent[x] \in State
    BY <1>2, UpStep
  <2>2. x \in UpIn(ch, ch.parent[x])
    BY <2>1, UpTransitive
  <2>. QED BY <1>2, <2>2, Acyclic
<1>. QED BY <1>1, <1>2

-----------------------------------------------------------------------------
(* The inductive invariant.                                                *)

(* What the transition being performed does not exit.                      *)
Common ==
  IF taken.source = taken.target
    THEN Up(taken.source) \ {taken.source}
    ELSE Up(taken.source) \cap Up(taken.target)

Running    == pc # "idle" => current # Null
Remembered == \A x \in State : lastRunningChild[x] # Null => Inside(lastRunningChild[x], x)
Climbing   == pc = "signal" => s \in Up(current)
Leaving    == pc = "exit" =>
                /\ taken.source \in State \ {Top} /\ taken.target \in State \ {Top}
                /\ Common \subseteq Up(s) /\ exits = Up(s) \ Common
Entering   == /\ pc = "entry" => trace \subseteq Up(next) \ {Top}
              /\ pc # "entry" => trace = {}

MachineInv ==
  /\ TypeOK /\ Configuration
  /\ Running /\ Remembered /\ Climbing /\ Leaving /\ Entering

(* The lemmas about containment, for the chart of the machine.             *)
LEMMA Containment ==
  ASSUME TypeOK
  PROVE  /\ IsChart(chart) /\ Top \in State /\ Null \notin State
         /\ Up(Top) = {Top}
         /\ \A x \in State : /\ Up(x) \subseteq State /\ x \in Up(x) /\ Top \in Up(x)
                             /\ \A y \in Up(x) : Up(y) \subseteq Up(x)
         /\ \A x \in State \ {Top} : /\ Parent(x) \in State
                                     /\ Up(x) = {x} \cup Up(Parent(x))
                                     /\ x \notin Up(Parent(x))
<1>1. IsChart(chart) /\ Top \in State /\ Null \notin State
  BY ChartAssumption DEF TypeOK
<1>2. \A x \in State : Up(x) \subseteq State /\ x \in Up(x) /\ Top \in Up(x)
  BY <1>1, UpClosed DEF Up, IsChart
<1>3. \A x \in State : \A y \in Up(x) : Up(y) \subseteq Up(x)
  BY <1>1, UpTransitive DEF Up
<1>4. \A x \in State \ {Top} : Parent(x) \in State /\ Up(x) = {x} \cup Up(Parent(x))
  BY <1>1, UpStep DEF Up, Parent
<1>5. \A x \in State \ {Top} : x \notin Up(Parent(x))
  BY <1>1, Acyclic DEF Up, Parent
<1>6. Up(Top) = {Top}
  BY <1>1, <1>2, UpTop DEF Up
<1>. QED BY <1>1, <1>2, <1>3, <1>4, <1>5, <1>6

LEMMA MachineInit == Init => MachineInv
<1>. SUFFICES ASSUME Init PROVE MachineInv
  OBVIOUS
<1>1. IsChart(chart) /\ chart \in Charts /\ Null \notin State
  BY ChartAssumption DEF Init
<1>2. TypeOK
  BY <1>1 DEF Init, TypeOK, IsChart, NoTransition, Modes
<1>3. Remembered
  BY <1>1 DEF Init, Remembered, IsChart, Inside, Up
<1>4. Configuration /\ Running /\ Climbing /\ Leaving /\ Entering
  BY DEF Init, Configuration, Running, Climbing, Leaving, Entering
<1>. QED BY <1>2, <1>3, <1>4 DEF MachineInv

(* Steps that leave the entered states and the history alone: the signal   *)
(* climbs, or run() begins or ends.                                        *)
LEMMA SignalSteps ==
  ASSUME MachineInv, RunAgain \/ NotHandled \/ Handled \/ EndStart
  PROVE  MachineInv'
<1>. USE DEF MachineInv
<1>1. current \in State
  BY DEF TypeOK, Running, RunAgain, NotHandled, Handled, EndStart
<1>2. pc \in {"idle", "signal", "start"} /\ active = Up(current)
  BY <1>1, Containment DEF Configuration, RunAgain, NotHandled, Handled, EndStart
<1>3. /\ pc' \in {"idle", "signal"} /\ trace = {}
      /\ UNCHANGED <<current, next, lastRunningChild, exits, trace, active, leaf, chart>>
      /\ pc' = "signal" => s' \in Up(current) /\ s' \in State
      /\ pc' = "idle" => (s' = s /\ s = Null) \/ s' = Null
  <2>1. CASE RunAgain
    BY <1>1, <2>1, Containment DEF RunAgain, Entering
  <2>2. CASE NotHandled
    <3>1. s \in State /\ s \in Up(current)
      BY <2>2 DEF NotHandled, Climbing, TypeOK
    <3>2. s # Top => Parent(s) \in State /\ Parent(s) \in Up(current)
      BY <3>1, <1>1, Containment
    <3>. QED BY <2>2, <3>2 DEF NotHandled, Entering
  <2>3. CASE Handled
    BY <2>3 DEF Handled, Entering
  <2>4. CASE EndStart
    BY <1>1, <2>4, Containment DEF EndStart, Entering
  <2>. QED BY <2>1, <2>2, <2>3, <2>4
<1>4. taken' = taken \/ taken' = NoTransition
  BY DEF RunAgain, NotHandled, Handled, EndStart
<1>5. TypeOK'
  BY <1>2, <1>3, <1>4, ChartAssumption DEF TypeOK, NoTransition, Modes
<1>6. Configuration'
  BY <1>1, <1>2, <1>3, Containment DEF Configuration, Up
<1>7. Running' /\ Climbing' /\ Leaving' /\ Entering'
  BY <1>1, <1>3, Containment DEF Running, Climbing, Leaving, Entering, Up
<1>8. Remembered'
  BY <1>3 DEF Remembered, Inside, Up
<1>. QED BY <1>5, <1>6, <1>7, <1>8

LEMMA RunFirstStep == ASSUME MachineInv, RunFirst PROVE MachineInv'
<1>. USE DEF MachineInv, RunFirst
<1>1. active' = {Top} /\ Up(Top)' = {Top} /\ Top \in State /\ Null \notin State
  BY Containment DEF Configuration, Up
<1>2. TypeOK'
  BY <1>1 DEF TypeOK
<1>3. Configuration'
  BY <1>1 DEF Configuration
<1>4. Remembered'
  BY DEF Remembered, Inside, Up
<1>. QED BY <1>1, <1>2, <1>3, <1>4 DEF Running, Climbing, Leaving, Entering

(* A transition begins: what it exits is everything from the current state *)
(* up to what it has in common.                                            *)
LEMMA TransitionStep ==
  ASSUME MachineInv, NEW t \in State \ {Top}, NEW m \in chart.modes, Transition(t, m)
  PROVE  MachineInv'
<1>. USE DEF MachineInv, Transition
<1>1. /\ current \in State /\ s \in State \ {Top} /\ s \in Up(current) /\ m \in Modes
      /\ Null \notin State
  BY Containment DEF TypeOK, Running, Climbing, IsChart
<1>2. Up(s) \subseteq Up(current) /\ Up(current) \subseteq State /\ s \in Up(s)
  BY <1>1, Containment
<1>3. Common' = IF s = t THEN Up(s) \ {s} ELSE Up(s) \cap Up(t)
  BY DEF Common, Up
<1>4. exits' = Up(current) \ Common' /\ Common' \subseteq Up(current)
  BY <1>2, <1>3 DEF levelsToLCA
<1>5. TypeOK'
  BY <1>1, <1>2, <1>4 DEF TypeOK
<1>6. active = Up(current)
  BY <1>1 DEF Configuration
<1>7. Configuration' /\ Leaving'
  BY <1>1, <1>4, <1>6 DEF Configuration, Leaving, Up
<1>8. Running' /\ Remembered' /\ Climbing' /\ Entering'
  BY <1>1 DEF Running, Remembered, Climbing, Entering, Inside, Up
<1>. QED BY <1>5, <1>7, <1>8

(* What holds whenever an exit action runs.                                *)
LEMMA ExitFacts ==
  ASSUME MachineInv, pc = "exit"
  PROVE  /\ current \in State /\ s \in State /\ Null \notin State /\ active = Up(s)
         /\ taken.source \in State \ {Top} /\ taken.target \in State \ {Top}
         /\ Common \subseteq Up(s) /\ exits = Up(s) \ Common
         /\ Top \in Common /\ Common \subseteq Up(taken.target)
         /\ trace = {} /\ next = Null
<1>. USE DEF MachineInv
<1>1. /\ current \in State /\ s \in State /\ Null \notin State
      /\ taken.source \in State \ {Top} /\ taken.target \in State \ {Top}
  BY Containment DEF TypeOK, Running, Leaving
<1>2. Top \in Common /\ Common \subseteq Up(taken.target)
  BY <1>1, Containment DEF Common
<1>. QED BY <1>1, <1>2 DEF Configuration, Leaving, Entering, TypeOK

LEMMA StateOnExitStep == ASSUME MachineInv, StateOnExit PROVE MachineInv'
<1>. USE DEF MachineInv, StateOnExit
<1>0. TypeOK /\ pc = "exit" /\ s \in exits
  OBVIOUS
<1>1. /\ current \in State /\ s \in State \ {Top} /\ Null \notin State /\ active = Up(s)
      /\ taken.source \in State \ {Top} /\ taken.target \in State \ {Top}
      /\ Common \subseteq Up(s) /\ exits = Up(s) \ Common /\ s \notin Common
      /\ trace = {} /\ next = Null
  BY <1>0, ExitFacts
<1>2. /\ Parent(s) \in State /\ Parent(s) # s /\ s \in Up(s)
      /\ Up(s) = {s} \cup Up(Parent(s)) /\ s \notin Up(Parent(s))
      /\ Parent(s) \in Up(Parent(s)) /\ Up(s) \subseteq State
  BY <1>0, <1>1, Containment
<1>3. Common' = Common /\ Up(s)' = Up(Parent(s))
  BY DEF Common, Up
<1>4. active' = Up(s)' /\ exits' = Up(s)' \ Common' /\ Common' \subseteq Up(s)'
  BY <1>1, <1>2, <1>3
<1>5. TypeOK'
  <2>1. lastRunningChild' \in [State -> State \cup {Null}]
    BY <1>1, <1>2 DEF TypeOK
  <2>2. leaf' \in [State -> State \cup {Null}]
    BY <1>1, <1>2 DEF TypeOK
  <2>. QED BY <1>1, <1>2, <2>1, <2>2 DEF TypeOK
<1>6. Configuration' /\ Leaving'
  BY <1>0, <1>1, <1>4 DEF Configuration, Leaving
<1>7. Remembered'
  <2>. SUFFICES ASSUME NEW x \in State, lastRunningChild'[x] # Null
                PROVE  Inside(lastRunningChild'[x], x)
    BY DEF Remembered, Inside, Up
  <2>1. CASE x = Parent(s)
    <3>1. lastRunningChild'[x] = s
      BY <2>1, <1>2 DEF TypeOK
    <3>. QED BY <3>1, <2>1, <1>2 DEF Inside
  <2>2. CASE x # Parent(s)
    <3>1. lastRunningChild'[x] = lastRunningChild[x]
      BY <2>2, <1>2 DEF TypeOK
    <3>. QED BY <3>1 DEF Remembered
  <2>. QED BY <2>1, <2>2
<1>8. Running' /\ Climbing' /\ Entering'
  BY <1>1 DEF Running, Climbing, Entering
<1>. QED BY <1>5, <1>6, <1>7, <1>8

(* The exits are done: the machine stands inside the target's containers.  *)
LEMMA EndExitStep == ASSUME MachineInv, EndExit PROVE MachineInv'
<1>. USE DEF MachineInv, EndExit
<1>. DEFINE t == taken.target
<1>0. TypeOK /\ pc = "exit" /\ exits = {}
  OBVIOUS
<1>1. /\ s \in State /\ t \in State \ {Top} /\ Null \notin State /\ active = Up(s)
      /\ Up(s) \subseteq Up(t)
  BY <1>0, ExitFacts
<1>2. Top \in Up(s) /\ Up(t) \subseteq State
  BY <1>0, <1>1, Containment
<1>3. /\ trace' = Up(t) \ Up(s) /\ next' = t /\ Up(next)' = Up(t)
      /\ current' = s /\ s' = Null /\ pc' = "entry" /\ active' = active
  BY DEF Path, Up
<1>4. lastRunningChild' \in [State -> State \cup {Null}] /\ Remembered'
  <2>1. IsChart(chart) /\ chart' = chart
    BY <1>0, Containment
  <2>2. ASSUME NEW x \in State
        PROVE  /\ lastRunningChild'[x] \in {lastRunningChild[x], chart.init[x]}
               /\ lastRunningChild'[x] \in State \cup {Null}
    BY <2>1 DEF Restored, TypeOK, IsChart
  <2>3. lastRunningChild' \in [State -> State \cup {Null}]
    BY <2>1, <2>2 DEF Restored, TypeOK, IsChart
  <2>4. \A x \in State : chart.init[x] # Null => Inside(chart.init[x], x)
    BY <2>1 DEF IsChart, Inside, Up
  <2>. QED BY <2>1, <2>2, <2>3, <2>4 DEF Remembered, Inside, Up
<1>5. TypeOK'
  BY <1>1, <1>2, <1>3, <1>4 DEF TypeOK
<1>6. Configuration'
  BY <1>1, <1>3 DEF Configuration
<1>7. Running' /\ Climbing' /\ Leaving' /\ Entering'
  BY <1>1, <1>2, <1>3 DEF Running, Climbing, Leaving, Entering
<1>. QED BY <1>4, <1>5, <1>6, <1>7

(* What holds whenever an entry action runs.                               *)
LEMMA EntryFacts ==
  ASSUME MachineInv, pc = "entry"
  PROVE  /\ current \in State /\ next \in State /\ Null \notin State
         /\ active = Up(next) \ trace /\ trace \subseteq Up(next) \ {Top}
         /\ s = Null
BY Containment DEF MachineInv, TypeOK, Running, Configuration, Entering

LEMMA StateOnEntryStep == ASSUME MachineInv, StateOnEntry PROVE MachineInv'
<1>. USE DEF MachineInv
<1>1. PICK x \in trace : /\ Outermost(x)
                         /\ active' = active \cup {x} /\ trace' = trace \ {x}
  BY DEF StateOnEntry
<1>2. /\ pc = "entry" /\ pc' = pc
      /\ UNCHANGED <<current, next, s, lastRunningChild, exits, taken, leaf, chart>>
  BY DEF StateOnEntry
<1>3. /\ current \in State /\ next \in State /\ active = Up(next) \ trace
      /\ trace \subseteq Up(next) \ {Top}
  BY <1>2, EntryFacts
<1>4. active' = Up(next)' \ trace' /\ trace' \subseteq Up(next)' \ {Top} /\ Up(next)' = Up(next)
  BY <1>1, <1>2, <1>3 DEF Up
<1>5. TypeOK'
  BY <1>1, <1>2, <1>3, <1>4, Containment DEF TypeOK
<1>6. Configuration' /\ Entering'
  BY <1>2, <1>3, <1>4, <1>5, Containment DEF Configuration, Entering, TypeOK
<1>7. Running' /\ Remembered' /\ Climbing' /\ Leaving'
  BY <1>2 DEF Running, Remembered, Climbing, Leaving, Inside, Up
<1>. QED BY <1>5, <1>6, <1>7

LEMMA EndEntryStep == ASSUME MachineInv, EndEntry PROVE MachineInv'
<1>. USE DEF MachineInv, EndEntry
<1>1. /\ next \in State /\ Null \notin State /\ s = Null
      /\ active = Up(next) /\ current' = next /\ pc' = "start"
  BY EntryFacts
<1>2. TypeOK'
  BY <1>1 DEF TypeOK
<1>3. Configuration'
  BY <1>1 DEF Configuration, Up
<1>4. Running' /\ Remembered' /\ Climbing' /\ Leaving' /\ Entering'
  BY <1>1 DEF Running, Remembered, Climbing, Leaving, Entering, Inside, Up
<1>. QED BY <1>2, <1>3, <1>4

(* An initial transition leads into the current state, whether the         *)
(* callback or the history chose it.                                       *)
LEMMA StartAtStep ==
  ASSUME MachineInv, NEW x \in State, Inside(x, current), StartAt(x) PROVE MachineInv'
<1>. USE DEF MachineInv, StartAt
<1>1. /\ current \in State /\ Null \notin State /\ active = Up(current) /\ s = Null
  BY Containment DEF TypeOK, Running, Configuration
<1>2. /\ Up(current) \subseteq Up(x) /\ Up(x) \subseteq State /\ Top \in Up(current)
  BY <1>1, Containment DEF Inside
<1>3. trace' = Up(x) \ Up(current) /\ next' = x /\ Up(next)' = Up(x)
  BY DEF Path, Up
<1>4. TypeOK'
  BY <1>1, <1>2, <1>3 DEF TypeOK
<1>5. Configuration' /\ Entering'
  BY <1>1, <1>2, <1>3 DEF Configuration, Entering
<1>6. Running' /\ Remembered' /\ Climbing' /\ Leaving'
  BY <1>1 DEF Running, Remembered, Climbing, Leaving, Inside, Up
<1>. QED BY <1>4, <1>5, <1>6

LEMMA MachineNext == MachineInv /\ [Next]_vars => MachineInv'
<1>. SUFFICES ASSUME MachineInv, [Next]_vars PROVE MachineInv'
  OBVIOUS
<1>1. CASE RunFirst
  BY <1>1, RunFirstStep
<1>2. CASE RunAgain \/ NotHandled \/ Handled \/ EndStart
  BY <1>2, SignalSteps
<1>3. ASSUME NEW t \in State \ {Top}, NEW m \in chart.modes, Transition(t, m) PROVE MachineInv'
  BY <1>3, TransitionStep
<1>4. CASE StateOnExit
  BY <1>4, StateOnExitStep
<1>5. CASE EndExit
  BY <1>5, EndExitStep
<1>6. CASE StateOnEntry
  BY <1>6, StateOnEntryStep
<1>7. CASE EndEntry
  BY <1>7, EndEntryStep
<1>8. CASE StartByCallback
  BY <1>8, StartAtStep DEF StartByCallback
<1>9. CASE StartByHistory
  <2>1. current \in State /\ lastRunningChild[current] # Null
    BY <1>9 DEF StartByHistory, StartAt, MachineInv, TypeOK, Running
  <2>2. lastRunningChild[current] \in State /\ Inside(lastRunningChild[current], current)
    BY <2>1 DEF MachineInv, TypeOK, Remembered
  <2>. QED BY <1>9, <2>2, StartAtStep DEF StartByHistory
<1>10. CASE UNCHANGED vars
  BY <1>10 DEF vars, MachineInv, TypeOK, Configuration, Running, Remembered, Climbing,
               Leaving, Entering, Common, Inside, Up
<1>. QED BY <1>1, <1>2, <1>3, <1>4, <1>5, <1>6, <1>7, <1>8, <1>9, <1>10 DEF Next, Engine

LEMMA MachineInvariant == Spec => []MachineInv
BY MachineInit, MachineNext, PTL DEF Spec

-----------------------------------------------------------------------------
(* For every chart, after any sequence of transitions, the states entered  *)
(* and not exited are the current state and the states that contain it.    *)
THEOREM EntriesPairedWithExits == Spec => [](TypeOK /\ Configuration)
<1>1. MachineInv => TypeOK /\ Configuration
  BY DEF MachineInv
<1>. QED BY <1>1, MachineInvariant, PTL

(* A chart of at most MaxNestDepth levels never overruns the entry path.   *)
THEOREM EntryPathIsLongEnough == Spec => []EntryPathFits
<1>1. MachineInv => EntryPathFits
  <2>. SUFFICES ASSUME MachineInv PROVE EntryPathFits
    OBVIOUS
  <2>. DEFINE x == IF pc = "entry" THEN next ELSE Top
  <2>1. x \in State /\ Up(x) \subseteq State /\ Top \in Up(x) /\ trace \subseteq Up(x) \ {Top}
    BY EntryFacts, Containment DEF MachineInv, Entering
  <2>2. Cardinality(Up(x)) <= MaxNestDepth /\ MaxNestDepth \in Nat
    BY <2>1, Containment, ChartAssumption DEF MachineInv, IsChart, Up
  <2>3. IsFiniteSet(Up(x)) /\ Cardinality(Up(x)) \in Nat
    BY <2>1, FS_Subset, FS_CardinalityType, ChartAssumption
  <2>4. IsFiniteSet(Up(x) \ {Top}) /\ Cardinality(Up(x) \ {Top}) = Cardinality(Up(x)) - 1
    BY <2>1, <2>3, FS_RemoveElement
  <2>5. IsFiniteSet(trace) /\ Cardinality(trace) <= Cardinality(Up(x) \ {Top})
    BY <2>1, <2>4, FS_Subset
  <2>6. Cardinality(trace) \in Nat
    BY <2>5, FS_CardinalityType
  <2>. QED BY <2>2, <2>3, <2>4, <2>5, <2>6 DEF EntryPathFits
<1>. QED BY <1>1, MachineInvariant, PTL

(* Only EndExit leads from the exits to the entries, and only StateOnExit  *)
(* and EndEntry do what the last two facts say.                            *)
LEMMA WhichStep ==
  ASSUME MachineInv, Next
  PROVE  /\ pc = "exit" /\ pc' = "entry" => EndExit
         /\ active' # active => RunFirst \/ StateOnExit \/ StateOnEntry
         /\ pc = "entry" /\ pc' = "start" => EndEntry
BY DEF Next, Engine, RunFirst, RunAgain, NotHandled, Handled, Transition, StateOnExit, EndExit,
       StateOnEntry, EndEntry, StartByCallback, StartByHistory, StartAt, EndStart

(* For every chart, a transition exits exactly what its ends do not share, *)
(* and a state's transition to itself exits that state as well.            *)
THEOREM TransitionExitsToCommonAncestor == Spec => TransitionExits
<1>1. MachineInv /\ [Next]_vars
        => [pc = "exit" /\ pc' = "entry" =>
              \A x \in State :
                x \in active <=>
                  /\ taken.source = x \/ Inside(taken.source, x)
                  /\ taken.target = x \/ Inside(taken.target, x)
                  /\ ~(taken.source = x /\ taken.target = x)]_vars
  <2>. SUFFICES ASSUME MachineInv, Next, pc = "exit", pc' = "entry", NEW x \in State
                PROVE  x \in active <=>
                         /\ taken.source = x \/ Inside(taken.source, x)
                         /\ taken.target = x \/ Inside(taken.target, x)
                         /\ ~(taken.source = x /\ taken.target = x)
    BY DEF vars
  <2>1. exits = {}
    BY WhichStep DEF EndExit
  <2>2. /\ active = Common
        /\ taken.source \in State /\ taken.target \in State
    BY <2>1, ExitFacts
  <2>3. /\ taken.source \in Up(taken.source) /\ taken.target \in Up(taken.target)
    BY <2>2, Containment DEF MachineInv
  <2>4. /\ x \in Up(taken.source) <=> taken.source = x \/ Inside(taken.source, x)
        /\ x \in Up(taken.target) <=> taken.target = x \/ Inside(taken.target, x)
    BY <2>3 DEF Inside
  <2>. QED BY <2>2, <2>4 DEF Common
<1>. QED BY <1>1, MachineInvariant, PTL DEF Spec, TransitionExits

(* For every chart, a state is entered inside its active parent and left   *)
(* after everything nested in it, and the target of a path is entered.     *)
THEOREM EntriesAndExitsAreNested == Spec => EntriesAndExitsNest
<1>1. MachineInv /\ [Next]_vars
        => [/\ \A x \in active' \ active : x = Top \/ Parent(x) \in active
            /\ \A x \in active \ active' : \A y \in active' : ~Inside(y, x)
            /\ \A x \in State : pc = "entry" /\ next = x /\ pc' = "start" => x \in active]_vars
  <2>. SUFFICES ASSUME MachineInv, Next
                PROVE  /\ \A x \in active' \ active : x = Top \/ Parent(x) \in active
                       /\ \A x \in active \ active' : \A y \in active' : ~Inside(y, x)
                       /\ \A x \in State : pc = "entry" /\ next = x /\ pc' = "start" => x \in active
    OBVIOUS
  <2>1. ASSUME NEW x \in active' \ active PROVE x = Top \/ Parent(x) \in active
    <3>1. CASE RunFirst
      BY <3>1, <2>1 DEF RunFirst
    <3>2. CASE StateOnExit
      BY <3>2, <2>1 DEF StateOnExit
    <3>3. CASE StateOnEntry
      <4>1. Outermost(x) /\ pc = "entry"
        BY <3>3, <2>1 DEF StateOnEntry
      <4>2. next \in State /\ x \in Up(next) /\ x # Top /\ active = Up(next) \ trace
        BY <4>1, EntryFacts DEF Outermost
      <4>3. x \in State /\ Up(x) = {x} \cup Up(Parent(x)) /\ Up(x) \subseteq Up(next)
            /\ Parent(x) \in Up(Parent(x))
        BY <4>2, Containment DEF MachineInv
      <4>. QED BY <4>1, <4>2, <4>3 DEF Outermost
    <3>. QED BY <2>1, <3>1, <3>2, <3>3, WhichStep
  <2>2. ASSUME NEW x \in active \ active', NEW y \in active' PROVE ~Inside(y, x)
    <3>1. ~RunFirst /\ ~StateOnEntry
      BY <2>2 DEF RunFirst, StateOnEntry
    <3>2. StateOnExit
      BY <3>1, <2>2, WhichStep
    <3>3. pc = "exit" /\ s \in exits /\ x = s /\ active' = active \ {s}
      BY <3>2, <2>2 DEF StateOnExit
    <3>4. s \in State \ {Top} /\ active = Up(s)
      BY <3>3, ExitFacts
    <3>5. /\ Up(s) = {s} \cup Up(Parent(s)) /\ s \notin Up(Parent(s))
          /\ \A z \in Up(Parent(s)) : Up(z) \subseteq Up(Parent(s))
      BY <3>4, Containment DEF MachineInv
    <3>. QED BY <2>2, <3>3, <3>4, <3>5 DEF Inside
  <2>3. ASSUME NEW x \in State, pc = "entry", next = x, pc' = "start" PROVE x \in active
    <3>1. trace = {}
      BY <2>3, WhichStep DEF EndEntry
    <3>2. active = Up(x) /\ x \in Up(x)
      BY <2>3, <3>1, EntryFacts, Containment DEF MachineInv
    <3>. QED BY <3>2
  <2>. QED BY <2>1, <2>2, <2>3
<1>. QED BY <1>1, MachineInvariant, PTL DEF Spec, EntriesAndExitsNest

-----------------------------------------------------------------------------
(* History.  Of two states that contain a state one contains the other, so *)
(* a path from a state to the top has at most one state at each level.     *)
LEMMA UpChain ==
  ASSUME NEW ch, IsChart(ch), NEW x \in State, NEW y \in UpIn(ch, x), NEW z \in UpIn(ch, x)
  PROVE  y \in UpIn(ch, z) \/ z \in UpIn(ch, y)
<1>. DEFINE U == {v \in State : v \in UpIn(ch, z) \/ z \in UpIn(ch, v)}
<1>1. z \in State
  BY UpClosed
<1>2. ASSUME NEW v \in U \ {Top} PROVE ch.parent[v] \in U
  <2>1. ch.parent[v] \in State /\ UpIn(ch, v) = {v} \cup UpIn(ch, ch.parent[v])
    BY <1>2, UpStep
  <2>2. CASE v \in UpIn(ch, z)
    BY <2>1, <2>2, <1>1, UpClosed DEF Closed
  <2>3. CASE z \in UpIn(ch, v) /\ v # z
    BY <2>1, <2>3
  <2>4. CASE v = z
    BY <2>1, <2>4, <1>1, UpClosed DEF Closed
  <2>. QED BY <1>2, <2>2, <2>3, <2>4
<1>3. UpIn(ch, x) \subseteq U
  BY <1>2, UpLeast DEF Closed
<1>. QED BY <1>3

(* Two states with the same parent do not contain the same state.          *)
LEMMA OnePerLevel ==
  ASSUME NEW ch, IsChart(ch), NEW x \in State,
         NEW y \in UpIn(ch, x) \ {Top}, NEW z \in UpIn(ch, x) \ {Top},
         ch.parent[y] = ch.parent[z]
  PROVE  y = z
<1>1. y \in State /\ z \in State
  BY UpClosed
<1>2. y \in UpIn(ch, z) \/ z \in UpIn(ch, y)
  BY UpChain
<1>3. /\ UpIn(ch, y) = {y} \cup UpIn(ch, ch.parent[y]) /\ y \notin UpIn(ch, ch.parent[y])
      /\ UpIn(ch, z) = {z} \cup UpIn(ch, ch.parent[z]) /\ z \notin UpIn(ch, ch.parent[z])
  BY <1>1, UpStep, Acyclic
<1>. QED BY <1>2, <1>3

(* What a state remembers of when it was left: nothing, that it was the    *)
(* current state itself, or which of its states it was left through.       *)
Recorded(x) ==
  leaf[x] # Null =>
    IF leaf[x] = x THEN lastRunningChild[x] = Null
    ELSE LET y == lastRunningChild[x]
         IN y # Null /\ Parent(y) = x /\ y \in Up(leaf[x]) /\ leaf[y] = leaf[x]

(* The state that is to be entered, left or started next.                  *)
Position == IF pc = "exit" THEN s ELSE IF pc = "entry" THEN next ELSE current

(* x was reset by a transition in shallow mode and will be entered next.   *)
Reset(x) ==
  /\ pc \in {"entry", "start"} /\ taken.mode = "shallow"
  /\ Position = taken.target /\ lastRunningChild[taken.target] = x

(* x starts by its default transition, or has.                             *)
StartingIn(x) ==
  \/ Position = x /\ lastRunningChild[x] = chart.init[x]
  \/ Inside(Position, x) /\ chart.init[x] # Null /\ chart.init[x] \in Up(Position)

(* While no state is entered, the current state remembers no nested one.   *)
Settled ==
  /\ pc \in {"idle", "signal", "exit"} /\ current # Null => lastRunningChild[current] = Null
  /\ pc \in {"idle", "signal"} => taken = NoTransition

(* The states exited so far were left from the current state.              *)
LeftFrom ==
  pc = "exit" => /\ taken.source \in Up(current) /\ s \in Up(current)
                 /\ s # current => leaf[s] = current /\ Recorded(s)

(* Every state the machine is not in remembers how it was left.            *)
Left == \A x \in State : Position = Null \/ x \notin Up(Position) => Recorded(x) \/ Reset(x)

(* How far a transition has come with what its history mode asks.          *)
Resumed ==
  pc \in {"entry", "start"} /\ taken # NoTransition =>
    LET t == taken.target
    IN /\ t \in State /\ t \in Up(Position)
       /\ taken.mode = "deep" /\ leaf[t] # Null =>
            leaf[Position] = leaf[t] /\ \A x \in State : Position \in Up(x) => Recorded(x)
       /\ taken.mode = "shallow" /\ leaf[t] # Null =>
            \A x \in State \ {Top} : Parent(x) = t /\ x \in Up(leaf[t]) =>
               \/ Position = t /\ lastRunningChild[t] = x /\ lastRunningChild[x] = chart.init[x]
               \/ StartingIn(x)
       /\ taken.mode = "none" => StartingIn(t)

Remembering == Settled /\ LeftFrom /\ Left /\ Resumed
HistoryInv  == ~chart.starts => Remembering

(* What was recorded stays so while the history is left alone.             *)
LEMMA RecordedSame ==
  ASSUME UNCHANGED <<lastRunningChild, leaf, chart>>, NEW x
  PROVE  Recorded(x)' <=> Recorded(x)
BY DEF Recorded, Up, Parent

(* Steps between two calls of run() and the search for a handler.          *)
LEMMA SignalRemembers ==
  ASSUME MachineInv, Remembering, RunAgain \/ NotHandled \/ Handled
  PROVE  Remembering'
<1>. USE DEF RunAgain, NotHandled, Handled
<1>1. /\ pc \in {"idle", "signal"} /\ pc' \in {"idle", "signal"} /\ current # Null
      /\ UNCHANGED <<current, lastRunningChild, taken, leaf, chart>>
  BY DEF MachineInv, Running
<1>2. Settled'
  BY <1>1 DEF Remembering, Settled, NoTransition
<1>3. LeftFrom' /\ Resumed'
  BY <1>1 DEF LeftFrom, Resumed
<1>4. Left'
  <2>. SUFFICES ASSUME NEW x \in State, x \notin Up(current) PROVE Recorded(x)'
    BY <1>1 DEF Left, Position, Up
  <2>1. Recorded(x)
    BY <1>1 DEF Remembering, Left, Position, Reset
  <2>. QED BY <1>1, <2>1, RecordedSame
<1>. QED BY <1>2, <1>3, <1>4 DEF Remembering

LEMMA RunFirstRemembers ==
  ASSUME MachineInv, Remembering, RunFirst PROVE Remembering'
<1>. USE DEF RunFirst
<1>1. Settled' /\ LeftFrom' /\ Resumed'
  BY DEF Remembering, Settled, LeftFrom, Resumed, NoTransition
<1>2. Left'
  <2>. SUFFICES ASSUME NEW x \in State PROVE Recorded(x)'
    BY DEF Left
  <2>1. Recorded(x)
    BY DEF Remembering, Left, Position, Reset
  <2>. QED BY <2>1, RecordedSame
<1>. QED BY <1>1, <1>2 DEF Remembering

LEMMA TransitionRemembers ==
  ASSUME MachineInv, Remembering, NEW t \in State \ {Top}, NEW m \in chart.modes, Transition(t, m)
  PROVE  Remembering'
<1>. USE DEF Transition
<1>1. /\ current \in State /\ Null \notin State /\ s \in Up(current) /\ current \in Up(current)
      /\ current' = current /\ s' = current /\ pc' = "exit" /\ taken'.source = s
  BY Containment DEF MachineInv, TypeOK, Running, Climbing
<1>2. Settled' /\ Resumed'
  BY <1>1 DEF Remembering, Settled, Resumed
<1>3. LeftFrom'
  BY <1>1 DEF LeftFrom, Up
<1>4. Left'
  <2>. SUFFICES ASSUME NEW x \in State, x \notin Up(current) PROVE Recorded(x)'
    BY <1>1 DEF Left, Position, Up
  <2>1. Recorded(x)
    BY DEF Remembering, Left, Position, Reset
  <2>. QED BY <2>1, RecordedSame
<1>. QED BY <1>2, <1>3, <1>4 DEF Remembering

(* An exit action records how the state is left, and in its parent that it *)
(* was left through this state.                                            *)
LEMMA StateOnExitRemembers ==
  ASSUME MachineInv, Remembering, StateOnExit PROVE Remembering'
<1>0. /\ TypeOK /\ pc = "exit" /\ s \in exits /\ pc' = pc /\ s' = Parent(s)
      /\ UNCHANGED <<current, taken, chart>>
  BY DEF MachineInv, StateOnExit
<1>1. /\ current \in State /\ s \in State \ {Top} /\ Null \notin State
  BY <1>0, ExitFacts
<1>2. PICK p \in State : p = Parent(s)
  BY <1>0, <1>1, Containment
<1>3. /\ Up(s) = {s} \cup Up(p) /\ s \notin Up(p) /\ s \in Up(s) /\ p \in Up(p)
      /\ p # s /\ p \in Up(s)
  BY <1>0, <1>1, <1>2, Containment
<1>4. s \in Up(current) /\ Up(s) \subseteq Up(current) /\ p # current /\ taken.source \in Up(current)
  BY <1>0, <1>1, <1>3, Containment DEF Remembering, LeftFrom
<1>5. /\ lastRunningChild'[p] = s /\ leaf'[p] = current
      /\ \A x \in State \ {p} : lastRunningChild'[x] = lastRunningChild[x]
      /\ \A x \in State \ {p, s} : leaf'[x] = leaf[x]
      /\ leaf'[s] = IF s = current THEN s ELSE leaf[s]
  BY <1>0, <1>1, <1>2, <1>3 DEF StateOnExit, TypeOK
<1>6. leaf'[s] = current
  BY <1>0, <1>5 DEF Remembering, LeftFrom
<1>7. lastRunningChild[current] = Null
  BY <1>0, <1>1 DEF Remembering, Settled
<1>8. Settled' /\ Resumed'
  BY <1>0, <1>1, <1>4, <1>5, <1>7 DEF Settled, Resumed
<1>9. Recorded(p)'
  BY <1>0, <1>1, <1>2, <1>4, <1>5, <1>6 DEF Recorded, Up, Parent
<1>10. PICK q : q = s
  OBVIOUS
<1>11. ASSUME NEW x \in State, x \notin Up(p), Recorded(x) \/ (x = q /\ q = current)
       PROVE  Recorded(x)'
  <2>1. x # p /\ lastRunningChild'[x] = lastRunningChild[x]
    BY <1>3, <1>5, <1>11
  <2>2. CASE x = q /\ q = current
    BY <2>1, <2>2, <1>6, <1>7, <1>10 DEF Recorded
  <2>3. CASE Recorded(x) /\ ~(x = q /\ q = current)
    <3>1. leaf'[x] = leaf[x]
      BY <2>1, <2>3, <1>5, <1>10
    <3>2. PICK y : y = lastRunningChild[x]
      OBVIOUS
    <3>3. ASSUME y # Null PROVE leaf'[y] = leaf[y]
      <4>1. y \in State /\ y # x /\ x \in Up(y)
        BY <3>2, <3>3, <1>0 DEF MachineInv, Remembered, Inside, TypeOK
      <4>2. y # p
        BY <4>1, <1>11
      <4>3. y # s
        BY <4>1, <1>3, <1>11
      <4>. QED BY <4>1, <4>2, <4>3, <1>5
    <3>. QED BY <2>1, <2>3, <3>1, <3>2, <3>3, <1>0 DEF Recorded, Up, Parent
  <2>. QED BY <1>11, <2>2, <2>3
<1>12. LeftFrom'
  BY <1>0, <1>2, <1>3, <1>4, <1>5, <1>9 DEF LeftFrom, Up
<1>13. Left'
  <2>. SUFFICES ASSUME NEW x \in State, x \notin Up(p) PROVE Recorded(x)'
    BY <1>0, <1>1, <1>2 DEF Left, Position, Up
  <2>1. CASE x = s
    BY <2>1, <1>0, <1>10, <1>11 DEF Remembering, LeftFrom
  <2>2. CASE x # s
    <3>1. Recorded(x)
      BY <2>2, <1>0, <1>1, <1>3 DEF Remembering, Left, Position, Reset
    <3>. QED BY <3>1, <1>11
  <2>. QED BY <2>1, <2>2
<1>. QED BY <1>8, <1>12, <1>13 DEF Remembering

(* When the exits are done, the target and the states in it remember how   *)
(* they were left, unless the history mode resets that.                    *)
LEMMA EndExitRemembers ==
  ASSUME MachineInv, Remembering, EndExit PROVE Remembering'
<1>0. /\ TypeOK /\ pc = "exit" /\ exits = {} /\ pc' = "entry" /\ next' = taken.target
      /\ UNCHANGED <<taken, leaf, chart>> /\ lastRunningChild' = Restored(taken.target, taken.mode)
  BY DEF MachineInv, EndExit
<1>1. PICK t \in State \ {Top} : t = taken.target
  BY <1>0, ExitFacts
<1>2. PICK m \in Modes : m = taken.mode
  BY <1>0 DEF TypeOK
<1>3. /\ s \in State /\ current \in State /\ taken.source \in State \ {Top} /\ Null \notin State
      /\ Up(s) = Common /\ Up(s) \subseteq Up(t)
  BY <1>0, <1>1, ExitFacts
<1>4. /\ IsChart(chart) /\ t \in Up(t) /\ s \in Up(s) /\ Up(Top) = {Top}
      /\ \A x \in State \ {Top} : x \notin Up(Parent(x))
  BY <1>0, <1>1, <1>3, Containment
<1>5. \A x, y \in State : x \in Up(y) /\ y \in Up(x) => x = y
  BY <1>4, UpAntisymmetric DEF Up
<1>6. Recorded(t)
  <2>1. CASE t \notin Up(s)
    BY <2>1, <1>0, <1>1, <1>3 DEF Remembering, Left, Position, Reset
  <2>2. CASE t \in Up(s)
    <3>1. s = t
      BY <2>2, <1>1, <1>3, <1>4, <1>5
    <3>2. s # current
      <4>1. SUFFICES ASSUME s = current PROVE FALSE
        OBVIOUS
      <4>2. taken.source \in Common
        BY <4>1, <1>0, <1>3 DEF Remembering, LeftFrom
      <4>. QED BY <4>2, <3>1, <1>1, <1>3, <1>4, <1>5 DEF Common
    <3>. QED BY <3>1, <3>2, <1>0 DEF Remembering, LeftFrom
  <2>. QED BY <2>1, <2>2
<1>7. \A x \in State : t \in Up(x) \/ x \notin Up(t) => Recorded(x)
  <2>. SUFFICES ASSUME NEW x \in State, t \in Up(x) \/ x \notin Up(t), x # t PROVE Recorded(x)
    BY <1>6
  <2>1. x \notin Up(s)
    BY <1>1, <1>3, <1>5
  <2>. QED BY <2>1, <1>0, <1>3 DEF Remembering, Left, Position, Reset
<1>8. PICK r : r = lastRunningChild[t]
  OBVIOUS
<1>9. r # Null => r \in State /\ r # t /\ t \in Up(r)
  BY <1>0, <1>1, <1>8 DEF TypeOK, MachineInv, Remembered, Inside
<1>10. /\ m = "none" => /\ lastRunningChild'[t] = chart.init[t]
                        /\ \A x \in State \ {t} : lastRunningChild'[x] = lastRunningChild[x]
       /\ m = "shallow" /\ r # Null =>
            /\ lastRunningChild'[r] = chart.init[r]
            /\ \A x \in State \ {r} : lastRunningChild'[x] = lastRunningChild[x]
       /\ m = "deep" \/ (m = "shallow" /\ r = Null) => lastRunningChild' = lastRunningChild
  <2>1. lastRunningChild \in [State -> State \cup {Null}]
    BY <1>0 DEF TypeOK
  <2>2. CASE m = "none"
    BY <2>1, <2>2, <1>0, <1>1, <1>2 DEF Restored
  <2>3. CASE m = "shallow" /\ r # Null
    BY <2>1, <2>3, <1>0, <1>1, <1>2, <1>8, <1>9 DEF Restored
  <2>4. CASE m = "deep" \/ (m = "shallow" /\ r = Null)
    BY <2>4, <1>0, <1>1, <1>2, <1>8 DEF Restored
  <2>. QED BY <2>2, <2>3, <2>4, <1>2 DEF Modes
<1>11. Position' = t /\ Up(t)' = Up(t) /\ taken'.target = t /\ taken'.mode = m
  BY <1>0, <1>1, <1>2 DEF Position, Up
<1>12. ASSUME NEW x \in State, Recorded(x), lastRunningChild'[x] = lastRunningChild[x]
       PROVE  Recorded(x)'
  BY <1>0, <1>12 DEF Recorded, Up, Parent
<1>13. Left'
  <2>. SUFFICES ASSUME NEW x \in State, x \notin Up(t) PROVE Recorded(x)' \/ Reset(x)'
    BY <1>1, <1>3, <1>11 DEF Left, Up
  <2>1. CASE m = "shallow" /\ r # Null /\ x = r
    BY <2>1, <1>0, <1>1, <1>8, <1>9, <1>10, <1>11 DEF Reset
  <2>2. CASE ~(m = "shallow" /\ r # Null /\ x = r)
    <3>1. x # t
      BY <1>4
    <3>2. lastRunningChild'[x] = lastRunningChild[x]
      BY <2>2, <3>1, <1>2, <1>10 DEF Modes
    <3>. QED BY <3>2, <1>7, <1>12
  <2>. QED BY <2>1, <2>2
<1>14. ASSUME m = "deep" PROVE \A x \in State : t \in Up(x) => Recorded(x)'
  BY <1>14, <1>7, <1>10, <1>12
<1>15. ASSUME m = "shallow", leaf[t] # Null, NEW x \in State \ {Top}, Parent(x) = t, x \in Up(leaf[t])
       PROVE  lastRunningChild'[t] = x /\ lastRunningChild'[x] = chart.init[x]
  <2>1. leaf[t] \in State
    BY <1>0, <1>1, <1>15 DEF TypeOK
  <2>2. leaf[t] # t
    BY <1>4, <1>15
  <2>3. r # Null /\ Parent(r) = t /\ r \in Up(leaf[t])
    BY <2>2, <1>6, <1>8, <1>15 DEF Recorded
  <2>4. r # Top
    BY <2>3, <1>1, <1>4, <1>9
  <2>5. r = x
    BY <2>1, <2>3, <2>4, <1>4, <1>15, OnePerLevel DEF Up, Parent
  <2>. QED BY <2>3, <2>5, <1>1, <1>8, <1>9, <1>10, <1>15
<1>16. Resumed'
  <2>1. m = "none" => StartingIn(t)'
    BY <1>10, <1>11, <1>0 DEF StartingIn
  <2>2. ASSUME m = "shallow", leaf[t] # Null, NEW x \in State \ {Top}, Parent(x)' = t, (x \in Up(leaf[t]))'
        PROVE  Position' = t /\ lastRunningChild'[t] = x /\ lastRunningChild'[x] = chart'.init[x]
    BY <2>2, <1>0, <1>11, <1>15 DEF Parent, Up
  <2>3. m = "deep" => leaf'[Position'] = leaf'[t] /\ \A x \in State : (t \in Up(x))' => Recorded(x)'
    BY <1>0, <1>11, <1>14 DEF Up
  <2>4. t \in State /\ t \in Up(t)'
    BY <1>1, <1>4, <1>11
  <2>. QED BY <2>1, <2>2, <2>3, <2>4, <1>0, <1>11 DEF Resumed
<1>17. Settled' /\ LeftFrom'
  BY <1>0 DEF Settled, LeftFrom
<1>. QED BY <1>13, <1>16, <1>17 DEF Remembering

(* The entry actions move along the path and leave the history alone.      *)
LEMMA EntryRemembers ==
  ASSUME MachineInv, Remembering, StateOnEntry \/ EndEntry
  PROVE  Remembering'
<1>1. /\ pc = "entry" /\ pc' \in {"entry", "start"} /\ Position' = Position
      /\ UNCHANGED <<lastRunningChild, taken, leaf, chart>>
  BY DEF StateOnEntry, EndEntry, Position
<1>2. \A x : (Recorded(x)' <=> Recorded(x))
  BY <1>1, RecordedSame
<1>3. \A x : (Reset(x)' <=> Reset(x)) /\ (StartingIn(x)' <=> StartingIn(x))
  BY <1>1 DEF Reset, StartingIn, Inside, Up
<1>4. Settled' /\ LeftFrom'
  BY <1>1 DEF Settled, LeftFrom
<1>5. Left'
  BY <1>1, <1>2, <1>3 DEF Remembering, Left, Up
<1>6. Resumed'
  <2>1. PICK t : t = taken.target
    OBVIOUS
  <2>2. StartingIn(t)' <=> StartingIn(t)
    BY <1>3
  <2>. QED BY <1>1, <1>2, <1>3, <2>1, <2>2 DEF Remembering, Resumed, Up, Parent, NoTransition
<1>. QED BY <1>4, <1>5, <1>6 DEF Remembering

(* An initial transition goes to the state remembered.                     *)
LEMMA StartByHistoryRemembers ==
  ASSUME MachineInv, Remembering, StartByHistory PROVE Remembering'
<1>0. /\ TypeOK /\ pc = "start" /\ pc' = "entry" /\ lastRunningChild[current] # Null
      /\ next' = lastRunningChild[current]
      /\ UNCHANGED <<current, lastRunningChild, taken, leaf, chart>>
  BY DEF MachineInv, StartByHistory, StartAt
<1>1. current \in State /\ Null \notin State /\ IsChart(chart)
  BY <1>0, Containment DEF MachineInv, Running, TypeOK
<1>2. PICK x \in State : x = lastRunningChild[current]
  BY <1>0, <1>1 DEF TypeOK
<1>3. /\ x # current /\ current \in Up(x) /\ x \in Up(x) /\ current \in Up(current)
      /\ Up(current) \subseteq Up(x) /\ \A z \in State : \A y \in Up(z) : Up(y) \subseteq Up(z)
  BY <1>0, <1>1, <1>2, Containment DEF MachineInv, Remembered, Inside
<1>4. \A y, z \in State : y \in Up(z) /\ z \in Up(y) => y = z
  BY <1>1, UpAntisymmetric DEF Up
<1>5. Position = current /\ Position' = x
  BY <1>0, <1>2 DEF Position
<1>6. \A z : (Recorded(z)' <=> Recorded(z))
  BY <1>0, RecordedSame
<1>7. ASSUME NEW z \in State, StartingIn(z) PROVE StartingIn(z)'
  <2>1. CASE current = z /\ lastRunningChild[z] = chart.init[z]
    <3>1. chart.init[z] = x /\ x # Null
      BY <2>1, <1>1, <1>2
    <3>. QED BY <2>1, <3>1, <1>0, <1>3, <1>5 DEF StartingIn, Inside, Up
  <2>2. CASE Inside(current, z) /\ chart.init[z] # Null /\ chart.init[z] \in Up(current)
    <3>1. z \in Up(current) /\ z # current
      BY <2>2 DEF Inside
    <3>2. z \in Up(x) /\ chart.init[z] \in Up(x)
      BY <2>2, <3>1, <1>3
    <3>3. x # z
      BY <3>1, <1>1, <1>3, <1>4
    <3>. QED BY <2>2, <3>2, <3>3, <1>0, <1>5 DEF StartingIn, Inside, Up
  <2>. QED BY <1>5, <1>7, <2>1, <2>2 DEF StartingIn
<1>8. Settled' /\ LeftFrom'
  BY <1>0 DEF Settled, LeftFrom
<1>9. Left'
  <2>. SUFFICES ASSUME NEW z \in State, z \notin Up(x) PROVE Recorded(z)'
    BY <1>0, <1>1, <1>5 DEF Left, Up
  <2>1. z \notin Up(current) /\ z # x
    BY <1>3
  <2>2. ~Reset(z)
    BY <2>1, <1>2, <1>5 DEF Reset
  <2>. QED BY <2>1, <2>2, <1>5, <1>6 DEF Remembering, Left
<1>10. ASSUME taken # NoTransition PROVE Resumed'
  <2>1. PICK t : t = taken.target
    OBVIOUS
  <2>2. t \in State /\ t \in Up(current) /\ t \in Up(x)
    BY <1>0, <1>3, <1>5, <1>10, <2>1 DEF Remembering, Resumed
  <2>3. ASSUME taken.mode = "deep", leaf[t] # Null
        PROVE  leaf[x] = leaf[t] /\ \A z \in State : x \in Up(z) => Recorded(z)
    <3>1. leaf[current] = leaf[t] /\ \A z \in State : current \in Up(z) => Recorded(z)
      BY <2>1, <2>3, <1>0, <1>5, <1>10 DEF Remembering, Resumed
    <3>2. leaf[x] = leaf[current]
      BY <3>1, <2>3, <1>0, <1>1, <1>2, <1>3 DEF Recorded
    <3>. QED BY <3>1, <3>2, <1>3
  <2>4. ASSUME taken.mode = "shallow", leaf[t] # Null,
               NEW z \in State \ {Top}, Parent(z) = t, z \in Up(leaf[t])
        PROVE  StartingIn(z)'
    <3>1. \/ current = t /\ lastRunningChild[t] = z /\ lastRunningChild[z] = chart.init[z]
          \/ StartingIn(z)
      BY <2>1, <2>4, <1>0, <1>5, <1>10 DEF Remembering, Resumed
    <3>2. CASE current = t /\ lastRunningChild[t] = z /\ lastRunningChild[z] = chart.init[z]
      BY <3>2, <1>0, <1>2, <1>5 DEF StartingIn
    <3>. QED BY <3>1, <3>2, <1>7
  <2>5. taken.mode = "none" => StartingIn(t)'
    <3>1. taken.mode = "none" => StartingIn(t)
      BY <2>1, <1>0, <1>10 DEF Remembering, Resumed
    <3>. QED BY <3>1, <2>2, <1>7
  <2>6. ASSUME taken'.mode = "deep", leaf'[t] # Null
        PROVE  leaf'[x] = leaf'[t] /\ \A z \in State : (x \in Up(z))' => Recorded(z)'
    BY <2>3, <2>6, <1>0, <1>6 DEF Up
  <2>7. ASSUME taken'.mode = "shallow", leaf'[t] # Null,
               NEW z \in State \ {Top}, Parent(z)' = t, (z \in Up(leaf[t]))'
        PROVE  StartingIn(z)'
    BY <2>4, <2>7, <1>0 DEF Up, Parent
  <2>8. t = taken'.target /\ (t \in Up(x))'
    BY <2>1, <2>2, <1>0 DEF Up
  <2>. QED BY <2>2, <2>5, <2>6, <2>7, <2>8, <1>0, <1>5 DEF Resumed
<1>. QED BY <1>0, <1>8, <1>9, <1>10 DEF Remembering, Resumed, NoTransition

LEMMA EndStartRemembers ==
  ASSUME MachineInv, Remembering, EndStart PROVE Remembering'
<1>1. /\ pc = "start" /\ lastRunningChild[current] = Null /\ pc' \in {"signal", "idle"}
      /\ taken' = NoTransition
      /\ UNCHANGED <<current, lastRunningChild, leaf, chart>>
  BY DEF EndStart
<1>2. current # Null /\ Null \notin State
  BY <1>1, Containment DEF MachineInv, Running
<1>3. Settled' /\ LeftFrom' /\ Resumed'
  BY <1>1 DEF Settled, LeftFrom, Resumed, NoTransition
<1>4. Left'
  <2>. SUFFICES ASSUME NEW x \in State, x \notin Up(current) PROVE Recorded(x)'
    BY <1>1, <1>2 DEF Left, Position, Up
  <2>1. ~Reset(x)
    BY <1>1, <1>2 DEF Reset, Position
  <2>2. Recorded(x)
    BY <2>1, <1>1 DEF Remembering, Left, Position
  <2>. QED BY <2>2, <1>1, RecordedSame
<1>. QED BY <1>3, <1>4 DEF Remembering

LEMMA HistoryInit == Init => HistoryInv
BY ChartAssumption DEF Init, HistoryInv, Remembering, Settled, LeftFrom, Left, Resumed, Recorded

LEMMA HistoryNext == MachineInv /\ HistoryInv /\ [Next]_vars => HistoryInv'
<1>. SUFFICES ASSUME MachineInv, HistoryInv, [Next]_vars, ~chart.starts PROVE Remembering'
  <2>1. [Next]_vars => chart' = chart
    BY DEF Next, Engine, vars, RunFirst, RunAgain, NotHandled, Handled, Transition, StateOnExit,
           EndExit, StateOnEntry, EndEntry, StartByCallback, StartByHistory, StartAt, EndStart
  <2>. QED BY <2>1 DEF HistoryInv
<1>0. Remembering
  BY DEF HistoryInv
<1>1. CASE RunFirst
  BY <1>0, <1>1, RunFirstRemembers
<1>2. CASE RunAgain \/ NotHandled \/ Handled
  BY <1>0, <1>2, SignalRemembers
<1>3. ASSUME NEW t \in State \ {Top}, NEW m \in chart.modes, Transition(t, m) PROVE Remembering'
  BY <1>0, <1>3, TransitionRemembers
<1>4. CASE StateOnExit
  BY <1>0, <1>4, StateOnExitRemembers
<1>5. CASE EndExit
  BY <1>0, <1>5, EndExitRemembers
<1>6. CASE StateOnEntry \/ EndEntry
  BY <1>0, <1>6, EntryRemembers
<1>7. CASE StartByCallback
  BY <1>7 DEF StartByCallback
<1>8. CASE StartByHistory
  BY <1>0, <1>8, StartByHistoryRemembers
<1>9. CASE EndStart
  BY <1>0, <1>9, EndStartRemembers
<1>10. CASE UNCHANGED vars
  <2>1. UNCHANGED <<pc, current, next, s, lastRunningChild, taken, leaf, chart>>
    BY <1>10 DEF vars
  <2>2. \A x : (Recorded(x)' <=> Recorded(x))
    BY <2>1, RecordedSame
  <2>3. Position' = Position
    BY <2>1 DEF Position
  <2>4. \A x : (Reset(x)' <=> Reset(x)) /\ (StartingIn(x)' <=> StartingIn(x))
    BY <2>1, <2>3 DEF Reset, StartingIn, Inside, Up
  <2>5. Settled' /\ Left'
    BY <1>0, <2>1, <2>2, <2>3, <2>4 DEF Remembering, Settled, Left, Up, NoTransition
  <2>6. LeftFrom'
    BY <1>0, <2>1 DEF Remembering, LeftFrom, Recorded, Up, Parent
  <2>7. Resumed'
    <3>1. PICK t : t = taken.target
      OBVIOUS
    <3>2. StartingIn(t)' <=> StartingIn(t)
      BY <2>4
    <3>. QED BY <1>0, <2>1, <2>2, <2>3, <2>4, <3>1, <3>2
             DEF Remembering, Resumed, Up, Parent, NoTransition
  <2>. QED BY <2>5, <2>6, <2>7 DEF Remembering
<1>. QED BY <1>1, <1>2, <1>3, <1>4, <1>5, <1>6, <1>7, <1>8, <1>9, <1>10 DEF Next, Engine

LEMMA HistoryInvariant == Spec => []HistoryInv
BY HistoryInit, HistoryNext, MachineInvariant, PTL DEF Spec

(* For every chart whose callbacks choose no initial transitions, whatever *)
(* the order of transitions, a transition ends where its history mode says *)
(* with respect to when its target was left last.                          *)
THEOREM HistoryIsHonoured == Spec => HistoryHonoured
<1>. DEFINE Ends ==
       LET t == taken.target
       IN CASE taken.mode = "deep" -> leaf[t] # Null => current = leaf[t]
            [] taken.mode = "shallow" ->
                 \A x \in State \ {Top} :
                   Parent(x) = t /\ leaf[t] # Null /\ x \in Up(leaf[t]) => StartedIn(x)
            [] OTHER -> StartedIn(t)
<1>1. MachineInv /\ HistoryInv /\ [Next]_vars
        => [pc = "start" /\ pc' = "idle" /\ ~chart.starts => Ends]_vars
  <2>. SUFFICES ASSUME MachineInv, HistoryInv, Next, pc = "start", pc' = "idle", ~chart.starts
                PROVE  Ends
    OBVIOUS
  <2>1. EndStart
    BY DEF Next, Engine, RunFirst, RunAgain, NotHandled, Handled, Transition, StateOnExit, EndExit,
           StateOnEntry, EndEntry, StartByCallback, StartByHistory, StartAt, EndStart
  <2>2. /\ taken # NoTransition /\ lastRunningChild[current] = Null /\ Position = current
        /\ taken.mode \in Modes /\ Null \notin State /\ current \in State
    BY <2>1, Containment DEF EndStart, Position, MachineInv, TypeOK, Running
  <2>3. active = Up(current) /\ current \in Up(current)
    BY <2>2, Containment DEF MachineInv, Configuration
  <2>4. PICK t : t = taken.target
    OBVIOUS
  <2>5. t \in State /\ Resumed
    BY <2>2, <2>4 DEF HistoryInv, Remembering, Resumed
  <2>6. ASSUME NEW x \in State, StartingIn(x) PROVE StartedIn(x)
    BY <2>2, <2>3, <2>6 DEF StartingIn, StartedIn
  <2>7. ASSUME taken.mode = "deep", leaf[t] # Null PROVE current = leaf[t]
    <3>1. leaf[current] = leaf[t] /\ Recorded(current)
      BY <2>2, <2>3, <2>4, <2>5, <2>7 DEF Resumed
    <3>. QED BY <3>1, <2>2, <2>7 DEF Recorded
  <2>8. ASSUME taken.mode = "shallow", NEW x \in State \ {Top}, Parent(x) = t, leaf[t] # Null,
               x \in Up(leaf[t])
        PROVE  StartedIn(x)
    <3>1. \/ current = t /\ lastRunningChild[t] = x
          \/ StartingIn(x)
      BY <2>2, <2>4, <2>5, <2>8 DEF Resumed
    <3>. QED BY <3>1, <2>2, <2>6
  <2>9. ASSUME taken.mode = "none" PROVE StartedIn(t)
    <3>1. StartingIn(t)
      BY <2>2, <2>4, <2>5, <2>9 DEF Resumed
    <3>. QED BY <3>1, <2>5, <2>6
  <2>. QED BY <2>2, <2>4, <2>7, <2>8, <2>9 DEF Modes
<1>. QED BY <1>1, MachineInvariant, HistoryInvariant, PTL DEF Spec, HistoryHonoured
=============================================================================
