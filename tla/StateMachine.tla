---------------------------- MODULE StateMachine ----------------------------
(***************************************************************************)
(* The engine of a hierarchical state machine, stateMachine::run() of      *)
(* src/src/fsm.cpp: a signal climbs from the current state towards the top *)
(* until a state handles it; a transition exits states up to the least     *)
(* common ancestor, applies the history mode, enters states down to the    *)
(* target and then follows initial transitions.                            *)
(*                                                                         *)
(* Each step is one call of a state's activities, with SIGNAL_ENTRY,       *)
(* SIGNAL_EXIT, SIGNAL_START or the signal being processed; what the       *)
(* callback answers is nondeterministic.  Which signal it is and the       *)
(* timeouts that entries and exits start are left out.                     *)
(***************************************************************************)
EXTENDS Naturals, FiniteSets

CONSTANTS
  State,          \* the state objects
  Top,            \* stateMachine::top
  Null,           \* the null pointer
  Charts,         \* the state machines that are built, see below
  MaxNestDepth    \* Q_FSM_MAX_NEST_DEPTH

Modes == {"none", "shallow", "deep"}     \* sm::historyMode

(* s and the states that contain it, in a chart ch: the smallest set with  *)
(* s in it that holds the parent of each of its members.                   *)
UpIn(ch, s) ==
  {a \in State : \A U \in SUBSET State :
     s \in U /\ (\A x \in U \ {Top} : ch.parent[x] \in U) => a \in U}

(* A chart: the hierarchy that stateMachine::add() and state::add() built, *)
(* the initial transitions, the history modes its transitions use, and     *)
(* whether callbacks answer SIGNAL_START with an initial transition.       *)
IsChart(ch) ==
  /\ ch.parent \in [State \ {Top} -> State]
  /\ ch.init \in [State -> State \cup {Null}]
  /\ ch.modes \subseteq Modes /\ ch.starts \in BOOLEAN
  /\ \A s \in State : /\ Top \in UpIn(ch, s)
                      /\ Cardinality(UpIn(ch, s)) <= MaxNestDepth
                      /\ ch.init[s] # Null => ch.init[s] # s /\ s \in UpIn(ch, ch.init[s])

ASSUME ChartAssumption ==
  /\ IsFiniteSet(State) /\ Top \in State /\ Null \notin State /\ MaxNestDepth \in Nat
  /\ \A ch \in Charts : IsChart(ch)

VARIABLES
  pc,                 \* "idle", or the kind of handler that is called next
  current, next,      \* as in the code; next is Null when there is none
  s,                  \* local s of run() and of exitUpToLCA()
  lastRunningChild,   \* history of each state
  exits,              \* states exitUpToLCA() still has to exit
  trace,              \* states tracePathAndRetraceEntry() still has to enter
  taken,              \* the transition being performed
  active,             \* history: states entered and not exited since
  leaf,               \* history: the current state when each state was left
  chart               \* the state machine, which never changes

vars == <<pc, current, next, s, lastRunningChild, exits, trace, taken, active, leaf, chart>>

Up(x) == UpIn(chart, x)
Inside(x, y) == x # y /\ y \in Up(x)     \* x is nested in y, at any depth
Parent(x) == chart.parent[x]
NoTransition == [source |-> Null, target |-> Null, mode |-> "none"]

(* stateMachine::setup() and the add() calls, before the first run().      *)
Init ==
  /\ chart \in Charts
  /\ pc = "idle" /\ current = Null /\ next = Null /\ s = Null
  /\ lastRunningChild = chart.init
  /\ exits = {} /\ trace = {} /\ taken = NoTransition
  /\ active = {} /\ leaf = [x \in State |-> Null]

-----------------------------------------------------------------------------
(* run() for the first time: the top state is entered and started.         *)
RunFirst ==
  /\ pc = "idle" /\ current = Null
  /\ current' = Top /\ active' = active \cup {Top}
  /\ pc' = "start"
  /\ UNCHANGED <<next, s, lastRunningChild, exits, trace, taken, leaf, chart>>

(* run() from then on: the signal is given to the current state first.     *)
RunAgain ==
  /\ pc = "idle" /\ current # Null
  /\ s' = current /\ pc' = "signal"
  /\ UNCHANGED <<current, next, lastRunningChild, exits, trace, taken, active, leaf, chart>>

(* stateOnSignal(s): not handled, so the containing state is tried next.   *)
NotHandled ==
  /\ pc = "signal"
  /\ IF s = Top THEN s' = Null /\ pc' = "idle" ELSE s' = Parent(s) /\ UNCHANGED pc
  /\ UNCHANGED <<current, next, lastRunningChild, exits, trace, taken, active, leaf, chart>>

(* Handled without a transition: run() returns.                            *)
Handled ==
  /\ pc = "signal"
  /\ s' = Null /\ pc' = "idle"
  /\ UNCHANGED <<current, next, lastRunningChild, exits, trace, taken, active, leaf, chart>>

(* Mutant: a recursive transition is not a case of its own.                *)
LevelsNoSelf(x, y) == Up(x) \ Up(y)

(* levelsToLCA(): the levels to leave from the source x of a transition to *)
(* y, as the states at these levels.                                       *)
levelsToLCA(x, y) == IF x = y THEN {x} ELSE Up(x) \ Up(y)

(* The transition table of s or its callback set NextState: transition()   *)
(* starts exitUpToLCA(), from the current state.  Neither source nor       *)
(* target is the top state, as the documentation demands.                  *)
Transition(t, m) ==
  /\ pc = "signal" /\ s # Top
  /\ taken' = [source |-> s, target |-> t, mode |-> m]
  /\ exits' = (Up(current) \ Up(s)) \cup levelsToLCA(s, t)
  /\ s' = current /\ pc' = "exit"
  /\ UNCHANGED <<current, next, lastRunningChild, trace, active, leaf, chart>>

(* stateOnExit(): the exit action, and the state is remembered in its      *)
(* parent.                                                                 *)
StateOnExit ==
  /\ pc = "exit" /\ s \in exits
  /\ active' = active \ {s} /\ exits' = exits \ {s}
  /\ lastRunningChild' = [lastRunningChild EXCEPT ![Parent(s)] = s]
  /\ leaf' = [leaf EXCEPT ![Parent(s)] = current, ![s] = IF s = current THEN s ELSE @]
  /\ s' = Parent(s)
  /\ UNCHANGED <<pc, current, next, trace, taken, chart>>

(* Mutant: the nested state is not reset in shallow mode.                  *)
RestoredDeep(t, m) ==
  IF m = "none" THEN [lastRunningChild EXCEPT ![t] = chart.init[t]] ELSE lastRunningChild

(* transition(), once the exits are done: what the history mode makes of   *)
(* the remembered states.                                                  *)
Restored(t, m) ==
  LET lrc == lastRunningChild[t]
  IN CASE m = "none" -> [lastRunningChild EXCEPT ![t] = chart.init[t]]
       [] m = "shallow" /\ lrc # Null -> [lastRunningChild EXCEPT ![lrc] = chart.init[lrc]]
       [] OTHER -> lastRunningChild

(* Mutants: the path is traced until there is no parent; it starts above   *)
(* the target.                                                             *)
PathWhole(from, to) == Up(to)
PathNoTarget(from, to) == Up(to) \ (Up(from) \cup {to})

(* The path traced from the state `to` up to the state `from`.             *)
Path(from, to) == Up(to) \ Up(from)

(* The end of exitUpToLCA() and of transition(), and the path to the       *)
(* target.                                                                 *)
EndExit ==
  /\ pc = "exit" /\ exits = {}
  /\ current' = s /\ s' = Null
  /\ lastRunningChild' = Restored(taken.target, taken.mode)
  /\ next' = taken.target /\ trace' = Path(s, taken.target)
  /\ pc' = "entry"
  /\ UNCHANGED <<exits, taken, active, leaf, chart>>

(* Mutant: the path is played in the order it was traced.                  *)
Deepest(x) == x \in trace /\ \A y \in trace : y \in Up(x)

(* The entry path is played backwards: the outermost state first.          *)
Outermost(x) == x \in trace /\ Parent(x) \notin trace

StateOnEntry ==
  /\ pc = "entry"
  /\ \E x \in trace : /\ Outermost(x)
                      /\ active' = active \cup {x} /\ trace' = trace \ {x}
  /\ UNCHANGED <<pc, current, next, s, lastRunningChild, exits, taken, leaf, chart>>

(* Mutant: current is not moved to the target.                             *)
EndEntryWith(c, n) ==
  /\ pc = "entry" /\ trace = {}
  /\ current' = c /\ next' = n
  /\ pc' = "start"
  /\ UNCHANGED <<s, lastRunningChild, exits, trace, taken, active, leaf, chart>>
EndEntryBehind == EndEntryWith(current, Null)

(* The end of the path: the target is the current state.                   *)
EndEntry ==
  /\ pc = "entry" /\ trace = {}
  /\ current' = next /\ next' = Null
  /\ pc' = "start"
  /\ UNCHANGED <<s, lastRunningChild, exits, trace, taken, active, leaf, chart>>

(* stateOnStart(), x being the initial transition found: the one of the    *)
(* callback or else the last running child.                                *)
StartAt(x) ==
  /\ pc = "start" /\ x # Null
  /\ next' = x /\ trace' = Path(current, x)
  /\ pc' = "entry"
  /\ UNCHANGED <<current, s, lastRunningChild, exits, taken, active, leaf, chart>>

StartByCallback == chart.starts /\ \E x \in State : Inside(x, current) /\ StartAt(x)
StartByHistory  == StartAt(lastRunningChild[current])

(* No initial transition: run() is done, or goes on to the signal if this  *)
(* was the start of the top state.                                         *)
EndStart ==
  /\ pc = "start" /\ lastRunningChild[current] = Null
  /\ IF taken = NoTransition THEN pc' = "signal" /\ s' = current ELSE pc' = "idle" /\ s' = Null
  /\ taken' = NoTransition
  /\ UNCHANGED <<current, next, lastRunningChild, exits, trace, active, leaf, chart>>

Engine ==
  \/ NotHandled \/ Handled
  \/ \E t \in State \ {Top}, m \in chart.modes : Transition(t, m)
  \/ StateOnExit \/ EndExit \/ StateOnEntry \/ EndEntry
  \/ StartByCallback \/ StartByHistory \/ EndStart

Next == RunFirst \/ RunAgain \/ Engine

(* Callbacks return, so a call of run() goes on; nobody must call run().   *)
Spec == Init /\ [][Next]_vars /\ WF_vars(Engine)

-----------------------------------------------------------------------------
TypeOK ==
  /\ pc \in {"idle", "signal", "exit", "entry", "start"}
  /\ {current, next, s} \subseteq State \cup {Null}
  /\ next # Null <=> pc = "entry"
  /\ s # Null <=> pc \in {"signal", "exit"}
  /\ lastRunningChild \in [State -> State \cup {Null}]
  /\ exits \subseteq State /\ trace \subseteq State
  /\ taken \in [source : State \cup {Null}, target : State \cup {Null}, mode : Modes]
  /\ active \subseteq State /\ leaf \in [State -> State \cup {Null}]
  /\ chart \in Charts

(* Entry and exit actions are guaranteed and paired: whatever transitions  *)
(* were taken, the states entered and not exited are the current state and *)
(* the states that contain it - on the way, those already reached.         *)
Configuration ==
  active = CASE current = Null -> {}
             [] current # Null /\ pc = "exit" -> Up(s)
             [] current # Null /\ pc = "entry" -> Up(next) \ trace
             [] OTHER -> Up(current)

(* A state is entered only inside its active parent, exited only when none *)
(* of its nested states is active, and neither twice.                      *)
EntriesAndExitsNest ==
  [][/\ \A x \in active' \ active : x = Top \/ Parent(x) \in active
     /\ \A x \in active \ active' : \A y \in active' : ~Inside(y, x)
     /\ \A x \in State : pc = "entry" /\ next = x /\ pc' = "start" => x \in active]_vars

(* A transition leaves no state that contains both its ends, and leaves    *)
(* every other state that it does not enter again: only a transition of a  *)
(* state to itself exits a state that contains both, itself.               *)
TransitionExits ==
  [][pc = "exit" /\ pc' = "entry" =>
       \A x \in State :
         x \in active <=>
           /\ taken.source = x \/ Inside(taken.source, x)
           /\ taken.target = x \/ Inside(taken.target, x)
           /\ ~(taken.source = x /\ taken.target = x)]_vars

(* x was entered by its default transition.                                *)
StartedIn(x) == IF chart.init[x] = Null THEN current = x ELSE chart.init[x] \in active

(* Where a transition to a composite state ends when callbacks choose no   *)
(* initial transitions: in the very state it was left in last (deep), in   *)
(* its last nested state at the first level, started by default (shallow), *)
(* or in its own initial state.                                            *)
HistoryHonoured ==
  [][pc = "start" /\ pc' = "idle" /\ ~chart.starts =>
       LET t == taken.target
       IN CASE taken.mode = "deep" -> leaf[t] # Null => current = leaf[t]
            [] taken.mode = "shallow" ->
                 \A x \in State \ {Top} :
                   Parent(x) = t /\ leaf[t] # Null /\ x \in Up(leaf[t]) => StartedIn(x)
            [] OTHER -> StartedIn(t)]_vars

(* A composite state without history starts by its default transitions, at *)
(* every level.                                                            *)
DefaultAtEveryLevel ==
  [][pc = "start" /\ pc' = "idle" /\ taken.mode = "none" =>
       \A x \in active' : (x = taken.target \/ Inside(x, taken.target)) /\ chart.init[x] # Null
          => chart.init[x] \in active']_vars

(* The array entryPath of run() holds the path and its null terminator in  *)
(* every hierarchy of MaxNestDepth levels, the top state counted.          *)
EntryPathFits == Cardinality(trace) < MaxNestDepth

(* Every call of run() returns.                                            *)
RunReturns == pc # "idle" ~> pc = "idle"
=============================================================================
