----------------------------- MODULE Coroutine ------------------------------
(* Coroutines (coroutine.hpp, coroutine.cpp): task functions that leave at a  *)
(* statement, keep its label and go on from there when they are run again.    *)
(* A routine is the sequence of its statements, records [op, arg]; a label is *)
(* the place of a statement.  Tasks run one at a time, each statement is one  *)
(* step.  Other tasks and handlers control routines through their handles.    *)
EXTENDS Integers, Sequences, FiniteSets

CONSTANTS Programs,        \* applications: routine -> its statements
          InitialCount,    \* semaphore -> its initial count
          Handled,         \* routines whose reenter() was given a handle
          FromHandlers,    \* BOOLEAN: handles are also used while a routine runs
          MaxTime          \* bound on the times that are waited for

VARIABLES program, label, prev, bound, running, at, resumed, timer, count, position, flag,
          buffer,          \* items put and not yet got, beside those from the start
          delaying, waited \* the delay the last wait is, if it is one; ticks since it began
coVars == <<program, label, prev, bound, running, at, resumed, timer, count, position, flag,
            buffer, delaying, waited>>

UNDEFINED == -2
SUSPENDED == -1
BEGINNING == 0
DISARMED == -1
NOBODY == "nobody"

(* A program is well formed: an until ends the perform before it, with no     *)
(* statement of a coroutine in between (coroutine.hpp 338-372).               *)
Statement ==
  [op : {"semWait", "semSignal"}, arg : DOMAIN InitialCount]
    \cup [op : {"delay", "perform", "timedWaitUntil"}, arg : 0..MaxTime]
    \cup [op : {"yield", "waitUntil", "until", "restart", "getPosition", "setPosition", "put", "get"}, arg : {0}]
WellFormed(s) ==
  /\ s \in Seq(Statement)
  /\ \A i \in DOMAIN s : s[i].op = "until" => (i > 1 /\ s[i - 1].op = "perform")

ASSUME CoAssumption ==
  /\ MaxTime \in Nat /\ InitialCount \in [DOMAIN InitialCount -> Nat]
  /\ \A p \in Programs :
       IsFiniteSet(DOMAIN p) /\ NOBODY \notin DOMAIN p /\ \A r \in DOMAIN p : WellFormed(p[r])

Routine == DOMAIN program
Stmt == program[running][at]

CoInit ==
  /\ program \in Programs
  /\ label = [r \in Routine |-> BEGINNING] /\ prev = [r \in Routine |-> UNDEFINED]
  /\ bound = [r \in Routine |-> FALSE] /\ timer = [r \in Routine |-> DISARMED]
  /\ running = NOBODY /\ at = 0 /\ resumed = FALSE
  /\ count = InitialCount /\ position = [r \in Routine |-> BEGINNING] /\ flag = FALSE
  /\ buffer = 0 /\ delaying = [r \in Routine |-> BEGINNING] /\ waited = [r \in Routine |-> 0]

world == <<program, flag>>
handles == <<prev, bound>>
data == <<count, position, buffer>>
time == <<timer, delaying, waited>>

(* reenter(): nothing when suspended, otherwise to the case of the label; a   *)
(* label no case has ends the segment.                                        *)
Reenter(r) ==
  /\ running = NOBODY /\ label[r] # SUSPENDED
  /\ bound' = [bound EXCEPT ![r] = r \in Handled]
  /\ IF label[r] >= BEGINNING
     THEN /\ running' = r /\ resumed' = (label[r] # BEGINNING)
          /\ at' = IF label[r] = BEGINNING THEN 1 ELSE label[r]
          /\ UNCHANGED label
     ELSE label' = [label EXCEPT ![r] = SUSPENDED] /\ UNCHANGED <<running, at, resumed>>
  /\ UNCHANGED <<world, prev, data, time>>

Leave == running' = NOBODY /\ at' = 0 /\ resumed' = FALSE
Pass == at' = at + 1 /\ resumed' = FALSE /\ UNCHANGED running
LeaveAs(l) == Leave /\ label' = [label EXCEPT ![running] = l]

(* The timer of the context: set() refuses zero.                              *)
TimerSet(t) == timer' = IF t > 0 THEN [timer EXCEPT ![running] = t] ELSE timer
TimerDisarm == timer' = [timer EXCEPT ![running] = DISARMED]
timeout == timer[running] = 0

(* q_co_SaveRestore, first pass: the label is kept and the routine leaves,    *)
(* before any condition is looked at.                                         *)
Blocking == {"yield", "delay", "waitUntil", "timedWaitUntil", "semWait", "perform"}
Save ==
  /\ running # NOBODY /\ at <= Len(program[running]) /\ Stmt.op \in Blocking /\ ~resumed
  /\ LeaveAs(at)
  /\ CASE Stmt.op = "delay" \/ (Stmt.op = "perform" /\ Stmt.arg # 0) -> TimerSet(Stmt.arg)
       [] Stmt.op = "perform" /\ Stmt.arg = 0 -> TimerDisarm
       [] OTHER -> UNCHANGED timer
  /\ delaying' = [delaying EXCEPT ![running] = IF Stmt.op = "delay" THEN at ELSE BEGINNING]
  /\ waited' = [waited EXCEPT ![running] = 0]
  /\ UNCHANGED <<world, handles, data>>

(* Mutant: the semaphore is not looked at.                                    *)
tryLockAlways(s) == TRUE
tryLock(s) == count[s] > 0

Goes ==
  \/ Stmt.op \in {"yield", "perform"}
  \/ Stmt.op = "delay" /\ timeout
  \/ Stmt.op = "waitUntil" /\ flag
  \/ Stmt.op = "timedWaitUntil" /\ (flag \/ timeout)
  \/ Stmt.op = "semWait" /\ tryLock(Stmt.arg)

(* q_co_SaveRestore, entered by the label: the condition decides.             *)
Resume ==
  /\ running # NOBODY /\ at <= Len(program[running]) /\ Stmt.op \in Blocking /\ resumed
  /\ IF Goes THEN Pass ELSE Leave
  /\ count' = IF Goes /\ Stmt.op = "semWait" THEN [count EXCEPT ![Stmt.arg] = @ - 1] ELSE count
  /\ UNCHANGED <<world, handles, label, position, buffer, time>>

(* The statements that do not block, and the end of the segment.              *)
Reaches(op) == running # NOBODY /\ at <= Len(program[running]) /\ Stmt.op = op

until ==
  /\ Reaches("until") /\ IF flag \/ timeout THEN Pass ELSE Leave
  /\ UNCHANGED <<world, handles, label, data, time>>

restart == Reaches("restart") /\ LeaveAs(BEGINNING) /\ UNCHANGED <<world, handles, data, time>>

setPosition == Reaches("setPosition") /\ LeaveAs(position[running]) /\ UNCHANGED <<world, handles, data, time>>

getPosition ==
  /\ Reaches("getPosition") /\ Pass
  /\ position' = IF resumed THEN position ELSE [position EXCEPT ![running] = at]
  /\ UNCHANGED <<world, handles, label, count, buffer, time>>

semSignal ==
  /\ Reaches("semSignal") /\ Pass /\ count' = [count EXCEPT ![Stmt.arg] = @ + 1]
  /\ UNCHANGED <<world, handles, label, position, buffer, time>>

PutItem == Reaches("put") /\ Pass /\ buffer' = buffer + 1 /\ UNCHANGED <<world, handles, label, count, position, time>>
GetItem == Reaches("get") /\ Pass /\ buffer' = buffer - 1 /\ UNCHANGED <<world, handles, label, count, position, time>>

Finish ==
  /\ running # NOBODY /\ at > Len(program[running])
  /\ LeaveAs(SUSPENDED) /\ UNCHANGED <<world, handles, data, time>>
-----------------------------------------------------------------------------
(* The handle, once the first reenter() has bound it.                         *)
Controls(r) == r \in Handled /\ bound[r] /\ (running = NOBODY \/ FromHandlers)
try_set(r, l) == label' = [label EXCEPT ![r] = l]
untouched == <<program, bound, running, at, resumed, data, time, flag>>

try_restart(r) == Controls(r) /\ try_set(r, BEGINNING) /\ UNCHANGED <<prev, untouched>>

try_suspend(r) ==
  /\ Controls(r) /\ prev[r] # label[r]
  /\ prev' = [prev EXCEPT ![r] = label[r]] /\ try_set(r, SUSPENDED)
  /\ UNCHANGED untouched

try_resume(r) ==
  /\ Controls(r)
  /\ try_set(r, IF prev[r] = SUSPENDED THEN BEGINNING ELSE prev[r])
  /\ prev' = [prev EXCEPT ![r] = UNDEFINED]
  /\ UNCHANGED untouched

Tick ==
  /\ timer' = [r \in Routine |-> IF timer[r] > 0 THEN timer[r] - 1 ELSE timer[r]]
  /\ waited' = [r \in Routine |-> IF waited[r] < MaxTime THEN waited[r] + 1 ELSE waited[r]]
  /\ UNCHANGED <<world, handles, label, running, at, resumed, data, delaying>>

Toggle == flag' = ~flag /\ UNCHANGED <<program, handles, label, running, at, resumed, data, time>>

Running ==
  \/ Save \/ Resume \/ until
  \/ restart \/ setPosition \/ getPosition \/ semSignal \/ PutItem \/ GetItem \/ Finish
CoNext == \/ \E r \in Routine : Reenter(r) \/ try_restart(r) \/ try_suspend(r) \/ try_resume(r)
          \/ Running \/ Tick \/ Toggle

(* The task of each routine is run again and again, and time goes on.         *)
CoFairness == /\ WF_coVars(Running) /\ WF_coVars(Tick)
              /\ \A r \in UNION {DOMAIN p : p \in Programs} : WF_coVars(r \in Routine /\ Reenter(r))
CoSpec == CoInit /\ [][CoNext]_coVars /\ CoFairness
-----------------------------------------------------------------------------
(* What routines take and give back: a semaphore by its wait and its signal;  *)
(* of the buffer, a place for an item (a wait for full or a get takes it, a   *)
(* put or a signal of full gives it) and an item.                             *)
Lock(s) == [sem |-> s, takes |-> "none", gives |-> "none"]
Space   == [sem |-> "full", takes |-> "get", gives |-> "put"]
Goods   == [sem |-> "empty", takes |-> "put", gives |-> "get"]

Takes(k, statement) == statement.op = k.takes \/ (statement.op = "semWait" /\ statement.arg = k.sem)
Gives(k, statement) == statement.op = k.gives \/ (statement.op = "semSignal" /\ statement.arg = k.sem)

(* Before its p-th statement a routine owns a k: it took it and has not given *)
(* it back.                                                                   *)
Owns(r, p, k) ==
  \E i \in 1..(p - 1) :
    Takes(k, program[r][i]) /\ \A j \in (i + 1)..(p - 1) : ~Gives(k, program[r][j])

(* No routine gives what it does not own, nor notes a position where it owns  *)
(* something.                                                                 *)
Balanced(k) ==
  \A r \in Routine : \A i \in DOMAIN program[r] :
    /\ Gives(k, program[r][i]) => Owns(r, i, k)
    /\ program[r][i].op = "getPosition" => ~Owns(r, i, k)

(* Where a routine stands: at the statement it runs or will be resumed at.    *)
Standing(r) == IF running = r THEN at ELSE IF label[r] = SUSPENDED THEN prev[r] ELSE label[r]

(* Routines that guard a section with a semaphore are never more in it than   *)
(* its count admits, even if one yields there, and a bounded buffer guarded   *)
(* by two counting semaphores neither overflows nor underflows, also when     *)
(* other tasks suspend, resume or restart the routines at any label, as long  *)
(* as handlers do not (coroutine.hpp 387-493).                                *)
SemaphoresGuard ==
  (FromHandlers => Handled \cap Routine = {}) =>
    /\ \A s \in DOMAIN InitialCount :
         Balanced(Lock(s)) => Cardinality({r \in Routine : Owns(r, Standing(r), Lock(s))}) <= InitialCount[s]
    /\ ({"full", "empty"} \subseteq DOMAIN InitialCount /\ Balanced(Space) /\ Balanced(Goods)) =>
         buffer + InitialCount["empty"] \in 0..(InitialCount["full"] + InitialCount["empty"])

(* A delay lasts at least its time, whatever the timer of the context was     *)
(* used for before; a handle may put a routine back into a delay after it has *)
(* begun another wait, which the delay does not outlast.                      *)
DelayHonoured ==
  (running # NOBODY /\ at <= Len(program[running]) /\ resumed /\ Stmt.op = "delay" /\ at' = at + 1
     /\ delaying[running] = at)
    => waited[running] >= Stmt.arg

(* No step goes on from a wait before what it waits for holds: the semaphore  *)
(* it took, the time it asked for (coroutine.hpp 146-177, 385-490).           *)
WaitsHold == [][DelayHonoured /\ SemaphoresGuard']_coVars

(* A timed wait ends, by its condition or by its timeout: "If the timer       *)
(* expires, we should send the packet again" (ext_coroutines.dox).            *)
TimedWaitEnds ==
  \A r \in UNION {DOMAIN p : p \in Programs} :
    LET InTimedWait == /\ r \in Routine /\ label[r] \in DOMAIN program[r]
                       /\ program[r][label[r]].op = "timedWaitUntil"
    IN InTimedWait ~> ~InTimedWait
=============================================================================
