------------------------------ MODULE Scheduler ------------------------------
(***************************************************************************)
(* The QuarkTS++ kernel (src/src/kernel.cpp) with the part of a task it    *)
(* works on (src/src/task.cpp): the waiting, suspended and ready lists,    *)
(* the scan of checkIfReady(), the dispatch of the ready lists, the        *)
(* events that make a task ready, and the calls tasks and interrupt        *)
(* handlers make on the kernel.                                            *)
(*                                                                         *)
(* One pass of core::run() is a cycle of the program counter pc:           *)
(*   "get" -> "scan" -> "dispatch" <-> "call" -> "gather" -> "idle" ->     *)
(* Between two steps interrupt handlers notify tasks and time passes; in   *)
(* "call" and "idle" the running callback makes calls of its own.          *)
(* What callbacks are only told (FirstCall, StartDelay, cycles, names,     *)
(* task data) is left out: the kernel decides nothing on it.               *)
(***************************************************************************)
EXTENDS PrioQueue, FiniteSets

CONSTANTS
  MaxPriority,    \* Q_PRIORITY_LEVELS - 1
  MaxNotif,       \* MAX_NOTIFICATION_VALUE
  MaxEntry,       \* bound on the task identifiers handed out
  Applications,   \* the programs that run on the kernel, see below
  Idle,           \* the idle task
  None            \* the null pointer

MaxIterations == 2147483647          \* INT32_MAX
Periodic == -MaxIterations - 1       \* task::PERIODIC, INT32_MIN
Levels == 0 .. MaxPriority
(* "remove" stands for core::remove() and for core::add() after the start. *)
Services == {"time", "simple", "queued", "flags", "queue", "spread", "remove",
             "sleep", "enable", "priority", "yield", "release"}

(* An application: its tasks, those main() adds before run() in that order,*)
(* those with a time interval of 0 (clock::IMMEDIATE), the priorities,     *)
(* iteration counts and data it uses, and the kernel services it calls.    *)
IsApplication(a) ==
  /\ a.tasks \subseteq Task /\ a.order \in Seq(a.tasks) /\ a.immediate \subseteq a.tasks
  /\ \A i, j \in DOMAIN a.order : a.order[i] = a.order[j] => i = j
  /\ Len(a.order) <= MaxEntry
  /\ a.levels \subseteq Levels /\ a.data \subseteq Data
  /\ \A n \in a.iterations : n \in 1 .. MaxIterations \/ n = Periodic
  /\ a.uses \subseteq Services

ASSUME SchedulerAssumption ==
  /\ MaxPriority \in Nat /\ MaxNotif \in Nat \ {0} /\ MaxEntry \in Nat
  /\ \A a \in Applications : IsApplication(a)
  /\ Idle \notin Task /\ None \notin Task \cup Data

VARIABLES
  waiting, suspended,   \* the two lists every task passes through
  ready,                \* one list per priority level
  task,                 \* the fields of each task
  taskEntries,          \* how many identifiers are taken
  pq, pqData,           \* priorityQueue and the data it extracted last
  spread,               \* nSpreader
  pc, level,            \* where run() stands
  anyActive,            \* checkIfReady() found a task with an event
  current, yieldTask,   \* currentTask, yieldTask
  event,                \* the taskEvent given to the callback
  release,              \* BIT_RELEASE_SCHED
  claim,                \* history: data extracted for each task and not
                        \* delivered to it yet
  owed,                 \* history: iterations asked for, and still to be run
  app                   \* the application, which never changes

lists == <<waiting, suspended, ready>>
sched == <<pc, level, anyActive>>
run   == <<current, yieldTask, event>>
notes == <<pq, pqData, spread, claim>>
hist  == <<owed, app>>
vars  == <<lists, task, taskEntries, notes, sched, run, release, hist>>

Triggers == {"None", "Queued", "Time", "Queue", "Simple", "Flags"}
NoEvent == [trigger |-> "None", data |-> None, first |-> FALSE, last |-> FALSE]
Unregistered == MaxEntry + 1         \* SIZE_MAX: the identifier of a task in no list

Uses == app.uses
Immediate == app.immediate

Negated(n) == IF n = Periodic THEN n ELSE -n            \* task::setIterations()
Asked(n) == [of |-> n, left |-> n]

(* A task as core::add() leaves it: awake, enabled only if it is timed,    *)
(* with n iterations (kept negated until the first one runs).              *)
NewTask(p, n, on, id) ==
  [prio |-> p, awake |-> TRUE, enabled |-> on, removeReq |-> FALSE,
   trigger |-> "None", due |-> FALSE, iters |-> Negated(n),
   notif |-> 0, async |-> None, flags |-> FALSE, queue |-> FALSE, entry |-> id]

Init ==
  /\ app \in Applications
  /\ waiting = app.order /\ suspended = <<>> /\ ready = [p \in Levels |-> <<>>]
  /\ \E prios \in [app.tasks -> app.levels], n \in app.iterations :
       /\ task = [t \in Task |->
                    IF \E i \in DOMAIN app.order : app.order[i] = t
                      THEN NewTask(prios[t], n, "time" \in Uses,
                                   CHOOSE i \in DOMAIN app.order : app.order[i] = t)
                      ELSE NewTask(0, Periodic, FALSE, Unregistered)]
       /\ owed = [t \in Task |-> IF \E i \in DOMAIN app.order : app.order[i] = t
                                   THEN Asked(n) ELSE Asked(Periodic)]
  /\ taskEntries = Len(app.order)
  /\ pq = Empty /\ pqData = None /\ spread = [mode |-> "none", data |-> None]
  /\ pc = "get" /\ level = MaxPriority /\ anyActive = FALSE
  /\ current = None /\ yieldTask = None /\ event = NoEvent
  /\ release = FALSE
  /\ claim = [t \in Task |-> None]

Prio == [t \in Task |-> task[t].prio]
InList(s, t) == \E i \in DOMAIN s : s[i] = t
ReadyTasks == {t \in Task : \E p \in Levels : InList(ready[p], t)}
Registered == {t \in Task : InList(waiting, t) \/ InList(suspended, t)} \cup ReadyTasks

-----------------------------------------------------------------------------
(* checkIfReady(), first part: a queued notification wakes its task up     *)
(* even from the sleep state.                                              *)
GetQueued ==
  /\ pc = "get"
  /\ pc' = "scan" /\ anyActive' = FALSE
  /\ IF hasElements(pq)
       THEN LET c == Chosen(pq, Prio)
                t == pq.stack[c][1]
            IN /\ pq.stack[0] # NoEntry
               /\ pqData' = pq.stack[c][2]
               /\ pq' = clearIndex(pq, c)
               /\ task' = [task EXCEPT ![t].trigger = "Queued", ![t].awake = TRUE]
               /\ claim' = [claim EXCEPT ![t] = pq.stack[c][2]]
       ELSE UNCHANGED <<pqData, pq, task, claim>>
  /\ UNCHANGED <<lists, taskEntries, spread, level, run, release, hist>>

(* Mutant: an interval of zero is not seen as elapsed.                     *)
deadLineReachedByClock(t) == task[t].enabled /\ task[t].iters # 0 /\ task[t].due

(* task::deadLineReached()                                                 *)
deadLineReached(t) ==
  /\ task[t].enabled /\ task[t].iters # 0
  /\ t \in Immediate \/ task[t].due

(* Mutant: the mark of a queued notification is overwritten by the scan.   *)
TriggerOfUnqueued(t) ==
  IF ~task[t].awake THEN task[t].trigger
  ELSE IF deadLineReached(t) THEN "Time"
  ELSE IF task[t].notif > 0 THEN "Simple" ELSE "None"

(* The event that makes t ready, in the order of precedence; an asleep     *)
(* task keeps the trigger it has.                                          *)
TriggerOf(t) ==
  IF ~task[t].awake \/ task[t].trigger = "Queued" THEN task[t].trigger
  ELSE IF deadLineReached(t) THEN "Time"
  ELSE IF task[t].queue THEN "Queue"
  ELSE IF task[t].notif > 0 THEN "Simple"
  ELSE IF task[t].flags THEN "Flags" ELSE "None"

(* The loop body of checkIfReady() for the task in front of the waiting    *)
(* list: it goes to its ready list, to the suspended list, or, on a remove *)
(* request, nowhere.                                                       *)
ScanTask ==
  /\ pc = "scan" /\ waiting # <<>> /\ spread.mode = "none"
  /\ LET t == Head(waiting)
         trg == TriggerOf(t)
         fired == task[t].awake /\ trg # "None"
         scanned == [task[t] EXCEPT !.trigger = trg,
                                    !.due = @ /\ ~(fired /\ trg = "Time")]
     IN /\ waiting' = Tail(waiting)
        /\ anyActive' = (anyActive \/ fired)
        /\ IF task[t].removeReq
             THEN /\ task' = [task EXCEPT ![t] = [scanned EXCEPT !.removeReq = FALSE,
                                                                  !.entry = Unregistered]]
                  /\ pq' = cleanUp(pq, t)
                  /\ taskEntries' = taskEntries - 1
                  /\ UNCHANGED <<suspended, ready>>
             ELSE /\ task' = [task EXCEPT ![t] = scanned]
                  /\ IF trg # "None"
                       THEN /\ ready' = [ready EXCEPT ![task[t].prio] = Append(@, t)]
                            /\ UNCHANGED suspended
                       ELSE suspended' = Append(suspended, t) /\ UNCHANGED ready
                  /\ UNCHANGED <<pq, taskEntries>>
  /\ UNCHANGED <<pqData, spread, claim, pc, level, run, release, hist>>

(* notify(SIMPLE, ..) of one task, as a task record update.                *)
Notified(t, d) ==
  IF task[t].notif < MaxNotif
    THEN [task EXCEPT ![t].notif = @ + 1, ![t].async = d] ELSE task

(* Mutant: the task leaves the waiting list before the spread is checked.  *)
ScanSpreadDropping ==
  /\ pc = "scan" /\ waiting # <<>> /\ spread.mode # "none"
  /\ waiting' = Tail(waiting)
  /\ spread' = [mode |-> "none", data |-> None]
  /\ pc' = "gather" /\ level' = MaxPriority
  /\ UNCHANGED <<suspended, ready, task, taskEntries, pq, pqData, claim, anyActive, run, release, hist>>

(* The loop body while a spread is under way: the task in front is         *)
(* notified and the loop is left.                                          *)
ScanSpread ==
  /\ pc = "scan" /\ waiting # <<>> /\ spread.mode # "none"
  /\ LET t == Head(waiting)
     IN \/ /\ spread.mode = "simple"
           /\ task' = Notified(t, spread.data) /\ UNCHANGED pq
        \/ /\ spread.mode = "queued"
           /\ pq' = insert(pq, <<t, spread.data>>) /\ UNCHANGED task
  /\ spread' = [mode |-> "none", data |-> None]
  /\ pc' = IF anyActive THEN "dispatch" ELSE "gather"
  /\ level' = MaxPriority
  /\ UNCHANGED <<lists, taskEntries, pqData, claim, anyActive, run, release, hist>>

(* End of the loop.  A spread requested since the last task was scanned is *)
(* wiped out here.                                                         *)
EndScan ==
  /\ pc = "scan" /\ waiting = <<>>
  /\ spread' = [mode |-> "none", data |-> None]
  /\ pc' = IF anyActive THEN "dispatch" ELSE "gather"
  /\ level' = MaxPriority
  /\ UNCHANGED <<lists, task, taskEntries, pq, pqData, claim, anyActive, run, release, hist>>

-----------------------------------------------------------------------------
(* Mutant: the sign of the first iteration stays.                          *)
IteratedSigned(tk) ==
  LET m == IF tk.iters = Periodic THEN Periodic ELSE tk.iters - 1
  IN [tk EXCEPT !.iters = m, !.enabled = @ /\ m # 0]

(* dispatchTaskFillEventInfo(): the iteration counter runs down on time    *)
(* events only; the counter of a task on its first iteration is negative.  *)
Iterated(tk) ==
  LET n == IF tk.iters < 0 /\ tk.iters # Periodic THEN -tk.iters ELSE tk.iters
      m == IF n = Periodic THEN n ELSE n - 1
  IN [tk EXCEPT !.iters = m, !.enabled = @ /\ m # 0]

EventFor(t) ==
  LET tk == task[t]
      timed == tk.trigger = "Time"
  IN [trigger |-> tk.trigger,
      data |-> CASE tk.trigger = "Queued" -> pqData
                 [] tk.trigger = "Simple" -> tk.async
                 [] OTHER -> None,
      first |-> timed /\ tk.iters < 0 /\ tk.iters # Periodic,
      last |-> timed /\ Iterated(tk).iters = 0]

(* dispatch() takes the task in front of the highest non-empty ready list  *)
(* and calls it; the lists below are served afterwards.                    *)
Dispatch ==
  /\ pc = "dispatch" /\ ready[level] # <<>>
  /\ LET t == Head(ready[level])
     IN /\ event' = EventFor(t)
        /\ task' = [task EXCEPT ![t] =
                      CASE @.trigger = "Time" -> Iterated(@)
                        [] @.trigger = "Simple" -> [@ EXCEPT !.notif = @ - 1]
                        [] OTHER -> @]
        /\ pqData' = IF task[t].trigger = "Queued" THEN None ELSE pqData
        /\ claim' = IF task[t].trigger = "Queued" THEN [claim EXCEPT ![t] = None] ELSE claim
        /\ owed' = IF task[t].trigger = "Time" /\ owed[t].of # Periodic
                     THEN [owed EXCEPT ![t].left = @ - 1] ELSE owed
        /\ current' = t /\ yieldTask' = None
  /\ pc' = "call"
  /\ UNCHANGED <<lists, taskEntries, pq, spread, level, anyActive, release, app>>

NextLevel ==
  /\ pc = "dispatch" /\ ready[level] = <<>>
  /\ IF level > 0 THEN level' = level - 1 /\ UNCHANGED pc
                  ELSE pc' = "gather" /\ UNCHANGED level
  /\ UNCHANGED <<lists, task, taskEntries, notes, anyActive, run, release, hist>>

(* The callback returns and has yielded: the other task's activities run   *)
(* with the same event data, outside any list.                             *)
ReturnYielded ==
  /\ pc = "call" /\ yieldTask # None
  /\ current' = yieldTask /\ yieldTask' = None
  /\ UNCHANGED <<lists, task, taskEntries, notes, sched, event, release, hist>>

(* Mutant: the task keeps its trigger.                                     *)
ReturnStale ==
  /\ pc = "call" /\ yieldTask = None /\ pc' = "dispatch"
  /\ ready' = [ready EXCEPT ![level] = Tail(@)]
  /\ waiting' = Append(waiting, Head(ready[level]))
  /\ current' = None /\ event' = NoEvent
  /\ UNCHANGED <<suspended, task, taskEntries, notes, level, anyActive, yieldTask, release, hist>>

(* The callback returns: the task goes back to the waiting list.           *)
Return ==
  /\ pc = "call" /\ yieldTask = None
  /\ LET t == Head(ready[level])
     IN /\ ready' = [ready EXCEPT ![level] = Tail(@)]
        /\ waiting' = Append(waiting, t)
        /\ task' = [task EXCEPT ![t].trigger = "None"]
  /\ current' = None /\ event' = NoEvent
  /\ pc' = "dispatch"
  /\ UNCHANGED <<suspended, taskEntries, notes, level, anyActive, yieldTask, release, hist>>

(* list::sort() with taskEntryOrderPreserver: ascending identifiers; tasks *)
(* with the same identifier stay as they were.                             *)
ByEntry(s) ==
  LET before(i, j) == \/ task[s[i]].entry < task[s[j]].entry
                      \/ task[s[i]].entry = task[s[j]].entry /\ i <= j
      rank(j) == Cardinality({i \in DOMAIN s : before(i, j)})
  IN [k \in DOMAIN s |-> s[CHOOSE j \in DOMAIN s : rank(j) = k]]

(* Mutant: the moved tasks are not sorted in.                              *)
GatherWith(s) ==
  /\ pc = "gather" /\ waiting' = s /\ suspended' = <<>>
  /\ pc' = IF anyActive THEN "loop" ELSE "idle"
  /\ current' = IF anyActive THEN current ELSE Idle
  /\ UNCHANGED <<ready, task, taskEntries, notes, level, anyActive, yieldTask, event, release, hist>>
GatherUnsorted   == GatherWith(waiting \o suspended)

(* The end of a cycle: the suspended tasks return to the waiting list,     *)
(* which is sorted only if there were any.                                 *)
Gather ==
  /\ pc = "gather"
  /\ IF suspended # <<>>
       THEN waiting' = ByEntry(waiting \o suspended) /\ suspended' = <<>>
       ELSE UNCHANGED <<waiting, suspended>>
  /\ \/ anyActive /\ pc' = "loop" /\ UNCHANGED <<current, event>>
     \/ /\ ~anyActive /\ pc' = "idle" /\ current' = Idle
        /\ event' = [event EXCEPT !.trigger = "NoReady"]
  /\ UNCHANGED <<ready, task, taskEntries, notes, level, anyActive, yieldTask, release, hist>>

(* The idle callback returns; a yield it asked for is never served.        *)
IdleReturn ==
  /\ pc = "idle" /\ pc' = "loop"
  /\ UNCHANGED <<lists, task, taskEntries, notes, level, anyActive, run, release, hist>>

(* Mutant: the release request is not looked at.                           *)
LoopForever ==
  /\ pc = "loop" /\ pc' = "get"
  /\ UNCHANGED <<lists, task, taskEntries, notes, level, anyActive, run, release, hist>>

(* while ( !BIT_RELEASE_SCHED ), then triggerReleaseSchedEvent(), whose    *)
(* callback may still make calls.                                          *)
Loop ==
  /\ pc = "loop"
  /\ pc' = IF release THEN "released" ELSE "get"
  /\ release' = FALSE
  /\ UNCHANGED <<lists, task, taskEntries, notes, level, anyActive, run, hist>>

(* main() may call run() again.                                            *)
RunAgain ==
  /\ pc = "released" /\ pc' = "get"
  /\ UNCHANGED <<lists, task, taskEntries, notes, level, anyActive, run, release, hist>>

Kernel ==
  \/ GetQueued \/ ScanTask \/ ScanSpread \/ EndScan
  \/ Dispatch \/ NextLevel \/ ReturnYielded \/ Return
  \/ Gather \/ IdleReturn \/ Loop

-----------------------------------------------------------------------------
(* Calls made by interrupt handlers as well as by tasks.                   *)

NotifySimple(t, d) ==
  /\ "simple" \in Uses
  /\ task' = Notified(t, d)
  /\ UNCHANGED <<lists, taskEntries, notes, sched, run, release, hist>>

NotifyQueued(t, d) ==
  /\ "queued" \in Uses
  /\ pq' = insert(pq, <<t, d>>)
  /\ UNCHANGED <<lists, task, taskEntries, pqData, spread, claim, sched, run, release, hist>>

Spread(mode, d) ==
  /\ "spread" \in Uses /\ spread.mode = "none"
  /\ spread' = [mode |-> mode, data |-> d]
  /\ UNCHANGED <<lists, task, taskEntries, pq, pqData, claim, sched, run, release, hist>>

(* The system tick lets the interval of a timed task expire.               *)
Tick(t) ==
  /\ "time" \in Uses /\ t \notin Immediate
  /\ task' = [task EXCEPT ![t].due = TRUE]
  /\ UNCHANGED <<lists, taskEntries, notes, sched, run, release, hist>>

(* A queue attached to the task raises one of its events.                  *)
QueueEvent(t) ==
  /\ "queue" \in Uses
  /\ task' = [task EXCEPT ![t].queue = TRUE]
  /\ UNCHANGED <<lists, taskEntries, notes, sched, run, release, hist>>

-----------------------------------------------------------------------------
(* Calls made by the running callback, or by main() between two runs.      *)
InCallback == pc \in {"call", "idle", "released"}

(* task::setState(): ENABLED and DISABLED reload the timer when they       *)
(* change something.                                                       *)
SetTask(t, tk) ==
  /\ InCallback /\ task' = [task EXCEPT ![t] = tk]
  /\ UNCHANGED <<lists, taskEntries, notes, sched, run, release, hist>>

SetEnabled(t, b) ==
  /\ "enable" \in Uses /\ task[t].enabled # b
  /\ SetTask(t, [task[t] EXCEPT !.enabled = b, !.due = FALSE])

SetAwake(t, b) == "sleep" \in Uses /\ SetTask(t, [task[t] EXCEPT !.awake = b])

SetIterations(t, n) ==
  /\ "enable" \in Uses
  /\ InCallback /\ task' = [task EXCEPT ![t].iters = Negated(n)]
  /\ owed' = [owed EXCEPT ![t] = Asked(n)]
  /\ UNCHANGED <<lists, taskEntries, notes, sched, run, release, app>>

SetPriority(t, p) == "priority" \in Uses /\ SetTask(t, [task[t] EXCEPT !.prio = p])

EventFlagsModify(t, b) == "flags" \in Uses /\ SetTask(t, [task[t] EXCEPT !.flags = b])

ConsumeQueue(t) == "queue" \in Uses /\ SetTask(t, [task[t] EXCEPT !.queue = FALSE])

RemoveTask(t) == "remove" \in Uses /\ SetTask(t, [task[t] EXCEPT !.removeReq = TRUE])

(* The list s as it is found from its head once the link of t ends there.  *)
CutAt(s, t) ==
  IF InList(s, t) THEN SubSeq(s, 1, CHOOSE i \in DOMAIN s : s[i] = t) ELSE s

(* Mutant: a task of the waiting list is put into it again.                *)
EnterTwice(t) == waiting' = Append(waiting, t) /\ UNCHANGED <<suspended, ready, sched>>

(* waitingList.insert() for add(): it refuses a task of the waiting list,  *)
(* and no other.  A task of a ready or suspended list gets its one pair of *)
(* links overwritten: that list ends at the task, and the task is in the   *)
(* waiting list as well.  What the kernel does on such lists is not        *)
(* modelled: pc stays "relinked".                                          *)
Enter(t) ==
  \/ InList(waiting, t) /\ UNCHANGED <<lists, sched>>
  \/ t \notin Registered /\ waiting' = Append(waiting, t) /\ UNCHANGED <<suspended, ready, sched>>
  \/ /\ t \in Registered /\ ~InList(waiting, t)
     /\ waiting' = Append(waiting, t) /\ suspended' = CutAt(suspended, t)
     /\ ready' = [p \in Levels |-> CutAt(ready[p], t)]
     /\ pc' = "relinked" /\ UNCHANGED <<level, anyActive>>

(* core::add(), of a task that was added before as well: the fields and    *)
(* the identifier are given before the list is asked.  What add() does not *)
(* assign (trigger, notifications, event flags, BIT_INIT) survives.        *)
Add(t, p, n, on, awake) ==
  /\ "remove" \in Uses /\ InCallback /\ taskEntries < MaxEntry
  /\ on \/ awake
  /\ task' = [task EXCEPT ![t] = [@ EXCEPT !.prio = p, !.awake = awake, !.enabled = on,
                                  !.due = FALSE, !.entry = taskEntries + 1,
                                  !.iters = Negated(n)]]
  /\ owed' = [owed EXCEPT ![t] = Asked(n)]
  /\ taskEntries' = taskEntries + 1
  /\ Enter(t)
  /\ UNCHANGED <<notes, run, release, app>>

YieldToTask(t) ==
  /\ "yield" \in Uses /\ InCallback /\ current # None /\ current # t
  /\ yieldTask' = t
  /\ UNCHANGED <<lists, task, taskEntries, notes, sched, current, event, release, hist>>

SchedulerRelease ==
  /\ "release" \in Uses /\ InCallback
  /\ release' = TRUE
  /\ UNCHANGED <<lists, task, taskEntries, notes, sched, run, hist>>

TaskCalls(t) ==
  \/ \E d \in app.data : NotifySimple(t, d) \/ NotifyQueued(t, d)
  \/ Tick(t) \/ QueueEvent(t) \/ ConsumeQueue(t) \/ RemoveTask(t) \/ YieldToTask(t)
  \/ \E b \in BOOLEAN : SetEnabled(t, b) \/ SetAwake(t, b) \/ EventFlagsModify(t, b)
  \/ \E n \in app.iterations : SetIterations(t, n)
  \/ \E p \in app.levels : SetPriority(t, p)
  \/ \E p \in app.levels, n \in app.iterations, on, awake \in BOOLEAN : Add(t, p, n, on, awake)

Calls ==
  \/ \E t \in app.tasks : TaskCalls(t)
  \/ \E mode \in {"simple", "queued"}, d \in app.data : Spread(mode, d)
  \/ SchedulerRelease

Next == Kernel \/ RunAgain \/ Calls

(* The scheduler never waits for anything: run() keeps stepping, and every *)
(* callback returns (the run-to-completion rule tasks must obey).          *)
Spec == Init /\ [][Next]_vars /\ WF_vars(Kernel)

-----------------------------------------------------------------------------
(* Type of every variable; the counters stay in their ranges.              *)
TypeOK ==
  /\ waiting \in Seq(Task) /\ suspended \in Seq(Task) /\ ready \in [Levels -> Seq(Task)]
  /\ \A t \in Task :
       /\ task[t].prio \in Levels /\ task[t].trigger \in Triggers
       /\ task[t].notif \in 0 .. MaxNotif /\ task[t].async \in Data \cup {None}
       /\ \/ task[t].iters = Periodic
          \/ \E n \in app.iterations : n # Periodic /\ task[t].iters \in (-n) .. n
       /\ task[t].entry \in 1 .. MaxEntry + 1
       /\ {task[t].awake, task[t].enabled, task[t].removeReq, task[t].due, task[t].flags,
           task[t].queue} \subseteq BOOLEAN
  /\ taskEntries \in 0 .. MaxEntry
  /\ pqData \in Data \cup {None} /\ spread.mode \in {"none", "simple", "queued"}
  /\ level \in Levels /\ anyActive \in BOOLEAN
  /\ current \in Task \cup {None, Idle} /\ yieldTask \in Task \cup {None}
  /\ event.trigger \in Triggers \cup {"NoReady"}

(* Every list of the kernel: the ready list of each level, -1 for waiting  *)
(* and -2 for suspended.                                                   *)
Lists == [l \in Levels \cup {-1, -2} |->
            IF l = -1 THEN waiting ELSE IF l = -2 THEN suspended ELSE ready[l]]

EachOnce ==
  \A l, m \in DOMAIN Lists : \A i \in DOMAIN Lists[l], j \in DOMAIN Lists[m] :
    Lists[l][i] = Lists[m][j] => l = m /\ i = j

(* A task node has one pair of links: it is in one list at most, and once. *)
(* Adding a task again while a ready or suspended list holds it (kernel.cpp*)
(* 63, list.cpp 96) is the one call that breaks this, and breaks it; adding*)
(* one that waits does not, nor any other call at any moment.              *)
OneListEach == EachOnce <=> pc # "relinked"

(* No task drops out of the kernel's lists unless its removal was asked, or*)
(* the call just named cuts the list it is in.                             *)
NoneLost ==
  [][pc' = "relinked" \/ \A t \in Registered : task[t].removeReq \/ t \in Registered']_vars

Starts(t) == pc = "dispatch" /\ pc' = "call" /\ current' = t

(* Tasks run in order of precedence: higher priority first and, within a   *)
(* priority, first the one that entered the scheduler first, whatever the  *)
(* order in which earlier cycles left them in the waiting list.  Holds of  *)
(* applications that fix the priorities and the set of tasks before run()  *)
(* and make no spreads.                                                    *)
Precedes(t, u) ==
  \/ task[t].prio > task[u].prio
  \/ task[t].prio = task[u].prio /\ task[t].entry < task[u].entry
DispatchByPrecedence ==
  [][\A t \in Task : Starts(t) /\ Uses \cap {"spread", "priority", "remove"} = {} => \A u \in ReadyTasks \ {t} : Precedes(t, u)]_vars

(* A task launched by a queued notification gets the data of that very     *)
(* notification, although extraction and launch are steps apart and share  *)
(* one variable.  (Not so with spreads, which leave the scan between the   *)
(* two, nor with a task removed in between and added again asleep: it      *)
(* keeps the mark and takes what a later extraction left in the variable.) *)
QueuedDataIntact ==
  [][\A t \in Task : Starts(t) /\ event'.trigger = "Queued"
            /\ Uses \cap {"spread", "remove"} = {}
       => event'.data = claim[t] /\ claim[t] # None]_vars

(* A task asked to run n times by time events runs n times, FirstIteration *)
(* is told of the first only and LastIteration of the last only, which     *)
(* leaves the task disabled; asynchronous events do not count.             *)
IterationsHonoured ==
  [][\A t \in Task : Starts(t) =>
       LET limited == event'.trigger = "Time" /\ owed[t].of # Periodic
       IN /\ limited => owed[t].left > 0
          /\ event'.first <=> limited /\ owed[t].left = owed[t].of
          /\ event'.last <=> limited /\ owed[t].left = 1
          /\ event'.last => ~task'[t].enabled]_vars

(* What the kernel tells about a task: getGlobalState(), getState() and       *)
(* hasPendingNotifications().                                                 *)
GlobalState(t) ==
  IF current = t THEN "RUNNING"
  ELSE IF InList(waiting, t) THEN "WAITING"
  ELSE IF InList(suspended, t) THEN "SUSPENDED"
  ELSE IF t \notin Registered THEN "UNDEFINED" ELSE "READY"

State(t) == IF task[t].awake /\ task[t].enabled THEN "ENABLED" ELSE "DISABLED"

HasPendingNotifications(t) == task[t].notif > 0 \/ isTaskInside(pq, t)

(* The idle task is dispatched only when no task has work: every ready     *)
(* list is empty and no registered task is one that is always due.  (Not   *)
(* so with spreads, which leave the scan early, nor with a task added      *)
(* again asleep, which keeps its old trigger.)                             *)
AlwaysDue(t) ==
  /\ t \in Immediate /\ State(t) = "ENABLED" /\ task[t].iters # 0
  /\ ~task[t].removeReq
IdleOnlyWhenNothingReady ==
  [][pc' = "idle" /\ pc # "idle" /\ Uses \cap {"spread", "remove"} = {}
       => \A t \in Registered : GlobalState(t) # "READY" /\ ~AlwaysDue(t)]_vars

(* A spread notifies every task of the scheduling scheme.                  *)
SpreadReachesAll ==
  [][pc = "scan" /\ spread.mode = "simple" /\ spread'.mode = "none"
       => \A t \in Registered : task[t].notif < MaxNotif => task'[t].notif > task[t].notif]_vars

Runs(t) == pc = "call" /\ current = t

Queued(t, d) == \E i \in 0 .. pq.index : pq.stack[i] = <<t, d>>

(* A cell of the queue, live or left over, names a task that goes first.   *)
Outranked(t) ==
  \E i \in Cells : pq.stack[i] # NoEntry /\ task[pq.stack[i][1]].prio > task[t].prio

(* Every queued notification is eventually delivered with its data, to a   *)
(* task that sleeps as well, unless tasks can be removed or the scheduler  *)
(* may be left.  A lower task has this only until a higher one is notified *)
(* the same way: one that keeps being notified takes its turn for ever,    *)
(* and a cell it left behind can cost the entry itself.                    *)
QueuedServed ==
  \A t \in Task, d \in Data :
    Queued(t, d) /\ Uses \cap {"remove", "spread", "release"} = {}
      ~> \/ Runs(t) /\ event.trigger = "Queued" /\ event.data = d
         \/ Outranked(t)

(* A task with a notification pending eventually runs, whatever its        *)
(* priority and whoever else is notified, under the same restriction when  *)
(* all it has is a queued one, unless it can be put to sleep or removed or *)
(* the scheduler may be left.                                              *)
NotifiedRuns ==
  \A t \in Task :
    HasPendingNotifications(t) /\ Uses \cap {"sleep", "remove", "spread", "release"} = {}
      ~> Runs(t) \/ (task[t].notif = 0 /\ Outranked(t))

(* Who is notified is served: the task runs, with the data if there are any   *)
(* (kernel.cpp 233-299, 330-354, 464-475).                                    *)
NotificationsServed == NotifiedRuns /\ QueuedServed

(* A release request made while the scheduler runs ends run().             *)
ReleaseEnds == release /\ pc # "released" ~> pc = "released"
=============================================================================
