---------------------------- MODULE DispatchProofs ----------------------------
(***************************************************************************)
(* Proofs about what the kernel of Scheduler tells the tasks it launches,  *)
(* and in which order it launches them, for any number of tasks, priority  *)
(* levels and applications.                                                *)
(***************************************************************************)
EXTENDS SchedulerProofs

(* The task in front of the ready list under way is in its callback.       *)
BeingCalled(t) == pc = "call" /\ t = Head(ready[level])

-----------------------------------------------------------------------------
(* What a step does to the fields the kernel decides on.                   *)
Key == {"prio", "awake", "enabled", "removeReq", "trigger", "iters", "entry"}
SameBut(q, r, F) == \A f \in Key \ F : q[f] = r[f]
Changes(F) == \A t \in Task : SameBut(task'[t], task[t], F)

(* The extraction marks one task and wakes it up.                          *)
LEMMA GetFields ==
  ASSUME ListInv, GetQueued
  PROVE  /\ Changes({"trigger", "awake"})
         /\ \/ UNCHANGED <<task, pqData, pq, claim>>
            \/ \E t : /\ \A u \in Task \ {t} : task'[u] = task[u]
                      /\ t \in Task => task'[t].trigger = "Queued" /\ task'[t].awake
                      /\ hasElements(pq) /\ pq.stack[0] # NoEntry
                      /\ t = pq.stack[Chosen(pq, Prio)][1] /\ pqData' = pq.stack[Chosen(pq, Prio)][2]
                      /\ pq' = clearIndex(pq, Chosen(pq, Prio))
                      /\ claim' = [claim EXCEPT ![t] = pqData']
<1>1. task \in [Task -> TaskState]
  BY DEF ListInv, TaskTypes
<1>2. CASE hasElements(pq)
  <2>. DEFINE t == pq.stack[Chosen(pq, Prio)][1]
  <2>1. /\ task' = [task EXCEPT ![t].trigger = "Queued", ![t].awake = TRUE]
        /\ pq.stack[0] # NoEntry /\ pqData' = pq.stack[Chosen(pq, Prio)][2]
        /\ pq' = clearIndex(pq, Chosen(pq, Prio)) /\ claim' = [claim EXCEPT ![t] = pqData']
    BY <1>2 DEF GetQueued
  <2>. HIDE DEF t
  <2>2. /\ Changes({"trigger", "awake"}) /\ \A u \in Task \ {t} : task'[u] = task[u]
        /\ t \in Task => task'[t].trigger = "Queued" /\ task'[t].awake
    BY <1>1, <2>1 DEF Changes, SameBut, Key, TaskState
  <2>. QED BY <1>2, <2>1, <2>2 DEF t
<1>3. CASE ~hasElements(pq)
  BY <1>3 DEF GetQueued, Changes, SameBut
<1>. QED BY <1>2, <1>3

(* The scan writes the trigger of the task in front, and what its removal  *)
(* resets.                                                                 *)
LEMMA ScanFields ==
  ASSUME ListInv, ScanTask
  PROVE  /\ waiting # <<>> /\ Head(waiting) \in Task
         /\ \A t \in Task \ {Head(waiting)} : task'[t] = task[t]
         /\ task'[Head(waiting)].trigger = TriggerOf(Head(waiting))
         /\ SameBut(task'[Head(waiting)], task[Head(waiting)], {"trigger", "removeReq", "entry"})
         /\ ~task[Head(waiting)].removeReq =>
              SameBut(task'[Head(waiting)], task[Head(waiting)], {"trigger"})
<1>. DEFINE t == Head(waiting)
            trg == TriggerOf(t)
            left == task[t].due /\ ~(task[t].awake /\ trg # "None" /\ trg = "Time")
            marked == [task[t] EXCEPT !.trigger = trg]
            scanned == [marked EXCEPT !.due = left]
            freed == [scanned EXCEPT !.removeReq = FALSE]
            removed == [freed EXCEPT !.entry = Unregistered]
<1>1. waiting # <<>> /\ t \in Task /\ task \in [Task -> TaskState] /\ task[t] \in TaskState
  BY TailElements DEF ScanTask, ListInv, ListTypes, TaskTypes
<1>2. \/ task' = [task EXCEPT ![t] = scanned]
      \/ task' = [task EXCEPT ![t] = removed] /\ task[t].removeReq
  BY <1>1 DEF ScanTask, TaskState
<1>. HIDE DEF trg, left
<1>3. marked.trigger = trg /\ SameBut(marked, task[t], {"trigger"})
      /\ DOMAIN marked = DOMAIN task[t]
  BY <1>1 DEF SameBut, Key, TaskState
<1>. HIDE DEF marked
<1>4. scanned.trigger = trg /\ SameBut(scanned, task[t], {"trigger"})
      /\ DOMAIN scanned = DOMAIN task[t]
  BY <1>1, <1>3 DEF SameBut, Key, TaskState
<1>. HIDE DEF scanned
<1>5. freed.trigger = trg /\ SameBut(freed, task[t], {"trigger", "removeReq"})
      /\ DOMAIN freed = DOMAIN task[t]
  BY <1>1, <1>4 DEF SameBut, Key, TaskState
<1>. HIDE DEF freed
<1>6. removed.trigger = trg /\ SameBut(removed, task[t], {"trigger", "removeReq", "entry"})
  BY <1>1, <1>5 DEF SameBut, Key, TaskState
<1>. HIDE DEF removed
<1>7. SameBut(scanned, task[t], {"trigger", "removeReq", "entry"})
  BY <1>4 DEF SameBut
<1>. QED BY <1>1, <1>2, <1>4, <1>6, <1>7 DEF trg

(* A notification touches none of these fields, by a call or by a spread.  *)
LEMMA NotifiedFields ==
  ASSUME task \in [Task -> TaskState], NEW t \in Task, NEW d, task' = Notified(t, d)
  PROVE  Changes({})
BY ZenonT(60) DEF Changes, SameBut, Key, TaskState, Notified

LEMMA SpreadFields == ASSUME ListInv, ScanSpread PROVE Changes({})
<1>1. task' = task \/ task' = Notified(Head(waiting), spread.data)
  BY DEF ScanSpread
<1>2. Head(waiting) \in Task /\ task \in [Task -> TaskState]
  BY TailElements DEF ScanSpread, ListInv, ListTypes, TaskTypes
<1>3. task' = task => Changes({})
  BY DEF Changes, SameBut
<1>. QED BY <1>1, <1>2, <1>3, NotifiedFields

(* The iteration counter after a time event.                               *)
Counted(n) ==
  LET m == IF n < 0 /\ n # Periodic THEN -n ELSE n
  IN IF m = Periodic THEN m ELSE m - 1

(* An iteration changes the counter and may disable the task.              *)
LEMMA IteratedFields ==
  ASSUME NEW r \in TaskState
  PROVE  /\ Iterated(r).iters = Counted(r.iters)
         /\ Iterated(r).enabled = (r.enabled /\ Counted(r.iters) # 0)
         /\ SameBut(Iterated(r), r, {"iters", "enabled"})
<1>. DEFINE m == Counted(r.iters)
            on == r.enabled /\ m # 0
            q == [r EXCEPT !.iters = m]
<1>1. Iterated(r) = [q EXCEPT !.enabled = on]
  BY DEF Iterated, Counted, TaskState
<1>. HIDE DEF m, on
<1>2. q.iters = m /\ SameBut(q, r, {"iters"}) /\ DOMAIN q = DOMAIN r
  BY DEF SameBut, Key, TaskState
<1>. HIDE DEF q
<1>3. Iterated(r).iters = m /\ Iterated(r).enabled = on /\ SameBut(Iterated(r), r, {"iters", "enabled"})
  BY <1>1, <1>2 DEF SameBut, Key, TaskState
<1>. QED BY <1>3 DEF m, on

(* A launch changes its own task only, and no more than an iteration does. *)
LEMMA DispatchFields ==
  ASSUME ListInv, Dispatch
  PROVE  LET t == Head(ready[level])
         IN /\ t \in Task /\ \A u \in Task \ {t} : task'[u] = task[u]
            /\ task[t].trigger = "Time" => task'[t] = Iterated(task[t])
            /\ task[t].trigger # "Time" => SameBut(task'[t], task[t], {})
            /\ Changes({"iters", "enabled"})
<1>. DEFINE t == Head(ready[level])
<1>1. t \in Task /\ task \in [Task -> TaskState] /\ task[t] \in TaskState
  BY TailElements DEF Dispatch, ListInv, ListTypes, TaskTypes
<1>. DEFINE after == CASE task[t].trigger = "Time" -> Iterated(task[t])
                       [] task[t].trigger = "Simple" -> [task[t] EXCEPT !.notif = @ - 1]
                       [] OTHER -> task[t]
<1>0. task' = [task EXCEPT ![t] = after]
  BY <1>1 DEF Dispatch
<1>2. /\ task[t].trigger = "Time" => after = Iterated(task[t])
      /\ task[t].trigger # "Time" => after = [task[t] EXCEPT !.notif = @ - 1] \/ after = task[t]
  OBVIOUS
<1>. HIDE DEF t, after
<1>3. task'[t] = after /\ \A u \in Task \ {t} : task'[u] = task[u]
  BY <1>0, <1>1
<1>4. task[t].trigger = "Time" => task'[t] = Iterated(task[t])
  BY <1>2, <1>3
<1>5. task[t].trigger # "Time" => SameBut(task'[t], task[t], {})
  BY <1>1, <1>2, <1>3 DEF SameBut, Key, TaskState
<1>6. SameBut(task'[t], task[t], {"iters", "enabled"})
  BY <1>1, <1>4, <1>5, IteratedFields DEF SameBut
<1>7. Changes({"iters", "enabled"})
  BY <1>3, <1>6 DEF Changes, SameBut
<1>. QED BY <1>1, <1>3, <1>4, <1>5, <1>7 DEF t

(* The end of a callback takes the trigger of its own task back.           *)
LEMMA ReturnFields ==
  ASSUME ListInv, Return
  PROVE  LET t == Head(ready[level])
         IN /\ t \in Task /\ \A u \in Task \ {t} : task'[u] = task[u]
            /\ task'[t].trigger = "None" /\ Changes({"trigger"})
<1>. DEFINE t == Head(ready[level])
<1>1. t \in Task /\ task \in [Task -> TaskState]
  BY TailElements DEF Return, Called, ListInv, ListTypes, TaskTypes
<1>2. task' = [task EXCEPT ![t].trigger = "None"]
  BY DEF Return
<1>. HIDE DEF t
<1>3. /\ \A u \in Task \ {t} : task'[u] = task[u]
      /\ task'[t].trigger = "None" /\ Changes({"trigger"})
  BY <1>1, <1>2 DEF Changes, SameBut, Key, TaskState
<1>. QED BY <1>1, <1>3 DEF t

(* A task gets a new count, by setIterations() or by add().                *)
Recounted(u, n) ==
  /\ owed' = [owed EXCEPT ![u] = Asked(n)] /\ task'[u].iters = Negated(n)
  /\ \A t \in Task \ {u} : task'[t] = task[t]

(* What the calls of handlers and tasks do to the fields, and who may make *)
(* the call.                                                               *)
CallEffect ==
  \/ Changes({}) /\ UNCHANGED owed
  \/ InCallback /\ Changes({"awake", "enabled"}) /\ UNCHANGED owed
  \/ InCallback /\ "priority" \in Uses /\ Changes({"prio"}) /\ UNCHANGED owed
  \/ InCallback /\ "remove" \in Uses /\ Changes({"removeReq"}) /\ UNCHANGED owed
  \/ /\ InCallback
     /\ \E u \in app.tasks, n \in app.iterations : Recounted(u, n)
     /\ Changes({"iters"}) \/ ("remove" \in Uses /\ Changes(Key \ {"trigger"}))

LEMMA CallFields == ASSUME ListInv, Calls PROVE CallEffect
<1>. USE DEF ListInv, TaskTypes
<1>1. task \in [Task -> TaskState] /\ app.tasks \subseteq Task
  BY AppFacts
<1>2. task' = task => Changes({})
  BY DEF Changes, SameBut
<1>3. ASSUME NEW u \in app.tasks, TaskCalls(u) PROVE CallEffect
  <2>0. u \in Task
    BY <1>1
  <2>1. ASSUME NEW d \in app.data, NotifySimple(u, d) PROVE CallEffect
    BY <1>1, <2>0, <2>1, NotifiedFields DEF NotifySimple, hist, CallEffect
  <2>2. ASSUME NEW d \in app.data, NotifyQueued(u, d) PROVE CallEffect
    BY <1>2, <2>2 DEF NotifyQueued, hist, CallEffect
  <2>3. CASE Tick(u) \/ QueueEvent(u)
    <3>1. Changes({})
      BY <1>1, <2>0, <2>3 DEF Tick, QueueEvent, Changes, SameBut, Key, TaskState
    <3>. QED BY <2>3, <3>1 DEF Tick, QueueEvent, hist, CallEffect
  <2>4. CASE ConsumeQueue(u) \/ YieldToTask(u)
    <3>1. Changes({})
      BY <1>1, <1>2, <2>0, <2>4 DEF ConsumeQueue, YieldToTask, SetTask, Changes, SameBut, Key, TaskState
    <3>. QED BY <2>4, <3>1 DEF ConsumeQueue, YieldToTask, SetTask, hist, CallEffect
  <2>5. CASE RemoveTask(u)
    <3>1. Changes({"removeReq"})
      BY <1>1, <2>0, <2>5 DEF RemoveTask, SetTask, Changes, SameBut, Key, TaskState
    <3>. QED BY <2>5, <3>1 DEF RemoveTask, SetTask, hist, CallEffect
  <2>6. ASSUME NEW b \in BOOLEAN, SetEnabled(u, b) PROVE CallEffect
    <3>1. Changes({"awake", "enabled"})
      BY <1>1, <2>0, <2>6 DEF SetEnabled, SetTask, Changes, SameBut, Key, TaskState
    <3>. QED BY <2>6, <3>1 DEF SetEnabled, SetTask, hist, CallEffect
  <2>7. ASSUME NEW b \in BOOLEAN, SetAwake(u, b) PROVE CallEffect
    <3>1. Changes({"awake", "enabled"})
      BY <1>1, <2>0, <2>7 DEF SetAwake, SetTask, Changes, SameBut, Key, TaskState
    <3>. QED BY <2>7, <3>1 DEF SetAwake, SetTask, hist, CallEffect
  <2>8. ASSUME NEW b \in BOOLEAN, EventFlagsModify(u, b) PROVE CallEffect
    <3>1. Changes({})
      BY <1>1, <2>0, <2>8 DEF EventFlagsModify, SetTask, Changes, SameBut, Key, TaskState
    <3>. QED BY <2>8, <3>1 DEF EventFlagsModify, SetTask, hist, CallEffect
  <2>9. ASSUME NEW p \in app.levels, SetPriority(u, p) PROVE CallEffect
    <3>1. Changes({"prio"})
      BY <1>1, <2>0, <2>9 DEF SetPriority, SetTask, Changes, SameBut, Key, TaskState
    <3>. QED BY <2>9, <3>1 DEF SetPriority, SetTask, hist, CallEffect
  <2>10. ASSUME NEW n \in app.iterations, SetIterations(u, n) PROVE CallEffect
    <3>1. Changes({"iters"}) /\ task'[u].iters = Negated(n) /\ \A t \in Task \ {u} : task'[t] = task[t]
      BY <1>1, <2>0, <2>10 DEF SetIterations, Changes, SameBut, Key, TaskState
    <3>. QED BY <2>10, <3>1 DEF SetIterations, CallEffect, Recounted
  <2>11. ASSUME NEW p \in app.levels, NEW n \in app.iterations, NEW on \in BOOLEAN,
                NEW awake \in BOOLEAN, Add(u, p, n, on, awake)
         PROVE  CallEffect
    <3>1. Changes(Key \ {"trigger"}) /\ task'[u].iters = Negated(n)
          /\ \A t \in Task \ {u} : task'[t] = task[t]
      BY <1>1, <2>0, <2>11 DEF Add, Changes, SameBut, Key, TaskState
    <3>. QED BY <2>11, <3>1 DEF Add, CallEffect, Recounted
  <2>. QED BY <1>3, <2>1, <2>2, <2>3, <2>4, <2>5, <2>6, <2>7, <2>8, <2>9, <2>10, <2>11 DEF TaskCalls
<1>4. ASSUME NEW mode \in {"simple", "queued"}, NEW d \in app.data, Spread(mode, d)
      PROVE  CallEffect
  BY <1>2, <1>4 DEF Spread, hist, CallEffect
<1>5. CASE SchedulerRelease
  BY <1>2, <1>5 DEF SchedulerRelease, hist, CallEffect
<1>. QED BY <1>3, <1>4, <1>5 DEF Calls

-----------------------------------------------------------------------------
(* Iteration counts.                                                       *)

(* The counter of a task against what it was asked: negative until the     *)
(* first time event, then what is left.                                    *)
CountKept(t) ==
  \/ owed[t].of = Periodic /\ owed[t].left = Periodic /\ task[t].iters = Periodic
  \/ /\ owed[t].of \in 1 .. MaxIterations /\ owed[t].left \in 0 .. owed[t].of
     /\ \/ owed[t].left = owed[t].of /\ task[t].iters = -owed[t].of
        \/ owed[t].left # owed[t].of /\ task[t].iters = owed[t].left

IterInv ==
  /\ owed \in [Task -> [of : Int, left : Int]]
  /\ \A t \in Task : CountKept(t)
  /\ pc # "relinked" => \A t \in Task : task[t].trigger = "Time" /\ ~BeingCalled(t) => owed[t].left # 0

(* A new count, as setIterations() and add() leave it.                     *)
LEMMA Asking ==
  ASSUME app \in Applications, NEW n \in app.iterations
  PROVE  /\ Asked(n) \in [of : Int, left : Int] /\ Asked(n).left # 0
         /\ \/ Asked(n).of = Periodic /\ Asked(n).left = Periodic /\ Negated(n) = Periodic
            \/ Asked(n).of \in 1 .. MaxIterations /\ Asked(n).left = Asked(n).of
               /\ Negated(n) = -Asked(n).of
<1>1. n \in 1 .. MaxIterations \/ n = Periodic
  BY SchedulerAssumption DEF IsApplication
<1>. QED BY <1>1, Limits DEF Asked, Negated

(* A new task has no trigger and the whole count ahead.                    *)
LEMMA NewTaskFields ==
  ASSUME NEW p, NEW n, NEW on, NEW id
  PROVE  NewTask(p, n, on, id).trigger = "None" /\ NewTask(p, n, on, id).iters = Negated(n)
BY DEF NewTask

(* It holds when run() is entered.                                         *)
LEMMA IterInit == Init => IterInv
<1>. SUFFICES ASSUME Init PROVE IterInv
  OBVIOUS
<1>. DEFINE added(t) == \E i \in DOMAIN app.order : app.order[i] = t
            id(t) == CHOOSE i \in DOMAIN app.order : app.order[i] = t
<1>1. app \in Applications /\ pc = "get"
  BY DEF Init
<1>2. PICK prios \in [app.tasks -> app.levels], n \in app.iterations :
        /\ task = [t \in Task |-> IF added(t) THEN NewTask(prios[t], n, "time" \in Uses, id(t))
                                 ELSE NewTask(0, Periodic, FALSE, Unregistered)]
        /\ owed = [t \in Task |-> IF added(t) THEN Asked(n) ELSE Asked(Periodic)]
  BY DEF Init
<1>. HIDE DEF added, id
<1>3. ASSUME NEW t \in Task
      PROVE  /\ task[t].trigger = "None"
             /\ \/ task[t].iters = Negated(n) /\ owed[t] = Asked(n)
                \/ task[t].iters = Periodic /\ owed[t] = Asked(Periodic)
  <2>1. CASE added(t)
    BY <1>2, <2>1, NewTaskFields
  <2>2. CASE ~added(t)
    <3>1. task[t] = NewTask(0, Periodic, FALSE, Unregistered) /\ owed[t] = Asked(Periodic)
      BY <1>2, <2>2
    <3>2. Negated(Periodic) = Periodic
      BY DEF Negated
    <3>3. /\ NewTask(0, Periodic, FALSE, Unregistered).trigger = "None"
          /\ NewTask(0, Periodic, FALSE, Unregistered).iters = Negated(Periodic)
      BY NewTaskFields, Zenon
    <3>. QED BY <3>1, <3>2, <3>3
  <2>. QED BY <2>1, <2>2
<1>4. Asked(Periodic) = [of |-> Periodic, left |-> Periodic]
  BY DEF Asked
<1>5. owed \in [Task -> [of : Int, left : Int]]
  BY <1>1, <1>2, <1>4, Asking, Limits
<1>6. ASSUME NEW t \in Task PROVE CountKept(t)
  <2>1. CASE task[t].iters = Negated(n) /\ owed[t] = Asked(n)
    BY <1>1, <2>1, Asking, Limits DEF CountKept
  <2>2. CASE task[t].iters = Periodic /\ owed[t] = Asked(Periodic)
    BY <1>4, <2>2 DEF CountKept
  <2>. QED BY <1>3, <2>1, <2>2
<1>. QED BY <1>1, <1>3, <1>5, <1>6 DEF IterInv

(* Steps that leave counters alone and mark no task as timed out.          *)
LEMMA CountsStay ==
  ASSUME IterInv, UNCHANGED owed, pc # "relinked" \/ pc' = "relinked",
         \A t \in Task : /\ task'[t].iters = task[t].iters
                         /\ task'[t].trigger = "Time" =>
                              task[t].trigger = "Time" /\ (BeingCalled(t) => BeingCalled(t)')
  PROVE  IterInv'
<1>1. ASSUME NEW t \in Task PROVE CountKept(t)'
  BY DEF IterInv, CountKept
<1>2. ASSUME NEW t \in Task, task'[t].trigger = "Time", ~BeingCalled(t)', pc' # "relinked"
      PROVE  owed'[t].left # 0
  BY <1>2 DEF IterInv
<1>. QED BY <1>1, <1>2 DEF IterInv

(* Steps that give one task a new count.                                   *)
LEMMA CountGiven ==
  ASSUME IterInv, app \in Applications, NEW u \in Task, NEW n \in app.iterations,
         Recounted(u, n), pc' = "relinked" \/ UNCHANGED <<pc, ready, level>>
  PROVE  IterInv'
<1>1. owed' \in [Task -> [of : Int, left : Int]] /\ owed'[u] = Asked(n)
      /\ \A t \in Task \ {u} : owed'[t] = owed[t] /\ task'[t] = task[t]
  BY Asking DEF IterInv, Recounted
<1>2. ASSUME NEW t \in Task PROVE CountKept(t)'
  <2>1. CASE t = u
    BY <1>1, <2>1, Asking, Limits DEF CountKept, Recounted
  <2>2. CASE t # u
    BY <1>1, <2>2 DEF IterInv, CountKept
  <2>. QED BY <2>1, <2>2
<1>3. ASSUME NEW t \in Task, task'[t].trigger = "Time", ~BeingCalled(t)', pc' # "relinked"
      PROVE  owed'[t].left # 0
  BY <1>1, <1>3, Asking DEF IterInv, BeingCalled
<1>. QED BY <1>1, <1>2, <1>3 DEF IterInv

(* The scan marks only tasks with iterations left as timed out.            *)
LEMMA IterScan == ASSUME ListInv, IterInv, ScanTask PROVE IterInv'
<1>. DEFINE u == Head(waiting)
<1>1. pc' = "scan" /\ pc = "scan" /\ UNCHANGED owed
  BY DEF ScanTask, hist
<1>2. /\ u \in Task /\ task'[u].iters = task[u].iters /\ task'[u].trigger = TriggerOf(u)
      /\ \A t \in Task \ {u} : task'[t] = task[t]
  BY ScanFields DEF SameBut, Key
<1>. HIDE DEF u
<1>3. TriggerOf(u) = "Time" => task[u].trigger = "Time" \/ task[u].iters # 0
  BY DEF TriggerOf, deadLineReached
<1>4. task[u].iters # 0 => owed[u].left # 0
  BY <1>2, Limits DEF IterInv, CountKept
<1>5. ASSUME NEW t \in Task PROVE CountKept(t)'
  BY <1>1, <1>2 DEF IterInv, CountKept
<1>6. ASSUME NEW t \in Task, task'[t].trigger = "Time" PROVE owed'[t].left # 0
  BY <1>1, <1>2, <1>3, <1>4, <1>6 DEF IterInv, BeingCalled
<1>. QED BY <1>1, <1>5, <1>6 DEF IterInv

(* One iteration: the counter of a limited task against what is left.      *)
LEMMA CountDown ==
  ASSUME NEW n \in Int, NEW of \in 1 .. MaxIterations, NEW left \in 1 .. of,
         (left = of /\ n = -of) \/ (left # of /\ n = left)
  PROVE  Counted(n) = left - 1 /\ (n < 0 /\ n # Periodic <=> left = of)
BY Limits DEF Counted

(* What a launch does to the counter of its task, and what it tells it.    *)
Limited(t) == task[t].trigger = "Time" /\ owed[t].of # Periodic
Told(t) ==
  /\ event'.trigger = task[t].trigger
  /\ Limited(t) => owed[t].left > 0
  /\ event'.first <=> Limited(t) /\ owed[t].left = owed[t].of
  /\ event'.last <=> Limited(t) /\ owed[t].left = 1
  /\ event'.last => ~task'[t].enabled

(* A launch by time takes one iteration; the events tell the first and the *)
(* last.                                                                   *)
LEMMA IterDispatch ==
  ASSUME ListInv, IterInv, Dispatch, NEW t, t = Head(ready[level])
  PROVE  IterInv' /\ Told(t)
<1>. DEFINE timed == task[t].trigger = "Time"
            once == Counted(task[t].iters)
<1>1. /\ t \in Task /\ task \in [Task -> TaskState] /\ owed \in [Task -> [of : Int, left : Int]]
      /\ \A u \in Task \ {t} : task'[u] = task[u]
      /\ timed => task'[t] = Iterated(task[t])
      /\ ~timed => task'[t].iters = task[t].iters
      /\ pc = "dispatch" /\ pc' = "call" /\ UNCHANGED <<ready, level>>
  BY DispatchFields DEF Dispatch, ListInv, TaskTypes, IterInv, lists, SameBut, Key
<1>2. /\ Limited(t) => owed' = [owed EXCEPT ![t].left = @ - 1]
      /\ ~Limited(t) => owed' = owed
  BY DEF Dispatch, Limited
<1>3. /\ event'.trigger = task[t].trigger
      /\ event'.first = (timed /\ task[t].iters < 0 /\ task[t].iters # Periodic)
      /\ event'.last = (timed /\ Iterated(task[t]).iters = 0)
  BY DEF Dispatch, EventFor
<1>5. task[t] \in TaskState /\ task[t].iters \in Int /\ owed[t].of \in Int /\ owed[t].left \in Int
  BY <1>1, Fields
<1>6. Iterated(task[t]).iters = once /\ Iterated(task[t]).enabled = (task[t].enabled /\ once # 0)
  BY <1>5, IteratedFields
<1>7. CountKept(t) /\ (timed => owed[t].left # 0)
  BY <1>1 DEF IterInv, BeingCalled
<1>8. Limited(t) => /\ owed[t].of \in 1 .. MaxIterations /\ owed[t].left \in 1 .. owed[t].of
                    /\ once = owed[t].left - 1
                    /\ task[t].iters < 0 /\ task[t].iters # Periodic <=> owed[t].left = owed[t].of
  <2>. SUFFICES ASSUME Limited(t)
                PROVE  /\ owed[t].of \in 1 .. MaxIterations /\ owed[t].left \in 1 .. owed[t].of
                       /\ once = owed[t].left - 1
                       /\ task[t].iters < 0 /\ task[t].iters # Periodic <=> owed[t].left = owed[t].of
    OBVIOUS
  <2>1. /\ owed[t].of \in 1 .. MaxIterations /\ owed[t].left \in 0 .. owed[t].of /\ owed[t].left # 0
        /\ \/ owed[t].left = owed[t].of /\ task[t].iters = -owed[t].of
           \/ owed[t].left # owed[t].of /\ task[t].iters = owed[t].left
    BY <1>7 DEF CountKept, Limited
  <2>2. owed[t].left \in 1 .. owed[t].of
    BY <2>1, Limits
  <2>. QED BY <1>5, <2>1, <2>2, CountDown, SMTT(30)
<1>9. timed /\ ~Limited(t) => task[t].iters = Periodic /\ once = Periodic
  BY <1>7, Limits DEF CountKept, Limited, Counted
<1>. HIDE DEF once
<1>10. Told(t)
  <2>1. CASE Limited(t)
    <3>1. timed /\ owed[t].left \in Int /\ owed[t].left > 0 /\ (once = 0 <=> owed[t].left = 1)
      BY <1>8, <2>1 DEF Limited
    <3>2. event'.last => ~task'[t].enabled
      BY <1>1, <1>3, <1>6, <3>1
    <3>. QED BY <1>3, <1>6, <1>8, <2>1, <3>1, <3>2 DEF Told
  <2>2. CASE ~Limited(t)
    <3>1. timed => task[t].iters = Periodic /\ once # 0
      BY <1>9, <2>2, Limits
    <3>2. ~event'.first /\ ~event'.last
      BY <1>3, <1>6, <3>1
    <3>. QED BY <1>3, <2>2, <3>2 DEF Told
  <2>. QED BY <2>1, <2>2
<1>11. IterInv'
  <2>1. owed' \in [Task -> [of : Int, left : Int]] /\ \A u \in Task \ {t} : owed'[u] = owed[u]
    BY <1>1, <1>2, <1>5
  <2>2. Limited(t) => owed'[t].of = owed[t].of /\ owed'[t].left = owed[t].left - 1
    BY <1>1, <1>2
  <2>3. CountKept(t)'
    <3>1. CASE Limited(t)
      <4>1. task'[t].iters = owed[t].left - 1
        BY <1>1, <1>6, <1>8, <3>1 DEF Limited
      <4>2. owed'[t].of \in 1 .. MaxIterations /\ owed'[t].left \in 0 .. owed'[t].of
            /\ owed'[t].left # owed'[t].of /\ task'[t].iters = owed'[t].left
        BY <1>8, <2>2, <3>1, <4>1
      <4>. QED BY <4>2 DEF CountKept
    <3>2. CASE ~Limited(t)
      <4>1. task'[t].iters = task[t].iters /\ owed' = owed
        BY <1>1, <1>2, <1>6, <1>9, <3>2
      <4>. QED BY <1>7, <4>1 DEF CountKept
    <3>. QED BY <3>1, <3>2
  <2>4. ASSUME NEW u \in Task \ {t} PROVE CountKept(u)'
    BY <1>1, <2>1 DEF IterInv, CountKept
  <2>5. ASSUME NEW u \in Task, task'[u].trigger = "Time", ~BeingCalled(u)' PROVE owed'[u].left # 0
    <3>1. u # t
      BY <1>1, <2>5 DEF BeingCalled
    <3>. QED BY <1>1, <2>1, <2>5, <3>1 DEF IterInv, BeingCalled
  <2>. QED BY <2>1, <2>3, <2>4, <2>5 DEF IterInv
<1>. QED BY <1>10, <1>11

(* The other steps of the kernel.                                          *)
LEMMA IterKernel == ASSUME ListInv, IterInv, Kernel PROVE IterInv'
<1>1. CASE GetQueued
  <2>1. ASSUME NEW t \in Task, task'[t].trigger = "Time" PROVE task[t].trigger = "Time"
    BY <1>1, <2>1, GetFields
  <2>3. \A t \in Task : task'[t].iters = task[t].iters
    <3>1. Changes({"trigger", "awake"})
      BY <1>1, GetFields
    <3>. QED BY <3>1 DEF Changes, SameBut, Key
  <2>2. UNCHANGED owed /\ pc = "get"
    BY <1>1 DEF GetQueued, hist
  <2>. QED BY <2>1, <2>2, <2>3, CountsStay DEF BeingCalled
<1>2. CASE ScanSpread
  <2>1. UNCHANGED owed /\ pc = "scan"
    BY <1>2 DEF ScanSpread, hist
  <2>2. \A t \in Task : task'[t].iters = task[t].iters /\ task'[t].trigger = task[t].trigger
    BY <1>2, SpreadFields DEF Changes, SameBut, Key
  <2>. QED BY <2>1, <2>2, CountsStay DEF BeingCalled
<1>3. CASE Return
  <2>1. UNCHANGED owed
    BY <1>3 DEF Return, hist
  <2>2. \A t \in Task : /\ task'[t].iters = task[t].iters
                        /\ task'[t].trigger = "Time" => task[t].trigger = "Time" /\ ~BeingCalled(t)
    BY <1>3, ReturnFields DEF Changes, SameBut, Key, BeingCalled
  <2>3. pc # "relinked"
    BY KernelKeeps
  <2>. QED BY <2>1, <2>2, <2>3, CountsStay
<1>4. CASE EndScan \/ NextLevel \/ ReturnYielded \/ Gather \/ IdleReturn \/ Loop
  <2>1. UNCHANGED <<task, owed>>
    BY <1>4 DEF EndScan, NextLevel, ReturnYielded, Gather, IdleReturn, Loop, hist
  <2>2. pc # "call" \/ UNCHANGED <<pc, ready, level>>
    BY <1>4 DEF EndScan, NextLevel, ReturnYielded, Gather, IdleReturn, Loop, lists, sched
  <2>3. pc # "relinked"
    BY KernelKeeps
  <2>. QED BY <2>1, <2>2, <2>3, CountsStay DEF BeingCalled
<1>. QED BY <1>1, <1>2, <1>3, <1>4, IterScan, IterDispatch DEF Kernel

(* Calls give a new count or leave it alone.                               *)
LEMMA IterCalls == ASSUME ListInv, IterInv, Calls PROVE IterInv'
<1>1. /\ pc' = "relinked" \/ UNCHANGED <<pc, ready, level>>
      /\ app.tasks \subseteq Task /\ app \in Applications
  BY CallTypes, AppFacts DEF ListInv, TaskTypes, Stays, Relinks
<1>2. CASE \E u \in app.tasks, n \in app.iterations : Recounted(u, n)
  BY <1>1, <1>2, CountGiven
<1>3. CASE UNCHANGED owed /\ \A t \in Task : task'[t].iters = task[t].iters /\ task'[t].trigger = task[t].trigger
  <2>1. CASE pc' = "relinked"
    BY <1>3, <2>1 DEF IterInv, CountKept
  <2>2. CASE UNCHANGED <<pc, ready, level>>
    BY <1>3, <2>2, CountsStay DEF BeingCalled
  <2>. QED BY <1>1, <2>1, <2>2
<1>. QED BY <1>2, <1>3, CallFields DEF CallEffect, Changes, SameBut, Key

(* Hence the counters are kept by every step.                              *)
LEMMA IterNext == ASSUME ListInv, IterInv, [Next]_vars PROVE IterInv'
<1>1. CASE RunAgain \/ UNCHANGED vars
  <2>1. /\ UNCHANGED <<task, owed>> /\ (pc # "call" \/ UNCHANGED <<pc, ready, level>>)
        /\ pc # "relinked" \/ pc' = "relinked"
    BY <1>1 DEF RunAgain, vars, hist, lists, sched
  <2>. QED BY <2>1, CountsStay DEF BeingCalled
<1>. QED BY <1>1, IterKernel, IterCalls DEF Next

(* Only a launch starts a callback.                                        *)
LEMMA OnlyDispatchStarts ==
  ASSUME ListInv, [Next]_vars, NEW t, Starts(t)
  PROVE  Dispatch /\ t = Head(ready[level])
<1>1. pc = "dispatch" /\ pc' = "call" /\ current' = t
  BY DEF Starts
<1>2. ~Calls
  BY <1>1, CallTypes DEF Stays, Relinks
<1>3. ~(RunAgain \/ UNCHANGED vars)
  BY <1>1 DEF RunAgain, vars, sched
<1>4. Dispatch
  BY <1>1, <1>2, <1>3 DEF Next, Kernel, GetQueued, ScanTask, ScanSpread, EndScan, NextLevel,
       ReturnYielded, Return, Gather, IdleReturn, Loop
<1>. QED BY <1>1, <1>4 DEF Dispatch

(* A task asked to run n times by time events runs n times by them, is     *)
(* told FirstIteration of the first only and LastIteration of the last     *)
(* only, and is left disabled by it (kernel.cpp 311-322), whatever it and  *)
(* the others ask for meanwhile, also in the callback under way.           *)
THEOREM IterationCountsHonoured == Spec => IterationsHonoured
<1>1. ListInv /\ IterInv /\ [Next]_vars =>
        [\A t \in Task : Starts(t) =>
           LET limited == event'.trigger = "Time" /\ owed[t].of # Periodic
           IN /\ limited => owed[t].left > 0
              /\ event'.first <=> limited /\ owed[t].left = owed[t].of
              /\ event'.last <=> limited /\ owed[t].left = 1
              /\ event'.last => ~task'[t].enabled]_vars
  BY OnlyDispatchStarts, IterDispatch DEF Told, Limited
<1>. QED BY <1>1, ListInvariant, IterInit, IterNext, PTL DEF Spec, IterationsHonoured

-----------------------------------------------------------------------------
(* Applications that neither spread notifications nor remove tasks.        *)
Quiet == Uses \cap {"spread", "remove"} = {}

(* The elements of a list after the moves the kernel makes.                *)
LEMMA InTail ==
  ASSUME NEW q \in Seq(Task), q # <<>>, NEW x
  PROVE  InList(q, x) <=> x = Head(q) \/ InList(Tail(q), x)
BY TailElements DEF InList

(* At the end of a list.                                                   *)
LEMMA InAppend ==
  ASSUME NEW q \in Seq(Task), NEW y \in Task, NEW x
  PROVE  InList(Append(q, y), x) <=> InList(q, x) \/ x = y
BY AppendElements DEF InList

(* Of two lists put together.                                              *)
LEMMA InJoin ==
  ASSUME NEW q \in Seq(Task), NEW r \in Seq(Task), NEW x, InList(q \o r, x)
  PROVE  InList(q, x) \/ InList(r, x)
<1>1. PICK i \in DOMAIN (q \o r) : (q \o r)[i] = x
  BY DEF InList
<1>2. /\ Len(q) \in Nat /\ Len(r) \in Nat /\ DOMAIN q = 1 .. Len(q) /\ DOMAIN r = 1 .. Len(r)
      /\ q \o r \in Seq(Task) /\ Len(q \o r) = Len(q) + Len(r)
      /\ DOMAIN (q \o r) = 1 .. Len(q \o r)
      /\ (q \o r)[i] = IF i <= Len(q) THEN q[i] ELSE r[i - Len(q)]
  BY <1>1, ConcatProperties, LenProperties
<1>3. CASE i <= Len(q)
  BY <1>1, <1>2, <1>3 DEF InList
<1>4. CASE ~(i <= Len(q))
  <2>1. i - Len(q) \in DOMAIN r /\ r[i - Len(q)] = x
    BY <1>1, <1>2, <1>4
  <2>. QED BY <2>1 DEF InList
<1>. QED BY <1>3, <1>4

(* Of a sorted list.                                                       *)
LEMMA InSorted ==
  ASSUME NEW q \in Seq(Task), \A t \in Task : task[t].entry \in Int, NEW x
  PROVE  InList(ByEntry(q), x) <=> InList(q, x)
BY SortPermutes DEF Permuted, InList

(* Of no list.                                                             *)
LEMMA InEmpty == \A x : ~InList(<<>>, x)
BY EmptySeq, LenProperties DEF InList

(* Where run() stands against what is in the lists.                        *)
Unasked == spread.mode = "none" /\ \A t \in Task : ~task[t].removeReq
Resting ==
  \A t \in Task :
    /\ InList(suspended, t) => task[t].trigger = "None"
    /\ InList(waiting, t) => \/ task[t].trigger = "None"
                             \/ pc = "scan" /\ task[t].trigger = "Queued" /\ task[t].awake
Cleared ==
  /\ \A p \in Levels : ready[p] # <<>> => \/ pc = "scan" /\ anyActive
                                          \/ pc \in {"dispatch", "call"} /\ p <= level
  /\ pc \in {"dispatch", "call"} => anyActive
  /\ pc = "gather" => waiting = <<>> \/ anyActive
  /\ pc \in {"get", "idle", "loop", "released"} => suspended = <<>>
NoneDue ==
  pc \in {"scan", "gather"} /\ ~anyActive =>
    \A t \in Task : InList(suspended, t) => ~AlwaysDue(t)

QuietInv == Unasked /\ Resting /\ Cleared /\ NoneDue

(* The invariant of quiet applications holds at the start.                 *)
LEMMA QuietInit == Init => QuietInv
<1>. SUFFICES ASSUME Init PROVE QuietInv
  OBVIOUS
<1>1. ASSUME NEW t \in Task PROVE task[t].trigger = "None" /\ ~task[t].removeReq
  <2>1. PICK prios \in [app.tasks -> app.levels], n \in app.iterations :
          task = [u \in Task |->
                    IF \E i \in DOMAIN app.order : app.order[i] = u
                      THEN NewTask(prios[u], n, "time" \in Uses,
                                   CHOOSE i \in DOMAIN app.order : app.order[i] = u)
                      ELSE NewTask(0, Periodic, FALSE, Unregistered)]
    BY DEF Init
  <2>2. \E pr, m, on, id : task[t] = NewTask(pr, m, on, id)
    BY <2>1, Zenon
  <2>. QED BY <2>2 DEF NewTask
<1>2. /\ suspended = <<>> /\ ready = [p \in Levels |-> <<>>] /\ spread.mode = "none"
      /\ pc = "get"
  BY DEF Init
<1>. QED BY <1>1, <1>2, InEmpty DEF QuietInv, Unasked, Resting, Cleared, NoneDue

(* A queued notification is extracted: no list holds a ready task then.    *)
LEMMA QuietGet == ASSUME ListInv, QuietInv, GetQueued PROVE QuietInv'
<1>1. /\ pc = "get" /\ pc' = "scan" /\ ~anyActive' /\ UNCHANGED <<waiting, suspended, ready, spread>>
  BY DEF GetQueued, lists
<1>2. suspended = <<>> /\ \A p \in Levels : ready[p] = <<>>
  BY <1>1 DEF QuietInv, Cleared
<1>3. ASSUME NEW t \in Task
      PROVE  /\ task'[t].removeReq = task[t].removeReq
             /\ \/ task'[t].trigger = task[t].trigger
                \/ task'[t].trigger = "Queued" /\ task'[t].awake
  <2>1. Changes({"trigger", "awake"})
    BY GetFields
  <2>2. task'[t] = task[t] \/ (task'[t].trigger = "Queued" /\ task'[t].awake)
    BY GetFields
  <2>. QED BY <2>1, <2>2 DEF Changes, SameBut, Key
<1>4. Unasked'
  BY <1>1, <1>3 DEF QuietInv, Unasked
<1>5. Resting'
  BY <1>1, <1>2, <1>3, InEmpty DEF QuietInv, Resting
<1>6. Cleared' /\ NoneDue'
  BY <1>1, <1>2, InEmpty DEF Cleared, NoneDue
<1>. QED BY <1>4, <1>5, <1>6 DEF QuietInv

(* What the scan does with the task in front, when it removes none.        *)
LEMMA ScanMoves ==
  ASSUME ListInv, Unasked, ScanTask, NEW u, u = Head(waiting)
  PROVE  /\ u \in Task /\ waiting # <<>> /\ waiting' = Tail(waiting)
         /\ task'[u].trigger = TriggerOf(u) /\ SameBut(task'[u], task[u], {"trigger"})
         /\ \A t \in Task \ {u} : task'[t] = task[t]
         /\ anyActive' = (anyActive \/ (task[u].awake /\ TriggerOf(u) # "None"))
         /\ \/ /\ TriggerOf(u) # "None" /\ suspended' = suspended
               /\ ready' = [ready EXCEPT ![task[u].prio] = Append(ready[task[u].prio], u)]
            \/ /\ TriggerOf(u) = "None" /\ suspended' = Append(suspended, u) /\ ready' = ready
         /\ UNCHANGED <<pq, pqData, claim, spread, level, app>> /\ pc = "scan" /\ pc' = "scan"
<1>1. u \in Task /\ ~task[u].removeReq
  BY ScanFields DEF Unasked
<1>2. /\ task'[u].trigger = TriggerOf(u) /\ SameBut(task'[u], task[u], {"trigger"})
      /\ \A t \in Task \ {u} : task'[t] = task[t]
  BY <1>1, ScanFields
<1>3. /\ waiting # <<>> /\ waiting' = Tail(waiting)
      /\ anyActive' = (anyActive \/ (task[u].awake /\ TriggerOf(u) # "None"))
      /\ UNCHANGED <<pqData, claim, spread, level, app>> /\ pc = "scan" /\ pc' = "scan"
  BY DEF ScanTask, hist
<1>4. /\ UNCHANGED pq
      /\ \/ /\ TriggerOf(u) # "None" /\ suspended' = suspended
            /\ ready' = [ready EXCEPT ![task[u].prio] = Append(ready[task[u].prio], u)]
         \/ TriggerOf(u) = "None" /\ suspended' = Append(suspended, u) /\ ready' = ready
  BY <1>1 DEF ScanTask
<1>. QED BY <1>1, <1>2, <1>3, <1>4

(* The task in front of a list is nowhere else.                            *)
LEMMA HeadOnce ==
  ASSUME ListInv, pc # "relinked", waiting # <<>>, NEW u, u = Head(waiting)
  PROVE  /\ u \in Task /\ ~InList(Tail(waiting), u) /\ ~InList(suspended, u)
         /\ \A p \in Levels : ~InList(ready[p], u)
<1>1. /\ Family \in [Places -> Seq(Task)] /\ Family[-1] = waiting /\ Family[-2] = suspended
      /\ \A p \in Levels : Family[p] = ready[p] /\ p # -1 /\ p # -2
      /\ Disjoint(Family) /\ -1 \in Places /\ -2 \in Places /\ Levels \subseteq Places
  BY FamilyIs DEF ListInv, OneListEach, Places
<1>2. /\ u \in Task /\ u = waiting[1] /\ 1 \in DOMAIN waiting /\ Tail(waiting) \in Seq(Task)
      /\ \A i \in DOMAIN Tail(waiting) : i + 1 \in DOMAIN waiting /\ Tail(waiting)[i] = waiting[i + 1]
  BY TailElements DEF ListInv, ListTypes
<1>3. \A k \in Places : k # -1 => ~InList(Family[k], u)
  BY <1>1, <1>2 DEF Disjoint, InList
<1>4. ~InList(Tail(waiting), u)
  <2>. SUFFICES ASSUME NEW i \in DOMAIN Tail(waiting), Tail(waiting)[i] = u PROVE FALSE
    BY DEF InList
  <2>1. i + 1 \in DOMAIN waiting /\ waiting[i + 1] = waiting[1]
    BY <1>2
  <2>2. i + 1 = 1
    BY <1>1, <1>2, <2>1 DEF Disjoint
  <2>3. i \in Nat \ {0}
    BY <1>2, LenProperties
  <2>. QED BY <2>2, <2>3
<1>. QED BY <1>1, <1>2, <1>3, <1>4

(* The scan moves a task: what it leaves behind is not due.                *)
LEMMA QuietScan == ASSUME ListInv, QuietInv, ScanTask PROVE QuietInv'
<1>. PICK u : u = Head(waiting)
  OBVIOUS
<1>. USE DEF QuietInv
<1>1. /\ u \in Task /\ waiting # <<>> /\ waiting' = Tail(waiting) /\ waiting \in Seq(Task)
      /\ suspended \in Seq(Task) /\ ready \in [Levels -> Seq(Task)] /\ task[u].prio \in Levels
      /\ task'[u].trigger = TriggerOf(u) /\ SameBut(task'[u], task[u], {"trigger"})
      /\ \A t \in Task \ {u} : task'[t] = task[t]
      /\ UNCHANGED spread /\ pc = "scan" /\ pc' = "scan"
  BY ScanMoves, Fields DEF ListInv, ListTypes, TaskTypes
<1>2. anyActive' = (anyActive \/ (task[u].awake /\ TriggerOf(u) # "None"))
  BY ScanMoves
<1>3. \/ /\ TriggerOf(u) # "None" /\ suspended' = suspended
         /\ ready' = [ready EXCEPT ![task[u].prio] = Append(ready[task[u].prio], u)]
      \/ /\ TriggerOf(u) = "None" /\ suspended' = Append(suspended, u) /\ ready' = ready
  BY ScanMoves
<1>4. \A x : InList(waiting, x) <=> x = u \/ InList(waiting', x)
  BY <1>1, InTail
<1>5. Unasked'
  BY <1>1 DEF Unasked, SameBut, Key
<1>6. task[u].trigger = "None" \/ (task[u].trigger = "Queued" /\ task[u].awake)
  BY <1>1, <1>4 DEF Resting
<1>7. TriggerOf(u) # "None" => task[u].awake
  BY <1>6 DEF TriggerOf
<1>8. TriggerOf(u) = "None" => ~AlwaysDue(u)
  BY <1>6 DEF TriggerOf, deadLineReached, AlwaysDue, State
<1>9. ~InList(waiting', u) /\ ~InList(suspended, u)
  BY <1>1, HeadOnce
<1>10. \A x : InList(suspended', x) <=> InList(suspended, x) \/ (x = u /\ TriggerOf(u) = "None")
  <2>1. CASE TriggerOf(u) # "None"
    BY <1>3, <2>1
  <2>2. CASE TriggerOf(u) = "None"
    <3>1. \A x : InList(Append(suspended, u), x) <=> InList(suspended, x) \/ x = u
      BY <1>1, InAppend
    <3>. QED BY <1>3, <2>2, <3>1
  <2>. QED BY <2>1, <2>2
<1>11. Resting'
  <2>1. ASSUME NEW t \in Task, InList(suspended', t) PROVE task'[t].trigger = "None"
    <3>1. CASE t = u
      BY <1>1, <1>9, <1>10, <2>1, <3>1
    <3>2. CASE t # u
      BY <1>1, <1>10, <2>1, <3>2 DEF Resting
    <3>. QED BY <3>1, <3>2
  <2>2. ASSUME NEW t \in Task, InList(waiting', t)
        PROVE  \/ task'[t].trigger = "None"
               \/ task'[t].trigger = "Queued" /\ task'[t].awake
    <3>1. t # u
      BY <1>9, <2>2
    <3>. QED BY <1>1, <1>4, <2>2, <3>1 DEF Resting
  <2>. QED BY <1>1, <2>1, <2>2 DEF Resting
<1>12. Cleared'
  <2>1. ASSUME NEW p \in Levels, ready'[p] # <<>> PROVE anyActive'
    <3>1. CASE ready'[p] = ready[p]
      BY <1>1, <1>2, <2>1, <3>1 DEF Cleared
    <3>2. CASE ready'[p] # ready[p]
      BY <1>1, <1>2, <1>3, <1>7, <3>2
    <3>. QED BY <3>1, <3>2
  <2>. QED BY <1>1, <2>1 DEF Cleared
<1>13. NoneDue'
  <2>. SUFFICES ASSUME ~anyActive', NEW t \in Task, InList(suspended', t) PROVE ~AlwaysDue(t)'
    BY DEF NoneDue
  <2>1. ~anyActive
    BY <1>2
  <2>2. ~AlwaysDue(t)
    BY <1>1, <1>8, <1>10, <2>1 DEF NoneDue
  <2>3. task'[t].awake = task[t].awake /\ task'[t].enabled = task[t].enabled
        /\ task'[t].iters = task[t].iters /\ task'[t].removeReq = task[t].removeReq
    BY <1>1 DEF SameBut, Key
  <2>4. UNCHANGED Immediate
    BY DEF ScanTask, hist, Immediate
  <2>. QED BY <2>2, <2>3, <2>4 DEF AlwaysDue, State
<1>. QED BY <1>5, <1>11, <1>12, <1>13

(* What the calls of handlers and tasks leave alone.                       *)
LEMMA QuietCalls ==
  ASSUME ListInv, Quiet, Calls
  PROVE  /\ UNCHANGED <<waiting, suspended, ready, spread, pc, level, anyActive, pqData, claim, app>>
         /\ \/ Changes({})
            \/ InCallback /\ Changes({"awake", "enabled", "prio", "iters"})
         /\ UNCHANGED pq \/ \E t \in app.tasks, d \in app.data : pq' = insert(pq, <<t, d>>)
<1>1. "spread" \notin Uses /\ "remove" \notin Uses
  BY DEF Quiet
<1>2. /\ UNCHANGED <<waiting, suspended, ready, spread, pc, level, anyActive, pqData, claim, app>>
      /\ UNCHANGED pq \/ \E t \in app.tasks, d \in app.data : pq' = insert(pq, <<t, d>>)
  <2>1. ASSUME NEW t \in app.tasks, TaskCalls(t)
        PROVE  /\ UNCHANGED <<waiting, suspended, ready, spread, pc, level, anyActive, pqData, claim, app>>
               /\ UNCHANGED pq \/ \E d \in app.data : pq' = insert(pq, <<t, d>>)
    BY <1>1, <2>1 DEF TaskCalls, NotifySimple, NotifyQueued, Tick, QueueEvent, ConsumeQueue,
         RemoveTask, YieldToTask, SetEnabled, SetAwake, EventFlagsModify, SetIterations,
         SetPriority, Add, SetTask, lists, notes, sched, hist
  <2>2. CASE SchedulerRelease
    BY <2>2 DEF SchedulerRelease, lists, notes, sched, hist
  <2>. QED BY <1>1, <2>1, <2>2 DEF Calls, Spread
<1>3. \/ Changes({})
      \/ InCallback /\ Changes({"awake", "enabled", "prio", "iters"})
  BY <1>1, CallFields DEF CallEffect, Changes, SameBut
<1>. QED BY <1>2, <1>3

(* Handlers and callbacks make calls.                                      *)
LEMMA QuietByCalls == ASSUME ListInv, Quiet, QuietInv, Calls PROVE QuietInv'
<1>. USE DEF QuietInv
<1>1. UNCHANGED <<waiting, suspended, ready, spread, pc, level, anyActive, Immediate>>
  BY QuietCalls DEF Immediate
<1>2. ASSUME NEW t \in Task
      PROVE  /\ task'[t].removeReq = task[t].removeReq /\ task'[t].trigger = task[t].trigger
             /\ \/ pc \in {"call", "idle", "released"}
                \/ /\ task'[t].awake = task[t].awake /\ task'[t].enabled = task[t].enabled
                   /\ task'[t].iters = task[t].iters
  BY QuietCalls DEF Changes, SameBut, Key, InCallback
<1>3. Unasked' /\ Cleared'
  BY <1>1, <1>2 DEF Unasked, Cleared
<1>4. Resting'
  BY <1>1, <1>2 DEF Resting
<1>5. NoneDue'
  BY <1>1, <1>2 DEF NoneDue, AlwaysDue, State
<1>. QED BY <1>3, <1>4, <1>5

(* The scan ends, with every task moved.                                   *)
LEMMA QuietEndScan == ASSUME ListInv, QuietInv, EndScan PROVE QuietInv'
<1>. USE DEF QuietInv
<1>1. /\ pc = "scan" /\ waiting = <<>> /\ UNCHANGED <<waiting, suspended, ready, task, anyActive, Immediate>>
      /\ spread'.mode = "none" /\ level' = MaxPriority
      /\ (anyActive /\ pc' = "dispatch") \/ (~anyActive /\ pc' = "gather")
  BY DEF EndScan, lists, hist, Immediate
<1>2. \A p \in Levels : p <= MaxPriority
  BY SchedulerAssumption DEF Levels
<1>3. Unasked' /\ Cleared'
  BY <1>1, <1>2 DEF Unasked, Cleared
<1>4. Resting'
  BY <1>1, InEmpty DEF Resting
<1>5. NoneDue'
  BY <1>1 DEF NoneDue, AlwaysDue, State
<1>. QED BY <1>3, <1>4, <1>5

(* A task is launched.                                                     *)
LEMMA QuietDispatch == ASSUME ListInv, QuietInv, Dispatch PROVE QuietInv'
<1>. USE DEF QuietInv
<1>1. pc = "dispatch" /\ pc' = "call" /\ UNCHANGED <<waiting, suspended, ready, anyActive, spread, level>>
  BY DEF Dispatch, lists
<1>2. \A t \in Task : /\ task'[t].removeReq = task[t].removeReq /\ task'[t].trigger = task[t].trigger
                      /\ task'[t].awake = task[t].awake
  BY DispatchFields DEF Changes, SameBut, Key
<1>3. Unasked' /\ Cleared' /\ NoneDue'
  BY <1>1, <1>2 DEF Unasked, Cleared, NoneDue
<1>4. Resting'
  BY <1>1, <1>2 DEF Resting
<1>. QED BY <1>3, <1>4

(* A level is done when its list is empty.                                 *)
LEMMA QuietNextLevel == ASSUME ListInv, QuietInv, NextLevel PROVE QuietInv'
<1>. USE DEF QuietInv
<1>1. /\ pc = "dispatch" /\ ready[level] = <<>> /\ anyActive
      /\ UNCHANGED <<waiting, suspended, ready, task, anyActive, spread>>
      /\ \/ level > 0 /\ level' = level - 1 /\ pc' = "dispatch"
         \/ ~(level > 0) /\ pc' = "gather"
  BY DEF NextLevel, lists, notes, Cleared
<1>2. level \in Nat /\ \A p \in Levels : p \in Nat
  BY SchedulerAssumption DEF Levels, ListInv, TaskTypes
<1>3. ASSUME NEW p \in Levels, ready[p] # <<>> PROVE pc' = "dispatch" /\ p <= level'
  <2>1. p <= level /\ p # level
    BY <1>1, <1>3 DEF Cleared
  <2>. QED BY <1>1, <1>2, <2>1
<1>4. Unasked' /\ Cleared' /\ NoneDue'
  BY <1>1, <1>3 DEF Unasked, Cleared, NoneDue
<1>5. Resting'
  BY <1>1 DEF Resting
<1>. QED BY <1>4, <1>5

(* A callback returns.                                                     *)
LEMMA QuietReturn == ASSUME ListInv, QuietInv, Return PROVE QuietInv'
<1>. USE DEF QuietInv
<1>. PICK t : t = Head(ready[level])
  OBVIOUS
<1>1. /\ pc = "call" /\ pc' = "dispatch" /\ waiting' = Append(waiting, t) /\ anyActive
      /\ ready' = [ready EXCEPT ![level] = Tail(ready[level])]
      /\ UNCHANGED <<suspended, anyActive, spread, level>>
  BY DEF Return, notes, Cleared
<1>2. /\ t \in Task /\ \A u \in Task \ {t} : task'[u] = task[u]
      /\ task'[t].trigger = "None" /\ Changes({"trigger"})
      /\ waiting \in Seq(Task) /\ ready \in [Levels -> Seq(Task)] /\ level \in Levels
  BY ReturnFields DEF ListInv, ListTypes, TaskTypes
<1>3. Unasked'
  BY <1>1, <1>2 DEF Unasked, Changes, SameBut, Key
<1>4. ASSUME NEW p \in Levels, ready'[p] # <<>> PROVE p <= level
  <2>1. CASE p = level
    BY <2>1, SchedulerAssumption DEF Levels
  <2>2. CASE p # level
    BY <1>1, <1>2, <1>4, <2>2 DEF Cleared
  <2>. QED BY <2>1, <2>2
<1>5. Cleared' /\ NoneDue'
  BY <1>1, <1>4 DEF Cleared, NoneDue
<1>6. Resting'
  <2>1. \A x : InList(waiting', x) <=> InList(waiting, x) \/ x = t
    BY <1>1, <1>2, InAppend
  <2>. QED BY <1>1, <1>2, <2>1 DEF Resting
<1>. QED BY <1>3, <1>5, <1>6

(* The suspended tasks return.                                             *)
LEMMA QuietGather == ASSUME ListInv, QuietInv, Gather PROVE QuietInv'
<1>. USE DEF QuietInv
<1>1. /\ pc = "gather" /\ pc' \in {"loop", "idle"} /\ suspended' = <<>>
      /\ UNCHANGED <<ready, task, anyActive, spread>>
      /\ \/ waiting' = ByEntry(waiting \o suspended)
         \/ waiting' = waiting
  BY DEF Gather, notes
<1>2. \A p \in Levels : ready[p] = <<>>
  BY <1>1 DEF Cleared
<1>3. Unasked' /\ Cleared' /\ NoneDue'
  BY <1>1, <1>2 DEF Unasked, Cleared, NoneDue
<1>4. waiting \in Seq(Task) /\ suspended \in Seq(Task) /\ waiting \o suspended \in Seq(Task)
      /\ \A t \in Task : task[t].entry \in Int
  BY ConcatProperties, Fields DEF ListInv, ListTypes, TaskTypes
<1>5. \A x : InList(waiting', x) => InList(waiting, x) \/ InList(suspended, x)
  <2>1. \A x : InList(ByEntry(waiting \o suspended), x) => InList(waiting \o suspended, x)
    BY <1>4, InSorted
  <2>2. \A x : InList(waiting \o suspended, x) => InList(waiting, x) \/ InList(suspended, x)
    BY <1>4, InJoin
  <2>. QED BY <1>1, <2>1, <2>2
<1>6. Resting'
  BY <1>1, <1>5, InEmpty DEF Resting
<1>. QED BY <1>3, <1>6

(* Hence it is kept by every step.                                         *)
LEMMA QuietNext == ASSUME ListInv, Quiet, QuietInv, [Next]_vars PROVE QuietInv'
<1>1. CASE ReturnYielded \/ IdleReturn \/ Loop \/ RunAgain \/ UNCHANGED vars
  <2>1. /\ UNCHANGED <<waiting, suspended, ready, task, spread, level, anyActive, Immediate>>
        /\ UNCHANGED pc \/ {pc, pc'} \subseteq {"get", "idle", "loop", "released"}
    BY <1>1 DEF ReturnYielded, IdleReturn, Loop, RunAgain, vars, lists, notes, sched, hist, Immediate
  <2>2. Unasked' /\ Cleared'
    BY <2>1 DEF QuietInv, Unasked, Cleared
  <2>3. Resting'
    BY <2>1 DEF QuietInv, Resting
  <2>4. NoneDue'
    BY <2>1 DEF QuietInv, NoneDue, AlwaysDue, State
  <2>. QED BY <2>2, <2>3, <2>4 DEF QuietInv
<1>2. ~ScanSpread
  BY DEF ScanSpread, QuietInv, Unasked
<1>. QED BY <1>1, <1>2, QuietGet, QuietScan, QuietEndScan, QuietDispatch, QuietNextLevel,
       QuietReturn, QuietGather, QuietByCalls DEF Next, Kernel

(* The application is the same for good.                                   *)
LEMMA AppStays == [Next]_vars => UNCHANGED app
<1>1. Calls => UNCHANGED app
  BY DEF Calls, TaskCalls, NotifySimple, NotifyQueued, Tick, QueueEvent, ConsumeQueue, Spread,
         RemoveTask, YieldToTask, SetEnabled, SetAwake, EventFlagsModify, SetIterations,
         SetPriority, Add, SetTask, SchedulerRelease, hist
<1>2. Kernel => UNCHANGED app
  BY DEF Kernel, GetQueued, ScanTask, ScanSpread, EndScan, Dispatch, NextLevel, ReturnYielded,
         Return, Gather, IdleReturn, Loop, hist
<1>. QED BY <1>1, <1>2 DEF Next, RunAgain, vars, hist

(* The invariant, as a theorem of the specification.                       *)
LEMMA QuietInvariant == Spec => [](Quiet => QuietInv)
<1>1. Init => (Quiet => QuietInv)
  BY QuietInit
<1>2. ListInv /\ (Quiet => QuietInv) /\ [Next]_vars => (Quiet => QuietInv)'
  BY QuietNext, AppStays DEF Quiet, Uses
<1>. QED BY <1>1, <1>2, ListInvariant, PTL DEF Spec

(* The idle task is dispatched only when no task has work: all ready lists *)
(* are empty and no task of the scheduler is always due, in applications   *)
(* that neither spread notifications nor remove tasks (kernel.cpp 233-299, *)
(* 379-415).                                                               *)
THEOREM IdleWhenNothingReady == Spec => IdleOnlyWhenNothingReady
<1>1. ASSUME ListInv, Quiet => QuietInv, [Next]_vars, pc' = "idle", pc # "idle", Quiet,
             NEW t \in Registered
      PROVE  GlobalState(t) # "READY" /\ ~AlwaysDue(t)
  <2>1. Gather /\ ~anyActive
    <3>1. ~Calls
      BY <1>1, CallTypes DEF Stays, Relinks
    <3>. QED BY <1>1, <3>1 DEF Next, Kernel, RunAgain, vars, sched, GetQueued, ScanTask, ScanSpread,
           EndScan, Dispatch, NextLevel, ReturnYielded, Return, Gather, IdleReturn, Loop
  <2>2. /\ pc = "gather" /\ waiting = <<>> /\ \A p \in Levels : ready[p] = <<>>
        /\ \A u \in Task : InList(suspended, u) => ~AlwaysDue(u)
    BY <1>1, <2>1 DEF Gather, QuietInv, Cleared, NoneDue
  <2>3. t \in Task /\ InList(suspended, t)
    BY <2>2, InEmpty DEF Registered, ReadyTasks
  <2>4. GlobalState(t) # "READY"
    BY <2>3 DEF GlobalState
  <2>. QED BY <2>2, <2>3, <2>4
<1>2. ListInv /\ (Quiet => QuietInv) /\ [Next]_vars =>
        [pc' = "idle" /\ pc # "idle" /\ Uses \cap {"spread", "remove"} = {}
           => \A t \in Registered : GlobalState(t) # "READY" /\ ~AlwaysDue(t)]_vars
  BY <1>1 DEF Quiet
<1>. QED BY <1>2, ListInvariant, QuietInvariant, PTL DEF Spec, IdleOnlyWhenNothingReady

-----------------------------------------------------------------------------
(* Queued notifications.                                                   *)

(* B orders S totally; a finite set has a first element in such an order.  *)
Orders(B, S) ==
  /\ \A i, j \in S : <<i, j>> \in B \/ <<j, i>> \in B
  /\ \A i, j \in S : <<i, j>> \in B /\ <<j, i>> \in B => i = j
  /\ \A i, j, k \in S : <<i, j>> \in B /\ <<j, k>> \in B => <<i, k>> \in B

LEMMA FirstOfFinite ==
  ASSUME NEW S, IsFiniteSet(S), S # {}, NEW B, Orders(B, S)
  PROVE  \E i \in S : \A j \in S : <<i, j>> \in B
<1>. DEFINE n == Cardinality(S)
            Upto(j) == {i \in S : <<i, j>> \in B}
            r == [j \in S |-> Cardinality(Upto(j))]
<1>1. n \in Nat /\ n # 0
  BY FS_CardinalityType, FS_EmptySet
<1>2. \A j \in S : /\ Upto(j) \in SUBSET S /\ IsFiniteSet(Upto(j)) /\ j \in Upto(j)
                   /\ Cardinality(Upto(j)) \in 1 .. n
  <2>. SUFFICES ASSUME NEW j \in S
                PROVE  /\ Upto(j) \in SUBSET S /\ IsFiniteSet(Upto(j)) /\ j \in Upto(j)
                       /\ Cardinality(Upto(j)) \in 1 .. n
    OBVIOUS
  <2>1. Upto(j) \in SUBSET S /\ j \in Upto(j)
    BY DEF Orders
  <2>2. IsFiniteSet(Upto(j)) /\ Cardinality(Upto(j)) <= n
    BY <2>1, FS_Subset
  <2>3. Cardinality(Upto(j)) \in Nat /\ Cardinality(Upto(j)) # 0
    BY <2>1, <2>2, FS_CardinalityType, FS_EmptySet
  <2>. QED BY <2>1, <2>2, <2>3, <1>1
<1>3. r \in [S -> 1 .. n] /\ \A j \in S : r[j] = Cardinality(Upto(j))
  BY <1>2
<1>4. ASSUME NEW j \in S, NEW k \in S, r[j] = r[k] PROVE j = k
  <2>1. Upto(j) \subseteq Upto(k) \/ Upto(k) \subseteq Upto(j)
    BY DEF Orders
  <2>2. Upto(j) = Upto(k)
    BY <2>1, <1>2, <1>3, <1>4, FS_Subset
  <2>3. <<j, k>> \in B /\ <<k, j>> \in B
    BY <2>2, <1>2
  <2>. QED BY <2>3 DEF Orders
<1>5. \E i \in S : r[i] = 1
  <2>1. r \in Injection(S, 1 .. n)
    BY <1>3, <1>4 DEF Injection, IsInjective
  <2>2. IsFiniteSet(1 .. n) /\ Cardinality(1 .. n) = n
    BY <1>1, FS_Interval
  <2>3. r \in Surjection(S, 1 .. n)
    BY <2>1, <2>2, FS_Injection
  <2>4. 1 \in 1 .. n
    BY <1>1
  <2>. QED BY <2>3, <2>4 DEF Surjection
<1>6. PICK i \in S : Cardinality(Upto(i)) = 1
  BY <1>3, <1>5
<1>7. PICK x : Upto(i) = {x}
  BY <1>2, <1>6, FS_Singleton
<1>8. Upto(i) = {i}
  BY <1>2, <1>7
<1>9. \A j \in S : <<i, j>> \in B
  BY <1>8 DEF Orders
<1>. QED BY <1>9

(* get() extracts an entry: the cell it chooses is filled.                 *)
LEMMA ChosenFilled ==
  ASSUME NEW q, q.stack \in [Cells -> Entry \cup {NoEntry}], q.stack[0] # NoEntry,
         NEW prio \in [Task -> Int]
  PROVE  /\ Chosen(q, prio) \in Cells /\ q.stack[Chosen(q, prio)] \in Entry
<1>. DEFINE S == Scanned(q)
            P(i) == prio[q.stack[i][1]]
            first(i, j) == P(j) < P(i) \/ (P(j) = P(i) /\ i <= j)
            B == {e \in S \X S : first(e[1], e[2])}
<1>1. 0 \in S /\ S \subseteq Cells /\ Cells \subseteq Nat
  BY PrioQueueAssumption DEF Scanned, Cells
<1>2. \A i \in S : q.stack[i] \in Entry
  <2>. SUFFICES ASSUME NEW i \in S PROVE q.stack[i] \in Entry
    OBVIOUS
  <2>1. i \in Nat /\ i \in Cells /\ \A j \in 1 .. i : q.stack[j] # NoEntry
    BY <1>1 DEF Scanned
  <2>2. q.stack[i] # NoEntry
    BY <2>1
  <2>. QED BY <2>1, <2>2
<1>3. \A i \in S : P(i) \in Int /\ i \in Int
  <2>. SUFFICES ASSUME NEW i \in S PROVE P(i) \in Int /\ i \in Int
    OBVIOUS
  <2>1. q.stack[i][1] \in Task
    BY <1>2 DEF Entry
  <2>2. i \in Int
    BY <1>1 DEF Scanned
  <2>. QED BY <2>1, <2>2
<1>4. IsFiniteSet(S)
  <2>1. IsFiniteSet(Cells)
    BY PrioQueueAssumption, FS_Interval DEF Cells
  <2>. QED BY <1>1, <2>1, FS_Subset
<1>. HIDE DEF P, S
<1>5. \A i, j \in S : <<i, j>> \in B <=> first(i, j)
  OBVIOUS
<1>6. Orders(B, S)
  BY <1>3, <1>5 DEF Orders
<1>. HIDE DEF B
<1>7. \E i \in S : \A j \in S : first(i, j)
  BY <1>1, <1>4, <1>5, <1>6, FirstOfFinite
<1>8. Chosen(q, prio) = CHOOSE i \in S : \A j \in S : first(i, j)
  BY DEF Chosen, P, S
<1>9. Chosen(q, prio) \in S
  BY <1>7, <1>8
<1>. QED BY <1>1, <1>2, <1>9

(* The tasks whose queued notification was extracted and not delivered.    *)
Holds(t) == t \in Registered /\ task[t].trigger = "Queued"

(* The data extracted last is that of the one task that waits for it.      *)
DataKept ==
  /\ \A t, u \in Task : Holds(t) /\ Holds(u) => t = u
  /\ \A t \in Task : Holds(t) /\ ~BeingCalled(t) => pqData = claim[t] /\ claim[t] # None
Filled(q) == q.stack \in [Cells -> Entry \cup {NoEntry}] /\ q.index \in -1 .. Size - 1
QueueTypes ==
  /\ Filled(pq)
  /\ claim \in [Task -> Data \cup {None}]
QueuedInv == QueueTypes /\ DataKept

(* Nothing was extracted at the start.                                     *)
LEMMA QueuedInit == Init => QueuedInv
<1>. SUFFICES ASSUME Init PROVE QueuedInv
  OBVIOUS
<1>1. QuietInv /\ suspended = <<>> /\ pc = "get" /\ ready = [p \in Levels |-> <<>>]
  BY QuietInit DEF Init
<1>2. \A t \in Task : ~Holds(t)
  BY <1>1, InEmpty DEF Holds, Registered, ReadyTasks, QuietInv, Resting
<1>3. QueueTypes
  BY PrioQueueAssumption DEF Init, Empty, QueueTypes, Filled, Cells
<1>. QED BY <1>2, <1>3 DEF QueuedInv, DataKept

(* No task enters the scheduler.                                           *)
LEMMA NoneEnters ==
  ASSUME ListInv, Quiet, QuietInv, [Next]_vars
  PROVE  Registered' \subseteq Registered
<1>. USE DEF ListInv, ListTypes
<1>1. CASE UNCHANGED lists
  BY <1>1 DEF lists, Registered, ReadyTasks
<1>2. CASE ScanTask
  <2>1. PICK u : u = Head(waiting)
    OBVIOUS
  <2>2. /\ u \in Task /\ waiting # <<>> /\ waiting' = Tail(waiting) /\ task[u].prio \in Levels
        /\ \/ suspended' = suspended /\ ready' = [ready EXCEPT ![task[u].prio] = Append(ready[task[u].prio], u)]
           \/ suspended' = Append(suspended, u) /\ ready' = ready
    BY <1>2, <2>1, ScanMoves, Fields DEF QuietInv, TaskTypes
  <2>3. \A x : InList(waiting, x) <=> x = u \/ InList(waiting', x)
    BY <2>1, <2>2, InTail
  <2>4. \A x : InList(suspended', x) => InList(suspended, x) \/ x = u
    BY <2>2, InAppend
  <2>5. \A p \in Levels : \A x : InList(ready'[p], x) => InList(ready[p], x) \/ x = u
    <3>1. ready[task[u].prio] \in Seq(Task)
      BY <2>2
    <3>2. \A x : InList(Append(ready[task[u].prio], u), x) => InList(ready[task[u].prio], x) \/ x = u
      BY <2>2, <3>1, InAppend
    <3>. QED BY <2>2, <3>2
  <2>. QED BY <2>2, <2>3, <2>4, <2>5 DEF Registered, ReadyTasks
<1>3. CASE Return
  <2>1. PICK u : u = Head(ready[level])
    OBVIOUS
  <2>2. /\ u \in Task /\ ready[level] # <<>> /\ ready[level] \in Seq(Task) /\ level \in Levels
        /\ waiting' = Append(waiting, u) /\ ready' = [ready EXCEPT ![level] = Tail(ready[level])]
        /\ UNCHANGED suspended
    BY <1>3, <2>1, ReturnFields DEF Return, Called, TaskTypes
  <2>3. \A x : InList(waiting', x) <=> InList(waiting, x) \/ x = u
    BY <2>2, InAppend
  <2>4. \A x : InList(ready[level], x) <=> x = u \/ InList(Tail(ready[level]), x)
    BY <2>1, <2>2, InTail
  <2>5. \A p \in Levels : \A x : InList(ready'[p], x) => InList(ready[p], x)
    BY <2>2, <2>4
  <2>. QED BY <2>2, <2>3, <2>4, <2>5 DEF Registered, ReadyTasks
<1>4. CASE Gather
  <2>1. /\ waiting' = ByEntry(waiting \o suspended) \/ UNCHANGED waiting
        /\ suspended' = <<>> /\ UNCHANGED ready
    BY <1>4 DEF Gather
  <2>2. waiting \in Seq(Task) /\ suspended \in Seq(Task) /\ waiting \o suspended \in Seq(Task)
        /\ \A t \in Task : task[t].entry \in Int
    BY ConcatProperties, Fields DEF TaskTypes
  <2>3. \A x : InList(waiting', x) => InList(waiting, x) \/ InList(suspended, x)
    <3>1. \A x : InList(ByEntry(waiting \o suspended), x) => InList(waiting \o suspended, x)
      BY <2>2, InSorted
    <3>2. \A x : InList(waiting \o suspended, x) => InList(waiting, x) \/ InList(suspended, x)
      BY <2>2, InJoin
    <3>. QED BY <2>1, <3>1, <3>2
  <2>. QED BY <2>1, <2>3, InEmpty DEF Registered, ReadyTasks
<1>5. CASE Calls
  BY <1>5, QuietCalls DEF Registered, ReadyTasks
<1>. QED BY <1>1, <1>2, <1>3, <1>4, <1>5 DEF Next, Kernel, GetQueued, ScanSpread, EndScan, Dispatch,
       NextLevel, ReturnYielded, IdleReturn, Loop, RunAgain, vars

(* An extraction finds no other one that waits for its launch.             *)
LEMMA QueuedGet ==
  ASSUME ListInv, QuietInv, QueuedInv, GetQueued, Registered' \subseteq Registered
  PROVE  QueuedInv'
<1>1. /\ pc = "get" /\ pc' = "scan" /\ suspended = <<>> /\ ReadyTasks = {}
  BY InEmpty DEF GetQueued, QuietInv, Cleared, ReadyTasks
<1>2. \A t \in Registered : task[t].trigger = "None"
  BY <1>1, InEmpty DEF Registered, QuietInv, Resting
<1>3. CASE UNCHANGED <<task, pqData, pq, claim>>
  BY <1>1, <1>2, <1>3 DEF QueuedInv, QueueTypes, DataKept, Holds
<1>4. ASSUME NEW t, NEW c, c = Chosen(pq, Prio), \A u \in Task \ {t} : task'[u] = task[u],
             hasElements(pq), pq.stack[0] # NoEntry, t = pq.stack[c][1], pqData' = pq.stack[c][2],
             pq' = clearIndex(pq, c), claim' = [claim EXCEPT ![t] = pqData']
      PROVE  QueuedInv'
  <2>1. Prio \in [Task -> Int]
    BY SchedulerAssumption DEF Prio, ListInv, TaskTypes, TaskState, Levels
  <2>2. pq.stack[c] \in Entry /\ c \in Cells
    BY <1>4, <2>1, ChosenFilled DEF QueuedInv, QueueTypes, Filled
  <2>3. t \in Task /\ pqData' \in Data /\ pqData' # None
    BY <1>4, <2>2, SchedulerAssumption DEF Entry
  <2>4. Filled(pq')
    <3>1. /\ pq.stack \in [Cells -> Entry \cup {NoEntry}] /\ pq.index \in 0 .. Size - 1
          /\ pq' = clearIndex(pq, c)
      BY <1>4 DEF QueuedInv, QueueTypes, Filled, hasElements
    <3>2. \A j \in Cells : c <= j /\ j < pq.index => j + 1 \in Cells
      BY <3>1, PrioQueueAssumption DEF Cells
    <3>3. pq'.index \in -1 .. Size - 1
      BY <3>1, PrioQueueAssumption DEF clearIndex
    <3>. QED BY <3>1, <3>2, <3>3 DEF clearIndex, Filled
  <2>5. \A u \in Task : Holds(u)' => u = t
    BY <1>2, <1>4 DEF Holds
  <2>6. claim'[t] = pqData' /\ claim' \in [Task -> Data \cup {None}]
    BY <1>4, <2>3 DEF QueuedInv, QueueTypes
  <2>. QED BY <2>3, <2>4, <2>5, <2>6 DEF QueuedInv, QueueTypes, DataKept
<1>. QED BY <1>3, <1>4, GetFields

(* Steps that extract nothing and deliver nothing.                         *)
LEMMA QueuedStays ==
  ASSUME QueuedInv, UNCHANGED <<pqData, claim>>, Filled(pq'),
         Registered' \subseteq Registered,
         \A t \in Registered : task'[t].trigger = "Queued" =>
            task[t].trigger = "Queued" /\ (BeingCalled(t) => BeingCalled(t)')
  PROVE  QueuedInv'
<1>1. \A t \in Task : Holds(t)' => Holds(t) /\ (BeingCalled(t) => BeingCalled(t)')
  BY DEF Holds
<1>. QED BY <1>1 DEF QueuedInv, QueueTypes, DataKept

(* A launch delivers the one that waits, or leaves it alone.               *)
LEMMA QueuedDispatch ==
  ASSUME ListInv, QueuedInv, Dispatch, Registered' \subseteq Registered
  PROVE  QueuedInv'
<1>. PICK t : t = Head(ready[level])
  OBVIOUS
<1>1. /\ pc = "dispatch" /\ pc' = "call" /\ UNCHANGED <<pq, ready, level>>
      /\ task[t].trigger = "Queued" \/ UNCHANGED <<pqData, claim>>
      /\ UNCHANGED claim \/ claim' = [claim EXCEPT ![t] = None]
  BY DEF Dispatch, lists
<1>2. /\ t \in Task /\ \A u \in Task : task'[u].trigger = task[u].trigger
      /\ InList(ready[level], t) /\ level \in Levels
  BY DispatchFields, TailElements DEF Dispatch, InList, ListInv, ListTypes, TaskTypes, Changes, SameBut, Key
<1>3. t \in Registered
  BY <1>2 DEF Registered, ReadyTasks
<1>4. QueueTypes'
  BY <1>1 DEF QueuedInv, QueueTypes
<1>5. \A u \in Task : Holds(u)' => Holds(u)
  BY <1>2 DEF Holds
<1>6. ASSUME NEW u \in Task, Holds(u)', ~BeingCalled(u)' PROVE pqData' = claim'[u] /\ claim'[u] # None
  <2>1. u # t
    BY <1>1, <1>6 DEF BeingCalled
  <2>2. Holds(u) /\ ~Holds(t)
    BY <1>2, <1>5, <1>6, <2>1 DEF QueuedInv, DataKept
  <2>3. UNCHANGED <<pqData, claim>>
    BY <1>1, <1>3, <2>2 DEF Holds
  <2>. QED BY <1>1, <2>2, <2>3 DEF QueuedInv, DataKept, BeingCalled
<1>. QED BY <1>4, <1>5, <1>6 DEF QueuedInv, DataKept

(* Hence the data is kept by every step.                                   *)
LEMMA QueuedNext ==
  ASSUME ListInv, Quiet, QuietInv, QueuedInv, [Next]_vars
  PROVE  QueuedInv'
<1>0. Registered' \subseteq Registered /\ \A t \in Registered : t \in Task
  BY NoneEnters DEF Registered, ReadyTasks
<1>1. CASE ScanTask
  <2>1. PICK u : u = Head(waiting)
    OBVIOUS
  <2>2. /\ task'[u].trigger = TriggerOf(u) /\ \A t \in Task \ {u} : task'[t] = task[t]
        /\ UNCHANGED <<pq, pqData, claim>> /\ pc = "scan"
    BY <1>1, <2>1, ScanMoves DEF QuietInv
  <2>3. TriggerOf(u) = "Queued" => task[u].trigger = "Queued"
    BY DEF TriggerOf
  <2>. QED BY <1>0, <2>2, <2>3, QueuedStays DEF QueuedInv, QueueTypes, BeingCalled
<1>2. CASE Return
  <2>1. /\ UNCHANGED <<pq, pqData, claim>>
        /\ \A t \in Task : /\ task'[t].trigger = task[t].trigger \/ task'[t].trigger = "None"
                           /\ BeingCalled(t) => task'[t].trigger = "None"
    BY <1>2, ReturnFields DEF Return, notes, BeingCalled, Changes, SameBut, Key
  <2>. QED BY <1>0, <2>1, QueuedStays DEF QueuedInv, QueueTypes
<1>3. CASE EndScan \/ NextLevel \/ ReturnYielded \/ Gather \/ IdleReturn \/ Loop \/ RunAgain \/ UNCHANGED vars
  <2>1. UNCHANGED <<pq, pqData, claim, task>> /\ (pc # "call" \/ UNCHANGED <<pc, ready, level>>)
    BY <1>3 DEF EndScan, NextLevel, ReturnYielded, Gather, IdleReturn, Loop, RunAgain, vars, notes, lists, sched
  <2>. QED BY <1>0, <2>1, QueuedStays DEF QueuedInv, QueueTypes, BeingCalled
<1>4. CASE Calls
  <2>1. /\ UNCHANGED <<pc, ready, level, pqData, claim>>
        /\ \A t \in Task : task'[t].trigger = task[t].trigger
        /\ UNCHANGED pq \/ \E t \in app.tasks, d \in app.data : pq' = insert(pq, <<t, d>>)
    BY <1>4, QuietCalls DEF Changes, SameBut, Key
  <2>2. app.tasks \subseteq Task /\ app.data \subseteq Data
    BY AppFacts DEF ListInv, TaskTypes
  <2>3. ASSUME NEW e \in Entry PROVE Filled(insert(pq, e))
    <3>1. pq.stack \in [Cells -> Entry \cup {NoEntry}] /\ pq.index \in -1 .. Size - 1 /\ Size \in Nat
      BY PrioQueueAssumption DEF QueuedInv, QueueTypes, Filled
    <3>2. CASE hasRoom(pq)
      <4>1. /\ insert(pq, e).stack \in [Cells -> Entry \cup {NoEntry}]
            /\ insert(pq, e).index = pq.index + 1
        BY <3>1, <3>2 DEF insert
      <4>2. pq.index + 1 \in -1 .. Size - 1
        BY <3>1, <3>2 DEF hasRoom
      <4>. QED BY <4>1, <4>2 DEF Filled
    <3>3. CASE ~hasRoom(pq)
      BY <3>3 DEF insert, QueuedInv, QueueTypes
    <3>. QED BY <3>2, <3>3
  <2>4. Filled(pq')
    BY <2>1, <2>2, <2>3 DEF QueuedInv, QueueTypes, Entry
  <2>. QED BY <1>0, <2>1, <2>4, QueuedStays DEF BeingCalled
<1>5. ~ScanSpread
  BY DEF ScanSpread, QuietInv, Unasked
<1>. QED BY <1>0, <1>1, <1>2, <1>3, <1>4, <1>5, QueuedGet, QueuedDispatch DEF Next, Kernel

(* The invariant, as a theorem of the specification.                       *)
LEMMA QueuedInvariant == Spec => [](Quiet => QueuedInv)
<1>1. Init => (Quiet => QueuedInv)
  BY QueuedInit
<1>2. ListInv /\ (Quiet => QuietInv) /\ (Quiet => QueuedInv) /\ [Next]_vars => (Quiet => QueuedInv)'
  BY QueuedNext, AppStays DEF Quiet, Uses
<1>. QED BY <1>1, <1>2, ListInvariant, QuietInvariant, PTL DEF Spec

(* A task launched by a queued notification gets the data of that very     *)
(* notification, although it is extracted before the scan, delivered       *)
(* after it and kept in one variable meanwhile (kernel.cpp 233-240,        *)
(* 330-354), in applications that neither spread nor remove tasks.         *)
THEOREM QueuedDataDelivered == Spec => QueuedDataIntact
<1>1. ASSUME ListInv, Quiet => QueuedInv, [Next]_vars, NEW t \in Task, Starts(t),
             event'.trigger = "Queued", Quiet
      PROVE  event'.data = claim[t] /\ claim[t] # None
  <2>1. Dispatch /\ t = Head(ready[level]) /\ pc = "dispatch"
    BY <1>1, OnlyDispatchStarts DEF Dispatch
  <2>2. task[t].trigger = "Queued" /\ event'.data = pqData
    BY <1>1, <2>1 DEF Dispatch, EventFor
  <2>3. InList(ready[level], t) /\ level \in Levels
    BY <1>1, <2>1, TailElements DEF Dispatch, InList, ListInv, ListTypes, TaskTypes
  <2>4. Holds(t) /\ ~BeingCalled(t)
    BY <2>1, <2>2, <2>3 DEF Holds, BeingCalled, Registered, ReadyTasks
  <2>. QED BY <1>1, <2>2, <2>4 DEF QueuedInv, DataKept
<1>2. ListInv /\ (Quiet => QueuedInv) /\ [Next]_vars =>
        [\A t \in Task : Starts(t) /\ event'.trigger = "Queued"
            /\ Uses \cap {"spread", "remove"} = {}
           => event'.data = claim[t] /\ claim[t] # None]_vars
  BY <1>1 DEF Quiet
<1>. QED BY <1>2, ListInvariant, QueuedInvariant, PTL DEF Spec, QueuedDataIntact

-----------------------------------------------------------------------------
(* The order of launches.                                                  *)

(* Applications that fix the priorities and the set of tasks before run()  *)
(* and make no spreads.                                                    *)
Fixed == Uses \cap {"spread", "priority", "remove"} = {}

(* What the order depends on; k is such a table below.                     *)
Keys == [t \in Task |-> [prio |-> task[t].prio, entry |-> task[t].entry]]
Later(k, t, u) == k[t].prio = k[u].prio => k[t].entry < k[u].entry
InOrder(k, q) == \A i, j \in DOMAIN q : i < j => Later(k, q[i], q[j])
Ahead(k, q, r) == \A t, u \in Task : InList(q, t) /\ InList(r, u) => Later(k, t, u)

(* While the scan lasts, what is ready came before what is waiting; while  *)
(* tasks are dispatched, what went back to waiting came before what is     *)
(* still ready.                                                            *)
OrderInv ==
  /\ \A t, u \in Registered : Keys[t].entry = Keys[u].entry => t = u
  /\ InOrder(Keys, waiting)
  /\ \A p \in Levels : /\ InOrder(Keys, ready[p])
                       /\ \A t \in Task : InList(ready[p], t) => Keys[t].prio = p
  /\ pc = "scan" => \A p \in Levels : Ahead(Keys, ready[p], waiting)
  /\ pc \in {"dispatch", "call"} => \A p \in Levels : Ahead(Keys, waiting, ready[p])

(* A list in order stays so when its head leaves, or one that comes later  *)
(* than all is put at its end.                                             *)
LEMMA TailInOrder ==
  ASSUME NEW k, NEW q \in Seq(Task), q # <<>>, InOrder(k, q)
  PROVE  InOrder(k, Tail(q)) /\ \A t \in Task : InList(Tail(q), t) => Later(k, Head(q), t)
<1>1. /\ \A i \in DOMAIN Tail(q) : i + 1 \in DOMAIN q /\ Tail(q)[i] = q[i + 1] /\ i \in Nat \ {0}
      /\ Head(q) = q[1] /\ 1 \in DOMAIN q
  BY TailElements, LenProperties
<1>2. \A i, j \in DOMAIN Tail(q) : i < j => i + 1 < j + 1
  BY <1>1
<1>3. InOrder(k, Tail(q))
  BY <1>1, <1>2 DEF InOrder
<1>4. \A i \in DOMAIN Tail(q) : 1 < i + 1
  BY <1>1
<1>5. \A i \in DOMAIN Tail(q) : Later(k, Head(q), Tail(q)[i])
  BY <1>1, <1>4 DEF InOrder
<1>. QED BY <1>3, <1>5 DEF InList

LEMMA AppendInOrder ==
  ASSUME NEW k, NEW q \in Seq(Task), NEW x \in Task, InOrder(k, q),
         \A t \in Task : InList(q, t) => Later(k, t, x)
  PROVE  InOrder(k, Append(q, x))
<1>1. /\ DOMAIN Append(q, x) = DOMAIN q \cup {Len(q) + 1} /\ Append(q, x)[Len(q) + 1] = x
      /\ \A i \in DOMAIN q : Append(q, x)[i] = q[i] /\ q[i] \in Task /\ i < Len(q) + 1
      /\ DOMAIN q \subseteq Nat /\ Len(q) \in Nat
  BY AppendElements, LenProperties, ElementOfSeq
<1>2. \A i \in DOMAIN q : Later(k, q[i], x)
  BY <1>1 DEF InList
<1>. SUFFICES ASSUME NEW i \in DOMAIN Append(q, x), NEW j \in DOMAIN Append(q, x), i < j
              PROVE  Later(k, Append(q, x)[i], Append(q, x)[j])
  BY DEF InOrder
<1>3. i \in DOMAIN q
  BY <1>1
<1>4. CASE j \in DOMAIN q
  BY <1>1, <1>3, <1>4 DEF InOrder
<1>5. CASE j = Len(q) + 1
  BY <1>1, <1>2, <1>3, <1>5
<1>. QED BY <1>1, <1>4, <1>5

(* Sorted lists ascend.                                                    *)
LEMMA SortAscends ==
  ASSUME NEW q \in Seq(Task), \A t \in Task : task[t].entry \in Int,
         NEW i \in DOMAIN ByEntry(q), NEW j \in DOMAIN ByEntry(q), i < j
  PROVE  task[ByEntry(q)[i]].entry <= task[ByEntry(q)[j]].entry
<1>. DEFINE Upto(l) == {m \in DOMAIN q : Before(q, m, l)}
<1>1. PICK f \in [DOMAIN q -> DOMAIN q] :
        /\ ByEntry(q) = [k \in DOMAIN q |-> q[f[k]]]
        /\ \A k, l \in DOMAIN q : f[k] = f[l] => k = l
        /\ \A l \in DOMAIN q : \E k \in DOMAIN q : f[k] = l
        /\ \A k \in DOMAIN q : Rank(q, f[k]) = k
  BY SortPlaces
<1>2. /\ i \in DOMAIN q /\ j \in DOMAIN q /\ f[i] \in DOMAIN q /\ f[j] \in DOMAIN q
      /\ ByEntry(q)[i] = q[f[i]] /\ ByEntry(q)[j] = q[f[j]]
      /\ Cardinality(Upto(f[i])) = i /\ Cardinality(Upto(f[j])) = j
  BY <1>1 DEF Rank
<1>3. \A m \in DOMAIN q : task[q[m]].entry \in Int /\ m \in Int
  BY LenProperties, ElementOfSeq
<1>. SUFFICES ASSUME task[q[f[j]]].entry < task[q[f[i]]].entry PROVE FALSE
  BY <1>2, <1>3
<1>4. Upto(f[j]) \in SUBSET Upto(f[i])
  BY <1>2, <1>3 DEF Before
<1>5. IsFiniteSet(Upto(f[i]))
  <2>1. IsFiniteSet(DOMAIN q)
    BY LenProperties, FS_Interval
  <2>2. Upto(f[i]) \in SUBSET DOMAIN q
    OBVIOUS
  <2>. QED BY <2>1, <2>2, FS_Subset
<1>6. Cardinality(Upto(f[j])) <= Cardinality(Upto(f[i]))
  BY <1>4, <1>5, FS_Subset
<1>. QED BY <1>2, <1>3, <1>6

(* main() adds the tasks in the order of their identifiers.                *)
LEMMA OrderInit == Init => OrderInv
<1>. SUFFICES ASSUME Init PROVE OrderInv
  OBVIOUS
<1>. DEFINE added(t) == \E i \in DOMAIN app.order : app.order[i] = t
            id(t) == CHOOSE i \in DOMAIN app.order : app.order[i] = t
<1>1. /\ app \in Applications /\ waiting = app.order /\ suspended = <<>> /\ pc = "get"
      /\ ready = [p \in Levels |-> <<>>]
  BY DEF Init
<1>2. /\ app.order \in Seq(Task) /\ \A i \in DOMAIN app.order : app.order[i] \in Task /\ i \in Int
      /\ \A i, j \in DOMAIN app.order : app.order[i] = app.order[j] => i = j
  BY <1>1, AppFacts, LenProperties, ElementOfSeq
<1>3. PICK prios \in [app.tasks -> app.levels], n \in app.iterations :
        task = [t \in Task |-> IF added(t) THEN NewTask(prios[t], n, "time" \in Uses, id(t))
                               ELSE NewTask(0, Periodic, FALSE, Unregistered)]
  BY DEF Init
<1>4. ASSUME NEW t \in Task, added(t) PROVE Keys[t].entry = id(t)
  <2>1. task[t] = NewTask(prios[t], n, "time" \in Uses, id(t))
    BY <1>3, <1>4
  <2>2. \A p, m, on, e : NewTask(p, m, on, e).entry = e
    BY DEF NewTask
  <2>3. task[t].entry = id(t)
    BY <2>1, <2>2
  <2>. QED BY <2>3 DEF Keys
<1>5. \A i \in DOMAIN app.order : added(app.order[i]) /\ id(app.order[i]) = i
  BY <1>2
<1>. HIDE DEF added, id
<1>6. \A i \in DOMAIN app.order : Keys[app.order[i]].entry = i
  BY <1>2, <1>4, <1>5
<1>7. InOrder(Keys, waiting)
  BY <1>1, <1>6 DEF InOrder, Later
<1>8. \A t \in Registered : \E i \in DOMAIN app.order : app.order[i] = t
  BY <1>1, InEmpty DEF Registered, ReadyTasks, InList
<1>9. \A t, u \in Registered : Keys[t].entry = Keys[u].entry => t = u
  BY <1>6, <1>8
<1>10. \A p \in Levels : InOrder(Keys, ready[p]) /\ \A t \in Task : ~InList(ready[p], t)
  BY <1>1, EmptySeq, LenProperties, InEmpty DEF InOrder
<1>. QED BY <1>1, <1>7, <1>9, <1>10 DEF OrderInv

(* Nothing changes the keys.                                               *)
LEMMA KeysStay ==
  ASSUME ListInv, Fixed, QuietInv, [Next]_vars
  PROVE  Keys' = Keys
<1>1. CASE UNCHANGED task
  BY <1>1 DEF Keys
<1>2. CASE GetQueued \/ ScanTask \/ Dispatch \/ Return \/ Calls
  <2>1. CASE GetQueued
    BY <2>1, GetFields DEF Changes, SameBut, Key, Keys
  <2>2. CASE ScanTask
    <3>1. PICK u : u = Head(waiting)
      OBVIOUS
    <3>2. /\ u \in Task /\ SameBut(task'[u], task[u], {"trigger"}) /\ \A t \in Task \ {u} : task'[t] = task[t]
      BY <2>2, <3>1, ScanMoves DEF QuietInv
    <3>3. \A t \in Task : task'[t].prio = task[t].prio /\ task'[t].entry = task[t].entry
      BY <3>2 DEF SameBut, Key
    <3>. QED BY <3>3 DEF Keys
  <2>3. CASE Dispatch
    BY <2>3, DispatchFields DEF Changes, SameBut, Key, Keys
  <2>4. CASE Return
    BY <2>4, ReturnFields DEF Changes, SameBut, Key, Keys
  <2>5. CASE Calls
    <3>1. "priority" \notin Uses /\ "remove" \notin Uses
      BY DEF Fixed
    <3>2. \A t \in Task : task'[t].prio = task[t].prio /\ task'[t].entry = task[t].entry
      BY <2>5, <3>1, CallFields DEF CallEffect, Changes, SameBut, Key
    <3>. QED BY <3>2 DEF Keys
  <2>. QED BY <1>2, <2>1, <2>2, <2>3, <2>4, <2>5
<1>3. ~ScanSpread
  BY DEF ScanSpread, QuietInv, Unasked
<1>. QED BY <1>1, <1>2, <1>3 DEF Next, Kernel, EndScan, NextLevel, ReturnYielded, Gather, IdleReturn,
       Loop, RunAgain, vars

(* The scan moves the tasks to their ready lists in the order they wait    *)
(* in.                                                                     *)
LEMMA OrderScan ==
  ASSUME ListInv, QuietInv, OrderInv, ScanTask, Keys' = Keys, Registered' \subseteq Registered
  PROVE  OrderInv'
<1>. PICK u : u = Head(waiting)
  OBVIOUS
<1>. PICK p : p = Keys[u].prio
  OBVIOUS
<1>. PICK k : k = Keys
  OBVIOUS
<1>1. /\ u \in Task /\ waiting # <<>> /\ waiting' = Tail(waiting) /\ waiting \in Seq(Task)
      /\ ready \in [Levels -> Seq(Task)] /\ p \in Levels /\ k' = k
      /\ pc = "scan" /\ pc' = "scan"
      /\ UNCHANGED ready \/ ready' = [ready EXCEPT ![p] = Append(ready[p], u)]
  BY ScanMoves, Fields DEF ListInv, ListTypes, TaskTypes, QuietInv, Keys
<1>2. /\ InOrder(k, Tail(waiting)) /\ \A t \in Task : InList(Tail(waiting), t) => Later(k, u, t)
      /\ \A x : InList(waiting, x) <=> x = u \/ InList(Tail(waiting), x)
  BY <1>1, TailInOrder, InTail DEF OrderInv
<1>3. \A q \in Levels : Ahead(k, ready[q], waiting)
  BY <1>1 DEF OrderInv
<1>4. ASSUME NEW q \in Levels
      PROVE  /\ InOrder(k, ready'[q])
             /\ \A t \in Task : InList(ready'[q], t) => k[t].prio = q
             /\ Ahead(k, ready'[q], waiting')
  <2>1. /\ InOrder(k, ready[q]) /\ Ahead(k, ready[q], waiting) /\ ready[q] \in Seq(Task)
        /\ \A t \in Task : InList(ready[q], t) => k[t].prio = q
    BY <1>1, <1>3 DEF OrderInv
  <2>2. Ahead(k, ready[q], Tail(waiting))
    BY <1>2, <2>1 DEF Ahead
  <2>3. CASE ready'[q] = ready[q]
    BY <1>1, <2>1, <2>2, <2>3
  <2>4. CASE q = p /\ ready'[q] = Append(ready[q], u)
    <3>1. \A t \in Task : InList(ready[q], t) => Later(k, t, u)
      BY <1>1, <1>2, <2>1 DEF Ahead
    <3>2. InOrder(k, Append(ready[q], u))
      BY <1>1, <2>1, <3>1, AppendInOrder
    <3>3. \A x : InList(Append(ready[q], u), x) <=> InList(ready[q], x) \/ x = u
      BY <1>1, <2>1, InAppend
    <3>4. Ahead(k, Append(ready[q], u), Tail(waiting))
      BY <1>2, <2>2, <3>3 DEF Ahead
    <3>. QED BY <1>1, <2>1, <2>4, <3>2, <3>3, <3>4
  <2>. QED BY <1>1, <2>3, <2>4
<1>5. InOrder(k, waiting') /\ \A t, v \in Registered' : k[t].entry = k[v].entry => t = v
  BY <1>1, <1>2 DEF OrderInv
<1>. QED BY <1>1, <1>4, <1>5 DEF OrderInv

(* A task that ran goes behind those that ran before it.                   *)
LEMMA OrderReturn ==
  ASSUME ListInv, OrderInv, Return, Keys' = Keys, Registered' \subseteq Registered
  PROVE  OrderInv'
<1>. PICK u : u = Head(ready[level])
  OBVIOUS
<1>. PICK k : k = Keys
  OBVIOUS
<1>1. /\ u \in Task /\ ready[level] # <<>> /\ ready[level] \in Seq(Task) /\ waiting \in Seq(Task)
      /\ ready \in [Levels -> Seq(Task)] /\ level \in Levels
      /\ waiting' = Append(waiting, u) /\ ready' = [ready EXCEPT ![level] = Tail(ready[level])]
      /\ pc = "call" /\ pc' = "dispatch"
  BY ReturnFields DEF Return, Called, ListInv, ListTypes, TaskTypes
<1>2. /\ InOrder(k, Tail(ready[level]))
      /\ \A t \in Task : InList(Tail(ready[level]), t) => Later(k, u, t)
      /\ \A x : InList(ready[level], x) <=> x = u \/ InList(Tail(ready[level]), x)
  BY <1>1, TailInOrder, InTail DEF OrderInv
<1>3. InOrder(k, waiting') /\ \A x : InList(waiting', x) <=> InList(waiting, x) \/ x = u
  <2>1. \A t \in Task : InList(waiting, t) => Later(k, t, u)
    BY <1>1, <1>2 DEF OrderInv, Ahead
  <2>. QED BY <1>1, <2>1, AppendInOrder, InAppend DEF OrderInv
<1>4. ASSUME NEW q \in Levels
      PROVE  /\ InOrder(k, ready'[q])
             /\ \A t \in Task : InList(ready'[q], t) => k[t].prio = q
             /\ Ahead(k, waiting', ready'[q])
  <2>1. /\ InOrder(k, ready[q]) /\ Ahead(k, waiting, ready[q])
        /\ \A t \in Task : InList(ready[q], t) => k[t].prio = q
    BY <1>1 DEF OrderInv
  <2>2. /\ InOrder(k, ready'[q]) /\ \A t \in Task : InList(ready'[q], t) => InList(ready[q], t)
        /\ q = level => ready'[q] = Tail(ready[q])
    BY <1>1, <1>2, <2>1
  <2>3. \A t \in Task : InList(ready'[q], t) => Later(k, u, t)
    <3>1. k[u].prio = level
      BY <1>1, <1>2 DEF OrderInv
    <3>. QED BY <1>2, <2>1, <2>2, <3>1 DEF Later
  <2>4. Ahead(k, waiting', ready'[q])
    BY <1>3, <2>1, <2>2, <2>3 DEF Ahead
  <2>. QED BY <2>1, <2>2, <2>4
<1>5. \A t, v \in Registered' : k[t].entry = k[v].entry => t = v
  BY DEF OrderInv
<1>. QED BY <1>1, <1>3, <1>4, <1>5 DEF OrderInv

(* The suspended tasks return to the places of their identifiers.          *)
LEMMA OrderGather ==
  ASSUME ListInv, QuietInv, OrderInv, Gather, Keys' = Keys, Registered' \subseteq Registered,
         ListTypes', OneListEach'
  PROVE  OrderInv'
<1>. PICK k : k = Keys
  OBVIOUS
<1>1. /\ pc' \in {"loop", "idle"} /\ UNCHANGED <<ready, task>>
      /\ waiting' = ByEntry(waiting \o suspended) \/ UNCHANGED waiting
  BY DEF Gather
<1>2. /\ \A t, v \in Registered' : k[t].entry = k[v].entry => t = v
      /\ \A p \in Levels : /\ InOrder(k, ready'[p])
                           /\ \A t \in Task : InList(ready'[p], t) => k[t].prio = p
  BY <1>1 DEF OrderInv
<1>3. ASSUME waiting' = ByEntry(waiting \o suspended) PROVE InOrder(k, waiting')
  <2>1. /\ waiting \o suspended \in Seq(Task) /\ \A t \in Task : task[t].entry \in Int
        /\ \A t \in Task : k[t].entry = task[t].entry
    BY ConcatProperties, Fields DEF ListInv, ListTypes, TaskTypes, Keys
  <2>2. /\ \A i \in DOMAIN waiting' : waiting'[i] \in Task /\ waiting'[i] \in Registered' /\ i \in Int
    <3>1. \A i \in DOMAIN waiting' : waiting'[i] \in Task /\ i \in Int
      BY LenProperties, ElementOfSeq DEF ListTypes
    <3>. QED BY <3>1 DEF Registered, InList
  <2>3. \A i, j \in DOMAIN waiting' : waiting'[i] = waiting'[j] => i = j
    <3>1. EachOnce'
      BY <1>1 DEF OneListEach
    <3>. QED BY <3>1, FamilyIsPrimed DEF Disjoint, Places
  <2>. SUFFICES ASSUME NEW i \in DOMAIN waiting', NEW j \in DOMAIN waiting', i < j
                PROVE  k[waiting'[i]].entry < k[waiting'[j]].entry
    BY DEF InOrder, Later
  <2>4. k[waiting'[i]].entry <= k[waiting'[j]].entry
    BY <1>3, <2>1, <2>2, SortAscends
  <2>5. k[waiting'[i]].entry # k[waiting'[j]].entry
    BY <1>2, <2>2, <2>3
  <2>6. k[waiting'[i]].entry \in Int /\ k[waiting'[j]].entry \in Int
    BY <2>1, <2>2
  <2>. QED BY <2>4, <2>5, <2>6
<1>4. InOrder(k, waiting')
  BY <1>1, <1>3 DEF OrderInv
<1>. QED BY <1>1, <1>2, <1>4 DEF OrderInv

(* Steps that leave the lists alone.                                       *)
LEMMA OrderStays ==
  ASSUME OrderInv, Keys' = Keys, Registered' \subseteq Registered, UNCHANGED <<waiting, ready>>,
         pc' = "scan" => pc = "scan" \/ \A p \in Levels : ready[p] = <<>>,
         pc' \in {"dispatch", "call"} => pc \in {"dispatch", "call"} \/ waiting = <<>>
  PROVE  OrderInv'
<1>1. /\ \A t, u \in Registered' : Keys'[t].entry = Keys'[u].entry => t = u
      /\ InOrder(Keys', waiting')
      /\ \A p \in Levels : InOrder(Keys', ready'[p])
                           /\ \A t \in Task : InList(ready'[p], t) => Keys'[t].prio = p
  BY DEF OrderInv
<1>2. pc' = "scan" => \A p \in Levels : Ahead(Keys', ready'[p], waiting')
  BY InEmpty DEF OrderInv, Ahead
<1>3. pc' \in {"dispatch", "call"} => \A p \in Levels : Ahead(Keys', waiting', ready'[p])
  BY InEmpty DEF OrderInv, Ahead
<1>. QED BY <1>1, <1>2, <1>3 DEF OrderInv

(* Hence the order is kept by every step.                                  *)
LEMMA OrderNext ==
  ASSUME ListInv, Fixed, QuietInv, OrderInv, [Next]_vars
  PROVE  OrderInv'
<1>1. Quiet /\ Keys' = Keys /\ Registered' \subseteq Registered /\ ListTypes' /\ OneListEach'
  <2>1. Quiet
    BY DEF Fixed, Quiet
  <2>. QED BY <2>1, KeysStay, NoneEnters, ListNext DEF ListInv
<1>2. CASE Calls
  <2>1. UNCHANGED <<waiting, ready, pc>>
    BY <1>1, <1>2, QuietCalls
  <2>. QED BY <1>1, <2>1, OrderStays
<1>3. CASE GetQueued \/ EndScan
  <2>1. /\ UNCHANGED <<waiting, ready>>
        /\ \/ pc' = "scan" /\ \A p \in Levels : ready[p] = <<>>
           \/ pc' \in {"dispatch", "gather"} /\ waiting = <<>>
    BY <1>3 DEF GetQueued, EndScan, lists, QuietInv, Cleared
  <2>. QED BY <1>1, <2>1, OrderStays
<1>4. CASE Dispatch \/ NextLevel \/ ReturnYielded \/ IdleReturn \/ Loop \/ RunAgain \/ UNCHANGED vars
  <2>1. /\ UNCHANGED <<waiting, ready>>
        /\ \/ UNCHANGED pc
           \/ pc \in {"dispatch", "call"} /\ pc' \in {"dispatch", "call", "gather"}
           \/ pc' \in {"loop", "released", "get"}
    BY <1>4 DEF Dispatch, NextLevel, ReturnYielded, IdleReturn, Loop, RunAgain, vars, lists, sched
  <2>. QED BY <1>1, <2>1, OrderStays
<1>5. ~ScanSpread
  BY DEF ScanSpread, QuietInv, Unasked
<1>. QED BY <1>1, <1>2, <1>3, <1>4, <1>5, OrderScan, OrderReturn, OrderGather DEF Next, Kernel

(* The invariant, as a theorem of the specification.                       *)
LEMMA OrderInvariant == Spec => [](Fixed => OrderInv)
<1>1. Init => (Fixed => OrderInv)
  BY OrderInit
<1>2. ListInv /\ (Quiet => QuietInv) /\ (Fixed => OrderInv) /\ [Next]_vars => (Fixed => OrderInv)'
  BY OrderNext, AppStays DEF Quiet, Fixed, Uses
<1>. QED BY <1>1, <1>2, ListInvariant, QuietInvariant, PTL DEF Spec

(* Tasks are launched in order of precedence: no task that is ready has a  *)
(* higher priority than the one launched, nor the same priority and an     *)
(* earlier place in the scheduler, whatever the order in which earlier     *)
(* cycles left the lists (kernel.cpp 259-291, 356-389, 405-415), in        *)
(* applications that fix priorities and tasks and make no spreads.         *)
THEOREM LaunchedByPrecedence == Spec => DispatchByPrecedence
<1>1. ASSUME ListInv, Quiet => QuietInv, Fixed => OrderInv, [Next]_vars, Fixed,
             NEW t \in Task, Starts(t), NEW u \in ReadyTasks \ {t}
      PROVE  Precedes(t, u)
  <2>1. /\ Dispatch /\ t = Head(ready[level]) /\ ready[level] # <<>> /\ pc = "dispatch"
        /\ QuietInv /\ OrderInv
    BY <1>1, OnlyDispatchStarts DEF Dispatch, Quiet, Fixed
  <2>2. /\ ready[level] \in Seq(Task) /\ level \in Levels
        /\ \A v \in Task : Keys[v].prio = task[v].prio /\ Keys[v].entry = task[v].entry
    BY <1>1 DEF Keys, ListInv, ListTypes, TaskTypes
  <2>3. /\ \A x : InList(ready[level], x) <=> x = t \/ InList(Tail(ready[level]), x)
        /\ \A v \in Task : InList(Tail(ready[level]), v) => Later(Keys, t, v)
    BY <2>1, <2>2, InTail, TailInOrder DEF OrderInv
  <2>4. task[t].prio = level
    BY <2>1, <2>2, <2>3 DEF OrderInv
  <2>5. PICK p \in Levels : InList(ready[p], u) /\ u \in Task
    BY DEF ReadyTasks
  <2>6. task[u].prio = p
    BY <2>1, <2>2, <2>5 DEF OrderInv
  <2>7. p <= level
    BY <2>1, <2>5, InEmpty DEF QuietInv, Cleared
  <2>8. CASE p = level
    BY <1>1, <2>2, <2>3, <2>4, <2>5, <2>6, <2>8 DEF Later, Precedes
  <2>9. CASE p # level
    BY <2>2, <2>4, <2>5, <2>6, <2>7, <2>9, SchedulerAssumption DEF Precedes, Levels
  <2>. QED BY <2>8, <2>9
<1>2. ListInv /\ (Quiet => QuietInv) /\ (Fixed => OrderInv) /\ [Next]_vars =>
        [\A t \in Task : Starts(t) /\ Uses \cap {"spread", "priority", "remove"} = {}
           => \A u \in ReadyTasks \ {t} : Precedes(t, u)]_vars
  BY <1>1 DEF Fixed
<1>. QED BY <1>2, ListInvariant, QuietInvariant, OrderInvariant, PTL DEF Spec, DispatchByPrecedence
=============================================================================
