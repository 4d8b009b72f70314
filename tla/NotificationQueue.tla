-------------------------- MODULE NotificationQueue --------------------------
(***************************************************************************)
(* The kernel's notification queue in use: core::notify(QUEUED, ..) called *)
(* by tasks and by interrupt handlers, the extraction at the start of each *)
(* scheduling cycle, and the clean-up when a task is removed.  get() and   *)
(* the clean-up run in critical sections; insert() does not, so a handler  *)
(* that notifies can run between any two of its memory accesses.  Tasks    *)
(* and scheduler share one thread.                                         *)
(***************************************************************************)
EXTENDS PrioQueue

CONSTANT Uses   \* the uses made of the queue, see below

(* A use: the task priorities, who sends queued notifications, and whether *)
(* tasks are removed from the scheduler.                                   *)
IsUse(a) ==
  /\ a.levels \subseteq Nat /\ a.levels # {}
  /\ a.callers \subseteq {"task", "handler"} /\ a.removals \in BOOLEAN

ASSUME UseAssumption == \A a \in Uses : IsUse(a)

VARIABLES use,      \* the use, which never changes
          pq,       \* the prioQueue object
          prio,     \* Task.priority
          stage,    \* how far the insert() or clean-up of the thread is
          new,      \* the entry that insert() is putting in
          loaded,   \* index as loaded by `index = index + 1`
          gone,     \* the removed task whose entries are cleaned up
          cell,     \* i of the loop in cleanUp()
          got       \* entry extracted by the last get()

notifyVars == <<use, pq, prio, stage, new, loaded, gone, cell, got>>

NotifyInit ==
  /\ use \in Uses
  /\ pq = Empty /\ prio \in [Task -> use.levels]
  /\ stage = "out" /\ new = NoEntry /\ loaded = -1
  /\ gone = NoEntry /\ cell = 0 /\ got = NoEntry

(* insert(): the capacity check reads index once (without room the call    *)
(* ends here and changes nothing) ...                                      *)
InsertCheck(t, d) ==
  /\ "task" \in use.callers /\ stage = "out"
  /\ hasRoom(pq)
  /\ stage' = "load" /\ new' = <<t, d>>
  /\ UNCHANGED <<use, pq, prio, loaded, gone, cell, got>>

(* ... `index = index + 1` loads it again ...                              *)
InsertLoad ==
  /\ stage = "load" /\ loaded' = pq.index /\ stage' = "bump"
  /\ UNCHANGED <<use, pq, prio, new, gone, cell, got>>

(* ... and stores it ...                                                   *)
InsertBump ==
  /\ stage = "bump" /\ pq' = [pq EXCEPT !.index = loaded + 1] /\ stage' = "place"
  /\ UNCHANGED <<use, prio, new, loaded, gone, cell, got>>

(* ... and `stack[ index ] = tmp` reads it a third time.  A store outside  *)
(* the array (see CleanUp) changes none of its cells.                      *)
InsertPlace ==
  /\ stage = "place"
  /\ pq' = [pq EXCEPT !.stack = [j \in Cells |-> IF j = pq.index THEN new ELSE pq.stack[j]]]
  /\ stage' = "out" /\ new' = NoEntry /\ loaded' = -1
  /\ UNCHANGED <<use, prio, gone, cell, got>>

(* A handler's insert() is not interrupted by the others, and does not     *)
(* come into the critical section around the clean-up.                     *)
HandlerInsert(t, d) ==
  /\ "handler" \in use.callers /\ stage # "clean"
  /\ pq' = insert(pq, <<t, d>>)
  /\ UNCHANGED <<use, prio, stage, new, loaded, gone, cell, got>>

Get ==
  /\ stage = "out" /\ hasElements(pq)
  /\ pq.stack[0] # NoEntry          \* get() dereferences stack[0].pTask
  /\ LET c == Chosen(pq, prio)
     IN got' = pq.stack[c] /\ pq' = clearIndex(pq, c)
  /\ UNCHANGED <<use, prio, stage, new, loaded, gone, cell>>

(* A removed task is cleaned up: cleanUp() goes from cell 1 to the last.   *)
(* It may take index below -1.                                             *)
CleanUp(t) ==
  /\ use.removals /\ stage = "out"
  /\ stage' = "clean" /\ gone' = t /\ cell' = 1
  /\ UNCHANGED <<use, pq, prio, new, loaded, got>>

CleanCell ==
  /\ stage = "clean" /\ cell < Size
  /\ pq' = cleared(pq, gone, cell) /\ cell' = cell + 1
  /\ UNCHANGED <<use, prio, stage, new, loaded, gone, got>>

EndCleanUp ==
  /\ stage = "clean" /\ cell >= Size
  /\ stage' = "out" /\ gone' = NoEntry /\ cell' = 0
  /\ UNCHANGED <<use, pq, prio, new, loaded, got>>

ChangePriority(t, p) ==
  /\ stage = "out" /\ prio' = [prio EXCEPT ![t] = p]
  /\ UNCHANGED <<use, pq, stage, new, loaded, gone, cell, got>>

NotifyNext ==
  \/ \E t \in Task, d \in Data : InsertCheck(t, d) \/ HandlerInsert(t, d)
  \/ InsertLoad \/ InsertBump \/ InsertPlace
  \/ Get
  \/ \E t \in Task : CleanUp(t)
  \/ CleanCell \/ EndCleanUp
  \/ \E t \in Task, p \in use.levels : ChangePriority(t, p)

NotifySpec == NotifyInit /\ [][NotifyNext]_notifyVars

-----------------------------------------------------------------------------
(* Tasks and handlers both notify: the accesses of insert() mix.           *)
Mixed == use.callers = {"task", "handler"}

(* Type of every variable, unless callers mix; and unless tasks are        *)
(* removed, index is a valid "last live cell" of the array.                *)
NotifyTypeOK ==
  ~Mixed =>
    /\ use \in Uses
    /\ pq \in [stack : [Cells -> Entry \cup {NoEntry}], index : Int] /\ pq.index < Size
    /\ ~use.removals => pq.index >= -1
    /\ prio \in [Task -> use.levels]
    /\ stage \in {"out", "load", "bump", "place", "clean"}
    /\ new \in Entry \cup {NoEntry} /\ got \in Entry \cup {NoEntry}
    /\ loaded < Size - 1
    /\ gone \in Task \cup {NoEntry} /\ cell \in 0 .. Size

(* The scan of get() starts by dereferencing cell 0: unless callers mix, a *)
(* non-empty queue never has a null task among its live cells (the one an  *)
(* insert is about to fill excepted), whatever was extracted and cleaned   *)
(* up before.                                                              *)
LiveCellsFilled ==
  ~Mixed =>
    \A i \in 0 .. pq.index :
      pq.stack[i] = NoEntry => stage = "place" /\ i = pq.index

(* Pending notifications as a caller counts them: those whose insert() has *)
(* stored the entry.                                                       *)
Pending == IF stage = "place" THEN Live([pq EXCEPT !.index = @ - 1]) ELSE Live(pq)

Fifo == INSTANCE PriorityFifo WITH
              Levels <- UNION {a.levels : a \in Uses}, pending <- Pending, prio <- prio

(* One priority, one kind of caller and no removals.                       *)
Uniform == (\E p \in use.levels : use.levels = {p}) /\ ~Mixed /\ ~use.removals

(* In a uniform use (in the others the code does not keep it, see          *)
(* ServedByPriority) queued notifications are served first come first      *)
(* served, none lost, none repeated: each step is one of PriorityFifo.     *)
ImplementsPriorityFifo ==
  /\ Uniform => Fifo!Init
  /\ [][Uniform => Fifo!Next]_<<Pending, prio>>

(* What get() extracts is the first pending notification of the highest    *)
(* priority.                                                               *)
ServedByPriority == [][Get => got' = Pending[Fifo!Next1]]_notifyVars
=============================================================================
