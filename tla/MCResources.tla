---------------------------- MODULE MCResources -----------------------------
(* What tasks and handlers share, checked in one run: containers and what     *)
(* uses them, memory, critical sections, coroutines.  A                       *)
(* behaviour is one of a single component, which the first state chooses; the *)
(* variables of the others keep a value they can have.                        *)
EXTENDS QueueReceiver, NotificationQueue, Critical, MemoryPool, List, Coroutine

CONSTANTS node1, node2, node3, t1, t2, null

VARIABLE component

-----------------------------------------------------------------------------
(* A task attached to a queue: one that only receives, and is also notified,  *)
(* due and put to sleep; one with all link modes; and one that does           *)
(* everything the orderly ones do not.                                        *)
OrderlyTask(m, b) == [modes |-> m, positions |-> {"back"}, otherReceiver |-> FALSE,
                      selfDetach |-> FALSE, before |-> b]
Orderlies == {OrderlyTask({"receiver", "empty"}, {"queued", "asleep", "due"}),
              OrderlyTask({"receiver", "full", "count", "empty"}, {"due"})}
Wild == [modes |-> {"receiver", "count"}, positions |-> {"back", "front"},
         otherReceiver |-> TRUE, selfDetach |-> TRUE, before |-> {}]
Receivers == Orderlies \cup {Wild}

(* Notifications by tasks only, by handlers only, and with several priorities *)
(* and removals.                                                              *)
ByTasks    == [levels |-> {0}, callers |-> {"task"}, removals |-> FALSE]
ByHandlers == [levels |-> {0}, callers |-> {"handler"}, removals |-> FALSE]
Changing   == [levels |-> {0, 1}, callers |-> {"task"}, removals |-> TRUE]
Notifiers  == {ByTasks, ByHandlers, Changing}

(* Three nodes, two of them equal for the sort.                               *)
Keys == [n \in {node1, node2, node3} |-> IF n = node2 THEN 1 ELSE 2]

(* A producer and a consumer with a buffer of two, and a routine that uses    *)
(* the other statements.                                                      *)
S(op, arg) == [op |-> op, arg |-> arg]
Producer == <<S("semWait", "full"), S("semWait", "mutex"), S("yield", 0), S("put", 0),
              S("semSignal", "mutex"), S("semSignal", "empty"), S("restart", 0)>>
Consumer == <<S("semWait", "empty"), S("semWait", "mutex"), S("get", 0), S("yield", 0),
              S("semSignal", "mutex"), S("semSignal", "full"), S("restart", 0)>>
Job == <<S("perform", 2), S("until", 0), S("getPosition", 0), S("delay", 1), S("perform", 0),
         S("until", 0), S("waitUntil", 0), S("setPosition", 0)>>

Routines == {[p |-> Producer, c |-> Consumer], [j |-> Job]}
Counts == [full |-> 2, empty |-> 0, mutex |-> 1]

ASSUME ReceiverAssumption
-----------------------------------------------------------------------------
all == <<component, rvars, notifyVars, listVars, poolVars, criticalVars, coVars>>

(* A list in the middle of a walk over its only node.                         *)
Walking ==
  /\ heap = [next |-> NoLinks, prev |-> NoLinks,
             container |-> [NoLinks EXCEPT ![node1] = "L"],
             head |-> [l \in Lists |-> IF l = "L" THEN node1 ELSE Nothing],
             tail |-> [l \in Lists |-> IF l = "L" THEN node1 ELSE Nothing],
             size |-> [l \in Lists |-> IF l = "L" THEN 1 ELSE 0]]
  /\ walk = [NoWalk EXCEPT !.list = "L", !.current = node1, !.start = <<node1>>,
                           !.seen = <<node1>>]
  /\ torn = FALSE

(* The queue on its own and the one with a receiver are the same queue.       *)
MCInit ==
  /\ component \in {"queue", "receiver", "notifications", "list", "pool", "critical", "coroutine"}
  /\ RInit /\ (component # "receiver" => app = Wild)
  /\ NotifyInit /\ (component # "notifications" => use = ByTasks)
  /\ CriticalInit
  /\ IF component = "list" THEN ListInit ELSE Walking
  /\ PoolInit /\ (component # "pool" => pool.end = 84)
  /\ CoInit /\ (component # "coroutine" => "j" \in DOMAIN program)

MCNext ==
  /\ UNCHANGED component
  /\ CASE component = "queue"    -> Next /\ UNCHANGED kvars
       [] component = "receiver" -> RNext
       [] OTHER                  -> UNCHANGED rvars
  /\ IF component = "notifications" THEN NotifyNext ELSE UNCHANGED notifyVars
  /\ IF component = "list" THEN ListNext ELSE UNCHANGED listVars
  /\ IF component = "pool" THEN PoolNext ELSE UNCHANGED poolVars
  /\ IF component = "critical" THEN CriticalNext ELSE UNCHANGED criticalVars
  /\ IF component = "coroutine" THEN CoNext ELSE UNCHANGED coVars

(* The fairness of QueueReceiver; the others have none.                       *)
MCSpec == MCInit /\ [][MCNext]_all /\ WF_rvars(component = "receiver" /\ Kernel)
=============================================================================
