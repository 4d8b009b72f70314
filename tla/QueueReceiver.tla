---------------------------- MODULE QueueReceiver ----------------------------
(***************************************************************************)
(* The kernel serving a task that has a queue attached (task::attachQueue) *)
(* while interrupt handlers, and possibly another task, use the same       *)
(* queue.  The kernel needs four separate steps, none of which protects    *)
(* the queue across the next: checkIfReady() counts the items if nothing   *)
(* goes before the queue, the dispatcher peeks at the front, the callback  *)
(* reads the peeked slot, and the dispatcher removes whatever is then in   *)
(* front.                                                                  *)
(* Items are numbered in the order the queue accepted them.                *)
(***************************************************************************)
EXTENDS Queue, FiniteSets

CONSTANTS Threshold,     \* the argument of mode COUNT
          Applications,  \* the uses made of the queue, see below
          MaxSends       \* bound on accepted items

(* An application: the link modes its task attaches the queue with, where  *)
(* interrupt handlers post ("back"/"front"), whether another task also     *)
(* receives from the queue, whether the callback may detach it, and what   *)
(* may go before the queue when the task is checked: that it was notified  *)
(* through the notification queue, sleeps, or has reached its deadline.    *)
Application == [modes : SUBSET {"full", "count", "receiver", "empty"},
                positions : SUBSET {"back", "front"},
                otherReceiver : BOOLEAN, selfDetach : BOOLEAN,
                before : SUBSET {"queued", "asleep", "due"}]

(* What an instance gives the constants.                                   *)
ReceiverAssumption ==
  /\ Item = 1 .. MaxSends
  /\ Applications \subseteq Application
  /\ Threshold \in Nat \ {0}

VARIABLES app,         \* the application, which never changes
          pc,          \* where the dispatcher stands
          links,       \* queue flags set in the task
          attached,    \* aQueue # nullptr
          first,       \* what goes before the queue, or "none"
          trigger,     \* the task's Trigger
          eventData,   \* slot the callback was given (NoItem: null pointer)
          sent,        \* items accepted so far
          served       \* items shown to or received by the task, in order

kvars == <<app, pc, links, attached, first, trigger, eventData, sent, served>>
rvars == <<vars, kvars>>

-----------------------------------------------------------------------------
(* A queue just constructed, and a task without one.                       *)
RInit ==
  /\ app \in Applications /\ Init
  /\ pc = "setup" /\ trigger = "none" /\ eventData = NoItem
  /\ links = {} /\ attached = FALSE /\ first = "none"
  /\ sent = 0 /\ served = <<>>

(* Before os.run() the queue gets MaxCount slots, and attachQueue() links  *)
(* the task to it in the modes of the application.                         *)
AttachQueue ==
  /\ pc = "setup" /\ pc' = "check"
  /\ Setup(MaxCount)
  /\ links' = app.modes /\ attached' = TRUE
  /\ UNCHANGED <<app, first, trigger, eventData, sent, served>>

(* Mutant: a single item raises no event.                                  *)
queueCheckEventsLate ==
  IF attached /\ "receiver" \in links /\ itemsWaiting > 1 THEN "receiver" ELSE "none"

(* task::queueCheckEvents(): full, then count, then receiver, then empty.  *)
queueCheckEvents ==
  IF ~attached THEN "none"
  ELSE CASE "full" \in links /\ itemsWaiting = itemsCount -> "full"
         [] "count" \in links /\ itemsWaiting >= Threshold
            /\ ~("full" \in links /\ itemsWaiting = itemsCount) -> "count"
         [] "receiver" \in links /\ itemsWaiting > 0
            /\ ~("full" \in links /\ itemsWaiting = itemsCount)
            /\ ~("count" \in links /\ itemsWaiting >= Threshold) -> "receiver"
         [] "empty" \in links /\ itemsWaiting = 0 -> "empty"
         [] OTHER -> "none"

(* Until the task is checked it may be notified, reach its deadline (or    *)
(* get another), be put to sleep or be woken.                              *)
Elsewhere ==
  /\ pc = "check"
  /\ first' \in (app.before \cup {"none"}) \ {first}
  /\ UNCHANGED <<vars, app, pc, links, attached, trigger, eventData, sent, served>>

(* checkIfReady(): a queued notification, sleep and the deadline go before *)
(* the events of the queue.  With no event the task goes round through the *)
(* suspended list; otherwise its Trigger is recorded, its timer reloaded   *)
(* when it was due, and it becomes ready.                                  *)
CheckIfReady ==
  /\ pc = "check"
  /\ trigger' = IF first \in {"queued", "due"} THEN first
                ELSE IF first = "asleep" THEN "none" ELSE queueCheckEvents
  /\ first' = IF first = "asleep" THEN first ELSE "none"
  /\ pc' = IF trigger' = "none" THEN "check" ELSE "fill"
  /\ UNCHANGED <<vars, app, links, attached, eventData, sent, served>>

(* dispatchTaskFillEventInfo(): peek() only for the receiver trigger; the  *)
(* other triggers hand over the queue itself.                              *)
FillEventInfo ==
  /\ pc = "fill"
  /\ eventData' = IF trigger = "receiver" /\ itemsWaiting > 0 THEN Forward(reader) ELSE NoItem
  /\ pc' = "callback"
  /\ UNCHANGED <<vars, app, links, attached, first, trigger, sent, served>>

(* The callback of the task.  Triggered as a receiver it reads the slot it *)
(* was pointed to; triggered otherwise it may receive() one item itself.   *)
Callback ==
  /\ pc = "callback"
  /\ pc' = "remove"
  /\ \/ /\ trigger = "receiver"
        /\ served' = IF eventData = NoItem THEN served ELSE Append(served, slots[eventData])
        /\ UNCHANGED vars
     \/ /\ trigger # "receiver" /\ itemsWaiting > 0
        /\ Receive
        /\ served' = Append(served, res'.val)
     \/ /\ trigger # "receiver"
        /\ UNCHANGED <<vars, served>>
  /\ \/ UNCHANGED <<links, attached>>
     \/ app.selfDetach /\ links' = links \ {trigger} /\ attached' = FALSE
  /\ UNCHANGED <<app, first, trigger, eventData, sent>>

(* Mutant: the front is removed whatever the trigger.                      *)
FinishRemovingAlways ==
  /\ pc = "remove" /\ pc' = "check" /\ RemoveFront
  /\ trigger' = "none" /\ eventData' = NoItem
  /\ UNCHANGED <<app, links, attached, first, sent, served>>

(* The end of dispatch(): removeFront() if the task ran as a receiver.  A  *)
(* detached queue is a null pointer here: the step does not complete.      *)
FinishDispatch ==
  /\ pc = "remove"
  /\ \/ trigger = "receiver" /\ attached /\ RemoveFront
     \/ trigger # "receiver" /\ UNCHANGED vars
  /\ trigger' = "none" /\ eventData' = NoItem
  /\ pc' = "check"
  /\ UNCHANGED <<app, links, attached, first, sent, served>>

(* An interrupt handler (or a task dispatched in between) posts an item.   *)
Post(pos) ==
  /\ sent < MaxSends
  /\ IF pos = "back" THEN SendBack(sent + 1) ELSE SendFront(sent + 1)
  /\ sent' = IF res'.ok THEN sent + 1 ELSE sent
  /\ UNCHANGED <<app, pc, links, attached, first, trigger, eventData, served>>

(* Another task of the same cycle, dispatched before this one, receives.   *)
OtherTakes ==
  /\ app.otherReceiver /\ pc \in {"check", "fill"} /\ itemsWaiting > 0
  /\ Receive
  /\ served' = Append(served, res'.val)
  /\ UNCHANGED <<app, pc, links, attached, first, trigger, eventData, sent>>

Kernel == CheckIfReady \/ FillEventInfo \/ Callback \/ FinishDispatch

RNext ==
  \/ AttachQueue \/ Kernel
  \/ \E pos \in app.positions : Post(pos)
  \/ OtherTakes
  \/ Elsewhere

(* The scheduler loop never stops; interrupts owe nothing.                 *)
RSpec == RInit /\ [][RNext]_rvars /\ WF_rvars(Kernel)

-----------------------------------------------------------------------------
RTypeOK ==
  /\ TypeOK
  /\ pc \in {"setup", "check", "fill", "callback", "remove"}
  /\ trigger \in {"none", "full", "count", "receiver", "empty", "queued", "due"}
  /\ first \in app.before \cup {"none"}
  /\ eventData \in (0 .. MaxCount - 1) \cup {NoItem}
  /\ app \in Applications /\ links \subseteq app.modes /\ attached \in BOOLEAN
  /\ sent \in 0 .. MaxSends /\ served \in Seq(Item)

(* The item on the callback's table: already shown, not yet removed.       *)
InHand == pc = "remove" /\ trigger = "receiver" /\ eventData # NoItem

(* The application the documentation has in mind: handlers post at the     *)
(* back, the task is the only receiver and keeps its queue.                *)
Orderly == app.positions = {"back"} /\ ~app.otherReceiver /\ ~app.selfDetach

(* The task of an orderly application sees every accepted item exactly     *)
(* once and in order, whatever handlers post between the peek and the      *)
(* removal: what was served, followed by what waits (less the item in      *)
(* hand), is the sequence of accepted items.                               *)
ServedInOrder ==
  Orderly =>
    served \o (IF InHand THEN Tail(Contents) ELSE Contents) = [i \in 1 .. sent |-> i]

(* The pointer given to the callback stays good while the callback runs,   *)
(* in any application: no post recycles the slot it points to.             *)
PeekedSlotKept ==
  [][pc = "callback" /\ pc' = "callback" /\ eventData # NoItem
       => slots'[eventData] = slots[eventData]]_rvars

(* The dispatcher removes the item the task was served, never another one. *)
RemovesWhatItServed ==
  [][pc = "remove" /\ pc' = "check" /\ trigger = "receiver"
       => /\ eventData # NoItem
          /\ eventData = Forward(reader)]_rvars

(* Every item an orderly application's queue accepts is eventually served, *)
(* if the task is attached as a receiver and not by FULL or COUNT, whose   *)
(* callbacks may leave the items where they are, and if again and again    *)
(* nothing goes before the queue, and is not overtaken each time before    *)
(* the check.  (A task that sleeps, or that is notified or due at every    *)
(* check, never serves its queue.)                                         *)
AllServed ==
  []<>(pc = "check" /\ first = "none") /\ SF_rvars(CheckIfReady /\ first = "none")
    => \A i \in Item :
         sent >= i /\ Orderly /\ "receiver" \in app.modes /\ app.modes \cap {"full", "count"} = {}
           ~> \E j \in DOMAIN served : served[j] = i
=============================================================================
