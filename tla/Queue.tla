-------------------------------- MODULE Queue --------------------------------
(***************************************************************************)
(* qOS::queue (src/src/queue.cpp): a ring of itemsCount fixed-size slots.  *)
(* The pointers head and tail are the indices 0 and itemsCount; writer is  *)
(* the slot the next TO_BACK item goes to; reader is the slot BEFORE the   *)
(* front item, so that a TO_FRONT item is written at reader itself.  Every *)
(* operation runs inside one critical section and is one step here.        *)
(***************************************************************************)
EXTENDS Naturals, Sequences

CONSTANTS Item, NoItem, MaxCount

ASSUME QueueAssumption == MaxCount \in Nat \ {0} /\ NoItem \notin Item

VARIABLES slots,         \* the storage area, one cell per item
          itemsCount,    \* 0 until setup()
          itemsWaiting,
          writer,
          reader,
          res            \* what the last call returned

vars == <<slots, itemsCount, itemsWaiting, writer, reader, res>>

Yes(x) == [ok |-> TRUE, val |-> x]
No     == [ok |-> FALSE, val |-> NoItem]

tail == itemsCount

-----------------------------------------------------------------------------
(* A default-constructed queue: no storage, every pointer null.            *)
Init ==
  /\ slots = [i \in 0 .. MaxCount - 1 |-> NoItem]
  /\ itemsCount = 0 /\ itemsWaiting = 0
  /\ writer = 0 /\ reader = 0
  /\ res = No

(* reset() for a queue of c slots.  Before setup() itemSize is 0, so the   *)
(* reader stays at the (null) head.                                        *)
Emptied(c) ==
  /\ itemsWaiting' = 0
  /\ writer' = 0
  /\ reader' = IF c = 0 THEN 0 ELSE c - 1

Setup(c) ==
  \/ /\ c > 0
     /\ itemsCount' = c
     /\ Emptied(c)
     /\ res' = Yes(NoItem)
     /\ UNCHANGED slots
  \/ /\ c = 0
     /\ res' = No
     /\ UNCHANGED <<slots, itemsCount, itemsWaiting, writer, reader>>

Reset ==
  /\ Emptied(itemsCount)
  /\ res' = Yes(NoItem)
  /\ UNCHANGED <<slots, itemsCount>>

Forward(p)  == IF p + 1 >= tail THEN 0 ELSE p + 1   \* p += itemSize, wrapped at tail
Backward(p) == IF p = 0 THEN tail - 1 ELSE p - 1    \* p -= itemSize, wrapped at head

(* A call refused because the queue is full or empty touches nothing.      *)
Refuse == res' = No /\ UNCHANGED <<slots, itemsCount, itemsWaiting, writer, reader>>

copyToBack(x) ==
  /\ slots' = [slots EXCEPT ![writer] = x]
  /\ writer' = Forward(writer)
  /\ UNCHANGED reader

(* Mutant: the reader steps back before the item is written.               *)
copyToFrontLate(x) ==
  /\ slots' = [slots EXCEPT ![Backward(reader)] = x]
  /\ reader' = Backward(reader)
  /\ UNCHANGED writer

copyToFront(x) ==
  /\ slots' = [slots EXCEPT ![reader] = x]
  /\ reader' = Backward(reader)
  /\ UNCHANGED writer

(* Mutant: one item too many is let in.                                    *)
SendBackPastLimit(x) ==
  /\ itemsWaiting <= itemsCount
  /\ copyToBack(x)
  /\ itemsWaiting' = itemsWaiting + 1
  /\ res' = Yes(NoItem)
  /\ UNCHANGED itemsCount

SendBack(x) ==
  \/ itemsWaiting >= itemsCount /\ Refuse
  \/ /\ itemsWaiting < itemsCount
     /\ copyToBack(x)
     /\ itemsWaiting' = itemsWaiting + 1
     /\ res' = Yes(NoItem)
     /\ UNCHANGED itemsCount

SendFront(x) ==
  \/ itemsWaiting >= itemsCount /\ Refuse
  \/ /\ itemsWaiting < itemsCount
     /\ copyToFront(x)
     /\ itemsWaiting' = itemsWaiting + 1
     /\ res' = Yes(NoItem)
     /\ UNCHANGED itemsCount

(* moveReader() and the decrement shared by receive() and removeFront().   *)
dropFront ==
  /\ reader' = Forward(reader)
  /\ itemsWaiting' = itemsWaiting - 1
  /\ UNCHANGED <<slots, itemsCount, writer>>

Receive ==
  \/ itemsWaiting = 0 /\ Refuse
  \/ /\ itemsWaiting > 0
     /\ dropFront
     /\ res' = Yes(slots[Forward(reader)])

RemoveFront ==
  \/ itemsWaiting = 0 /\ Refuse
  \/ /\ itemsWaiting > 0
     /\ dropFront
     /\ res' = Yes(NoItem)

(* peek() hands out the address of the front slot; the caller reads it.    *)
Peek ==
  \/ itemsWaiting = 0 /\ Refuse
  \/ /\ itemsWaiting > 0
     /\ res' = Yes(slots[Forward(reader)])
     /\ UNCHANGED <<slots, itemsCount, itemsWaiting, writer, reader>>

Next ==
  \/ \E c \in 0 .. MaxCount : Setup(c)
  \/ \E x \in Item : SendBack(x) \/ SendFront(x)
  \/ Receive \/ RemoveFront \/ Peek \/ Reset

Spec == Init /\ [][Next]_vars

-----------------------------------------------------------------------------
(* Type invariant of the queue object and of its storage area.             *)
TypeOK ==
  /\ slots \in [0 .. MaxCount - 1 -> Item \cup {NoItem}]
  /\ itemsCount \in 0 .. MaxCount
  /\ itemsWaiting \in 0 .. itemsCount
  /\ writer \in Nat /\ reader \in Nat
  /\ res \in [ok : BOOLEAN, val : Item \cup {NoItem}]

(* p reduced into a ring of n slots; no pointer runs two turns ahead.      *)
Wrap(p, n) == IF p < n THEN p ELSE IF p < 2 * n THEN p - n ELSE p - 2 * n

(* Slot of the i-th waiting item when the reader is at r, in n slots.      *)
Slot(r, n, i) == Wrap(r + i, n)

(* The two pointers and the counter, which every operation moves           *)
(* separately, describe one ring: both pointers stay inside the storage    *)
(* and the writer is exactly itemsWaiting slots past the front.            *)
RingShape ==
  IF itemsCount = 0
    THEN writer = 0 /\ reader = 0
    ELSE /\ writer < itemsCount /\ reader < itemsCount
         /\ writer = Slot(reader, itemsCount, itemsWaiting + 1)

(* Every waiting slot holds an item some sender wrote, never a stale or    *)
(* unwritten cell.                                                         *)
NoGarbage ==
  \A i \in 1 .. itemsWaiting : slots[Slot(reader, itemsCount, i)] \in Item

(* The queue as its callers see it, front first.                           *)
Contents == [i \in 1 .. itemsWaiting |-> slots[Slot(reader, itemsCount, i)]]

Abstract == INSTANCE Deque WITH items <- Contents, limit <- itemsCount

(* The ring is a bounded deque: items come out at the front in the order   *)
(* the two kinds of send put them there, none is lost, overwritten or      *)
(* delivered twice, and a call is refused only when the queue is full      *)
(* (send) or empty (receive, removeFront, peek).                           *)
ImplementsDeque == Abstract!Spec
=============================================================================
