----------------------------- MODULE QueueProofs -----------------------------
(***************************************************************************)
(* TLAPS proofs about the queues.  Queue: the ring invariant and the       *)
(* refinement of Deque, for every storage size and every set of items.     *)
(* QueueReceiver, on top of them: what the dispatcher does in four steps   *)
(* is right whatever handlers post between them, for any number of posts.  *)
(* NotificationQueue: for any number of tasks, data and cells get() never  *)
(* starts at a null cell, and uses of one priority and one kind of caller  *)
(* see the first-come-first-served queue of PriorityFifo.                  *)
(***************************************************************************)
EXTENDS QueueReceiver, NotificationQueue, SequenceTheorems, TLAPS

(* The inductive invariant: types, the shape of the ring, initialised      *)
(* slots.                                                                  *)
Inv == TypeOK /\ RingShape /\ NoGarbage

(* What Inv says of a queue that has been set up.                          *)
Usable ==
  /\ itemsCount \in Nat \ {0} /\ itemsCount <= MaxCount
  /\ reader \in 0 .. itemsCount - 1
  /\ writer \in 0 .. itemsCount - 1
  /\ itemsWaiting \in 0 .. itemsCount
  /\ writer = Slot(reader, itemsCount, itemsWaiting + 1)

LEMMA InvUsable == ASSUME Inv, itemsCount # 0 PROVE Usable
BY QueueAssumption DEF Inv, TypeOK, RingShape, Usable

-----------------------------------------------------------------------------
(* Arithmetic of the ring.                                                 *)

(* Moving a pointer one slot forward stays in the ring and is addition     *)
(* modulo its length.                                                      *)
LEMMA ForwardInRing ==
  ASSUME itemsCount \in Nat \ {0}, NEW p \in 0 .. itemsCount - 1
  PROVE  /\ Forward(p) \in 0 .. itemsCount - 1
         /\ Forward(p) = Slot(p, itemsCount, 1)
BY DEF Forward, Slot, Wrap, tail

(* Moving a pointer one slot back is undone by moving it forward.          *)
LEMMA BackwardInRing ==
  ASSUME itemsCount \in Nat \ {0}, NEW p \in 0 .. itemsCount - 1
  PROVE  /\ Backward(p) \in 0 .. itemsCount - 1
         /\ Slot(Backward(p), itemsCount, 1) = p
BY DEF Backward, Slot, Wrap, tail

(* The i-th waiting item lives inside the storage area.                    *)
LEMMA SlotInRing ==
  ASSUME NEW n \in Nat \ {0}, NEW r \in 0 .. n - 1, NEW i \in 0 .. n + 1
  PROVE  Slot(r, n, i) \in 0 .. n - 1
BY DEF Slot, Wrap

(* Two places at most one turn apart are different slots.                  *)
LEMMA SlotsDistinct ==
  ASSUME NEW n \in Nat \ {0}, NEW r \in 0 .. n - 1,
         NEW i \in 0 .. n, NEW j \in 0 .. n, i < j, j - i < n
  PROVE  Slot(r, n, i) # Slot(r, n, j)
BY DEF Slot, Wrap

(* Counting from one slot further on.                                      *)
LEMMA SlotShift ==
  ASSUME NEW n \in Nat \ {0}, NEW r \in 0 .. n - 1, NEW i \in 0 .. n
  PROVE  Slot(Slot(r, n, 1), n, i) = Slot(r, n, i + 1)
BY DEF Slot, Wrap

-----------------------------------------------------------------------------
(* What an accepted call does to the items, slot by slot.                  *)

(* A TO_BACK send writes the slot just past the waiting ones and leaves    *)
(* every waiting item in place.                                            *)
LEMMA BackKeepsItems ==
  ASSUME Inv, NEW x \in Item, itemsWaiting < itemsCount, copyToBack(x)
  PROVE  /\ writer' \in 0 .. itemsCount - 1
         /\ writer' = Slot(reader, itemsCount, itemsWaiting + 2)
         /\ slots'[Slot(reader, itemsCount, itemsWaiting + 1)] = x
         /\ \A i \in 1 .. itemsWaiting :
              slots'[Slot(reader, itemsCount, i)] = slots[Slot(reader, itemsCount, i)]
<1>1. Usable /\ itemsWaiting + 1 \in 1 .. itemsCount
  BY InvUsable DEF Inv, TypeOK, Usable
<1>2. writer' = Slot(writer, itemsCount, 1) /\ writer' \in 0 .. itemsCount - 1
  BY <1>1, ForwardInRing DEF copyToBack, Usable
<1>3. writer' = Slot(reader, itemsCount, itemsWaiting + 2)
  BY <1>1, <1>2 DEF Slot, Wrap, Usable
<1>4. slots'[writer] = x
  BY <1>1, QueueAssumption DEF copyToBack, Inv, TypeOK, Usable
<1>5. \A i \in 1 .. itemsWaiting : slots'[Slot(reader, itemsCount, i)] = slots[Slot(reader, itemsCount, i)]
  <2> TAKE i \in 1 .. itemsWaiting
  <2>1. Slot(reader, itemsCount, i) # writer
    BY <1>1, SlotsDistinct DEF Usable
  <2> QED BY <2>1 DEF copyToBack, Inv, TypeOK
<1> QED BY <1>1, <1>2, <1>3, <1>4, <1>5 DEF Usable

(* A TO_FRONT send writes the free slot before the front and moves the     *)
(* front there: every waiting item becomes one place later.                *)
LEMMA FrontKeepsItems ==
  ASSUME Inv, NEW x \in Item, itemsWaiting < itemsCount, copyToFront(x)
  PROVE  /\ reader' \in 0 .. itemsCount - 1
         /\ writer' = Slot(reader', itemsCount, itemsWaiting + 2)
         /\ slots'[Slot(reader', itemsCount, 1)] = x
         /\ \A i \in 1 .. itemsWaiting :
              slots'[Slot(reader', itemsCount, i + 1)] = slots[Slot(reader, itemsCount, i)]
<1>1. Usable /\ itemsWaiting + 1 \in 1 .. itemsCount
  BY InvUsable DEF Inv, TypeOK, Usable
<1>2. reader' \in 0 .. itemsCount - 1 /\ Slot(reader', itemsCount, 1) = reader
  BY <1>1, BackwardInRing DEF copyToFront, Usable
<1>3. \A i \in 0 .. itemsCount :
        Slot(reader, itemsCount, i) = Slot(reader', itemsCount, i + 1)
  BY <1>1, <1>2, SlotShift DEF Usable
<1>4. writer' = Slot(reader', itemsCount, itemsWaiting + 2)
  BY <1>1, <1>3 DEF copyToFront, Usable
<1>5. slots'[reader] = x
  BY <1>1, QueueAssumption DEF copyToFront, Inv, TypeOK, Usable
<1>6. \A i \in 1 .. itemsWaiting :
        slots'[Slot(reader', itemsCount, i + 1)] = slots[Slot(reader, itemsCount, i)]
  <2> TAKE i \in 1 .. itemsWaiting
  <2>1. Slot(reader, itemsCount, i) # reader
    BY <1>1 DEF Slot, Wrap, Usable
  <2>2. Slot(reader, itemsCount, i) \in 0 .. MaxCount - 1
    <3>1. Slot(reader, itemsCount, i) \in 0 .. itemsCount - 1
      <4>1. i \in 0 .. itemsCount + 1
        BY <1>1 DEF Usable
      <4> QED BY <1>1, <4>1, SlotInRing DEF Usable
    <3> QED BY <1>1, <3>1, QueueAssumption DEF Usable
  <2>3. slots'[Slot(reader, itemsCount, i)] = slots[Slot(reader, itemsCount, i)]
    BY <2>1, <2>2 DEF copyToFront, Inv, TypeOK
  <2> QED BY <1>1, <1>3, <2>3 DEF Usable
<1> QED BY <1>2, <1>4, <1>5, <1>6

(* Taking the front item leaves every other item in place, one nearer.     *)
LEMMA DropKeepsItems ==
  ASSUME Inv, itemsWaiting > 0, dropFront
  PROVE  /\ reader' \in 0 .. itemsCount - 1
         /\ writer = Slot(reader', itemsCount, itemsWaiting)
         /\ slots[Forward(reader)] = slots[Slot(reader, itemsCount, 1)]
         /\ \A i \in 1 .. itemsWaiting - 1 :
              Slot(reader', itemsCount, i) = Slot(reader, itemsCount, i + 1)
<1>1. Usable /\ itemsWaiting \in 1 .. itemsCount
  BY InvUsable DEF Inv, TypeOK, Usable
<1>2. /\ reader' \in 0 .. itemsCount - 1
      /\ reader' = Slot(reader, itemsCount, 1)
      /\ Forward(reader) = Slot(reader, itemsCount, 1)
  BY <1>1, ForwardInRing DEF dropFront, Usable
<1>3. \A i \in 0 .. itemsCount :
        Slot(reader', itemsCount, i) = Slot(reader, itemsCount, i + 1)
  BY <1>1, <1>2, SlotShift DEF Usable
<1> QED BY <1>1, <1>2, <1>3 DEF Usable

-----------------------------------------------------------------------------
(* The ring invariant.                                                     *)

LEMMA InitInv == Init => Inv
BY QueueAssumption DEF Init, Inv, TypeOK, RingShape, NoGarbage, No

(* A refused call and a peek leave the ring alone; only the type of what   *)
(* they return is left to check.                                           *)
LEMMA SameRing ==
  ASSUME Inv, res' \in [ok : BOOLEAN, val : Item \cup {NoItem}],
         UNCHANGED <<slots, itemsCount, itemsWaiting, writer, reader>>
  PROVE  Inv'
BY DEF Inv, TypeOK, RingShape, NoGarbage

LEMMA EmptiedInv ==
  ASSUME Inv, NEW c \in 0 .. MaxCount, Emptied(c), itemsCount' = c,
         res' = Yes(NoItem), slots' = slots
  PROVE  Inv'
BY QueueAssumption DEF Inv, TypeOK, RingShape, NoGarbage, Emptied, Yes, Slot, Wrap

LEMMA SendBackInv ==
  ASSUME Inv, NEW x \in Item, SendBack(x)
  PROVE  Inv'
<1>1. CASE itemsWaiting >= itemsCount /\ Refuse
  BY <1>1, SameRing DEF Refuse, No
<1>2. CASE ~(itemsWaiting >= itemsCount /\ Refuse)
  <2>1. /\ itemsWaiting < itemsCount /\ copyToBack(x)
        /\ itemsWaiting' = itemsWaiting + 1 /\ itemsCount' = itemsCount
        /\ res' = Yes(NoItem) /\ reader' = reader
    BY <1>2 DEF SendBack, copyToBack
  <2>2. Usable
    BY <2>1, InvUsable DEF Inv, TypeOK
  <2>3. TypeOK'
    <3>1. slots' \in [0 .. MaxCount - 1 -> Item \cup {NoItem}]
      BY <2>1 DEF Inv, TypeOK, copyToBack
    <3>2. res' \in [ok : BOOLEAN, val : Item \cup {NoItem}]
      BY <2>1 DEF Yes
    <3>3. itemsWaiting' \in 0 .. itemsCount /\ writer' \in Nat /\ reader' \in Nat
      BY <2>1, <2>2, BackKeepsItems DEF Usable
    <3> QED BY <2>1, <3>1, <3>2, <3>3 DEF Inv, TypeOK
  <2>4. RingShape'
    BY <2>1, <2>2, BackKeepsItems DEF RingShape, Usable
  <2>5. NoGarbage'
    <3> SUFFICES ASSUME NEW i \in 1 .. itemsWaiting + 1
                 PROVE  slots'[Slot(reader, itemsCount, i)] \in Item
      BY <2>1 DEF NoGarbage
    <3> QED BY <2>1, <2>2, BackKeepsItems DEF Inv, NoGarbage, Usable
  <2> QED BY <2>3, <2>4, <2>5 DEF Inv
<1> QED BY <1>1, <1>2

LEMMA SendFrontInv ==
  ASSUME Inv, NEW x \in Item, SendFront(x)
  PROVE  Inv'
<1>1. CASE itemsWaiting >= itemsCount /\ Refuse
  BY <1>1, SameRing DEF Refuse, No
<1>2. CASE ~(itemsWaiting >= itemsCount /\ Refuse)
  <2>1. /\ itemsWaiting < itemsCount /\ copyToFront(x)
        /\ itemsWaiting' = itemsWaiting + 1 /\ itemsCount' = itemsCount
        /\ res' = Yes(NoItem) /\ writer' = writer
    BY <1>2 DEF SendFront, copyToFront
  <2>2. Usable
    BY <2>1, InvUsable DEF Inv, TypeOK
  <2>3. TypeOK'
    <3>1. slots' \in [0 .. MaxCount - 1 -> Item \cup {NoItem}]
      BY <2>1 DEF Inv, TypeOK, copyToFront
    <3>2. res' \in [ok : BOOLEAN, val : Item \cup {NoItem}]
      BY <2>1 DEF Yes
    <3>3. itemsWaiting' \in 0 .. itemsCount /\ writer' \in Nat /\ reader' \in Nat
      BY <2>1, <2>2, FrontKeepsItems DEF Usable
    <3> QED BY <2>1, <3>1, <3>2, <3>3 DEF Inv, TypeOK
  <2>4. RingShape'
    BY <2>1, <2>2, FrontKeepsItems DEF RingShape, Usable
  <2>5. NoGarbage'
    <3> SUFFICES ASSUME NEW i \in 1 .. itemsWaiting + 1
                 PROVE  slots'[Slot(reader', itemsCount, i)] \in Item
      BY <2>1 DEF NoGarbage
    <3>1. CASE i = 1
      BY <3>1, <2>1, FrontKeepsItems
    <3>2. CASE i # 1
      <4>1. i - 1 \in 1 .. itemsWaiting /\ (i - 1) + 1 = i
        BY <3>2, <2>2 DEF Usable
      <4> QED BY <4>1, <2>1, FrontKeepsItems DEF Inv, NoGarbage
    <3> QED BY <3>1, <3>2
  <2> QED BY <2>3, <2>4, <2>5 DEF Inv
<1> QED BY <1>1, <1>2

LEMMA DropInv ==
  ASSUME Inv, itemsWaiting > 0, dropFront,
         res' \in [ok : BOOLEAN, val : Item \cup {NoItem}]
  PROVE  Inv'
<1>1. Usable /\ itemsWaiting - 1 \in 0 .. itemsCount
  BY InvUsable DEF Inv, TypeOK, Usable
<1>2. TypeOK'
  BY <1>1, DropKeepsItems DEF Inv, TypeOK, dropFront, Usable
<1>3. RingShape'
  BY <1>1, DropKeepsItems DEF RingShape, dropFront, Usable
<1>4. NoGarbage'
  <2> SUFFICES ASSUME NEW i \in 1 .. itemsWaiting - 1
               PROVE  slots[Slot(reader', itemsCount, i)] \in Item
    BY DEF NoGarbage, dropFront
  <2>1. i + 1 \in 1 .. itemsWaiting
    BY <1>1 DEF Usable
  <2> QED BY <2>1, DropKeepsItems DEF Inv, NoGarbage
<1> QED BY <1>2, <1>3, <1>4 DEF Inv

(* What receive() and peek() hand over is a waiting item.                  *)
LEMMA FrontIsItem ==
  ASSUME Inv, itemsWaiting > 0
  PROVE  slots[Forward(reader)] \in Item
<1>1. Usable /\ 1 \in 1 .. itemsWaiting
  BY InvUsable DEF Inv, TypeOK, Usable
<1> QED BY <1>1, ForwardInRing DEF Inv, NoGarbage, Usable

LEMMA NextInv == Inv /\ [Next]_vars => Inv'
<1> SUFFICES ASSUME Inv, [Next]_vars PROVE Inv'
  OBVIOUS
<1>1. ASSUME NEW c \in 0 .. MaxCount, Setup(c) PROVE Inv'
  <2>1. CASE c > 0
    BY <1>1, <2>1, EmptiedInv DEF Setup
  <2>2. CASE c = 0
    <3>1. Refuse
      BY <1>1, <2>2 DEF Setup, Refuse
    <3> QED BY <3>1, SameRing DEF Refuse, No
  <2> QED BY <2>1, <2>2
<1>2. CASE Reset
  BY <1>2, EmptiedInv DEF Reset, Inv, TypeOK
<1>3. ASSUME NEW x \in Item, SendBack(x) PROVE Inv'
  BY <1>3, SendBackInv
<1>4. ASSUME NEW x \in Item, SendFront(x) PROVE Inv'
  BY <1>4, SendFrontInv
<1>5. CASE Receive
  <2>1. CASE itemsWaiting = 0 /\ Refuse
    BY <2>1, SameRing DEF Refuse, No
  <2>2. CASE itemsWaiting > 0 /\ dropFront /\ res' = Yes(slots[Forward(reader)])
    BY <2>2, DropInv, FrontIsItem DEF Yes
  <2> QED BY <1>5, <2>1, <2>2 DEF Receive
<1>6. CASE RemoveFront
  <2>1. CASE itemsWaiting = 0 /\ Refuse
    BY <2>1, SameRing DEF Refuse, No
  <2>2. CASE itemsWaiting > 0 /\ dropFront /\ res' = Yes(NoItem)
    BY <2>2, DropInv DEF Yes
  <2> QED BY <1>6, <2>1, <2>2 DEF RemoveFront
<1>7. CASE Peek
  <2>1. CASE itemsWaiting = 0 /\ Refuse
    BY <2>1, SameRing DEF Refuse, No
  <2>2. CASE itemsWaiting > 0
    <3>1. /\ res' = Yes(slots[Forward(reader)])
          /\ UNCHANGED <<slots, itemsCount, itemsWaiting, writer, reader>>
      BY <1>7, <2>2 DEF Peek
    <3>2. slots[Forward(reader)] \in Item
      BY <2>2, FrontIsItem
    <3>3. res' \in [ok : BOOLEAN, val : Item \cup {NoItem}]
      BY <3>1, <3>2 DEF Yes
    <3> QED BY <3>1, <3>3, SameRing
  <2> QED BY <1>7, <2>1, <2>2 DEF Peek
<1>8. CASE UNCHANGED vars
  BY <1>8, SameRing DEF vars, Inv, TypeOK
<1> QED BY <1>1, <1>2, <1>3, <1>4, <1>5, <1>6, <1>7, <1>8 DEF Next

(* In every reachable state the pointers and the counter describe one      *)
(* ring and every waiting slot holds an item that was sent.                *)
THEOREM RingInvariant == Spec => [](TypeOK /\ RingShape /\ NoGarbage)
<1>1. Spec => []Inv
  BY InitInv, NextInv, PTL DEF Spec
<1> QED BY <1>1, PTL DEF Inv

-----------------------------------------------------------------------------
(* The refinement of Deque: how each step looks to a caller who sees only  *)
(* the sequence of waiting items.                                          *)

LEMMA ContentsSeq ==
  ASSUME Inv
  PROVE  /\ Contents \in Seq(Item) /\ Len(Contents) = itemsWaiting
         /\ \A i \in 1 .. itemsWaiting : Contents[i] = slots[Slot(reader, itemsCount, i)]
BY DEF Inv, TypeOK, NoGarbage, Contents

(* A sequence of waiting items is determined by its length and its slots.  *)
LEMMA ContentsNext ==
  ASSUME Inv', NEW s \in Seq(Item), Len(s) = itemsWaiting',
         \A i \in 1 .. itemsWaiting' : slots'[Slot(reader', itemsCount', i)] = s[i]
  PROVE  Contents' = s
<1>1. /\ Contents' \in Seq(Item) /\ Len(Contents') = itemsWaiting'
      /\ \A i \in 1 .. itemsWaiting' : Contents'[i] = slots'[Slot(reader', itemsCount', i)]
  BY DEF Inv, TypeOK, NoGarbage, Contents
<1> QED BY <1>1, SeqEqual

LEMMA RefusedContents ==
  ASSUME Refuse PROVE Contents' = Contents
BY DEF Refuse, Contents

LEMMA BackContents ==
  ASSUME Inv, Inv', NEW x \in Item, itemsWaiting < itemsCount, copyToBack(x),
         itemsWaiting' = itemsWaiting + 1, itemsCount' = itemsCount
  PROVE  Contents' = Append(Contents, x)
<1> DEFINE s == Append(Contents, x)
<1>1. /\ s \in Seq(Item) /\ Len(s) = itemsWaiting + 1 /\ s[itemsWaiting + 1] = x
      /\ \A i \in 1 .. itemsWaiting : s[i] = slots[Slot(reader, itemsCount, i)]
  BY ContentsSeq, AppendProperties DEF Inv, TypeOK
<1>2. reader' = reader /\ itemsWaiting \in Nat
  BY DEF copyToBack, Inv, TypeOK
<1>3. \A i \in 1 .. itemsWaiting' : slots'[Slot(reader', itemsCount', i)] = s[i]
  BY <1>1, <1>2, BackKeepsItems
<1> QED BY <1>1, <1>3, ContentsNext

LEMMA FrontContents ==
  ASSUME Inv, Inv', NEW x \in Item, itemsWaiting < itemsCount, copyToFront(x),
         itemsWaiting' = itemsWaiting + 1, itemsCount' = itemsCount
  PROVE  Contents' = <<x>> \o Contents
<1> DEFINE s == <<x>> \o Contents
<1>1. <<x>> \in Seq(Item) /\ Len(<<x>>) = 1 /\ <<x>>[1] = x
  OBVIOUS
<1>2. /\ s \in Seq(Item) /\ Len(s) = 1 + itemsWaiting
      /\ \A i \in 1 .. 1 + itemsWaiting : s[i] = IF i <= 1 THEN x ELSE Contents[i - 1]
  BY <1>1, ContentsSeq, ConcatProperties
<1>3. itemsWaiting \in Nat
  BY DEF Inv, TypeOK
<1>4. ASSUME NEW i \in 1 .. itemsWaiting'
      PROVE  slots'[Slot(reader', itemsCount', i)] = s[i]
  <2>1. CASE i = 1
    BY <2>1, <1>2, <1>3, FrontKeepsItems
  <2>2. CASE i # 1
    <3>1. i - 1 \in 1 .. itemsWaiting /\ (i - 1) + 1 = i
      BY <2>2, <1>3
    <3>2. slots'[Slot(reader', itemsCount', i)] = slots[Slot(reader, itemsCount, i - 1)]
      BY <3>1, FrontKeepsItems
    <3> QED BY <3>1, <3>2, <1>2, <1>3, ContentsSeq
  <2> QED BY <2>1, <2>2
<1>5. Len(s) = itemsWaiting'
  BY <1>2, <1>3
<1> HIDE DEF s
<1>6. Contents' = s
  BY <1>2, <1>4, <1>5, ContentsNext
<1> QED BY <1>6 DEF s

LEMMA DropContents ==
  ASSUME Inv, Inv', itemsWaiting > 0, dropFront
  PROVE  /\ Contents # <<>>
         /\ Contents' = Tail(Contents)
         /\ slots[Forward(reader)] = Head(Contents)
<1>1. itemsWaiting \in Nat \ {0}
  BY DEF Inv, TypeOK
<1>2. Contents # <<>> /\ Head(Contents) = slots[Slot(reader, itemsCount, 1)]
  BY <1>1, ContentsSeq
<1>3. /\ Tail(Contents) \in Seq(Item) /\ Len(Tail(Contents)) = itemsWaiting - 1
      /\ \A i \in 1 .. itemsWaiting - 1 :
           Tail(Contents)[i] = slots[Slot(reader, itemsCount, i + 1)]
  BY <1>1, <1>2, ContentsSeq, HeadTailProperties
<1>4. \A i \in 1 .. itemsWaiting' : slots'[Slot(reader', itemsCount', i)] = Tail(Contents)[i]
  BY <1>3, DropKeepsItems DEF dropFront
<1>5. Contents' = Tail(Contents)
  BY <1>3, <1>4, ContentsNext DEF dropFront
<1> QED BY <1>2, <1>5, DropKeepsItems

(* A call the ring refuses is a call the deque refuses.                    *)
LEMMA RefinesRefuse ==
  ASSUME Inv, Refuse, itemsWaiting = 0
  PROVE  Abstract!Refuse
<1>1. Contents = <<>>
  BY ContentsSeq
<1> QED BY <1>1, RefusedContents DEF Abstract!Refuse, Refuse, No, Abstract!No

LEMMA RefinesEmptied ==
  ASSUME itemsWaiting' = 0
  PROVE  Contents' = <<>>
BY DEF Contents

LEMMA RefinesSend ==
  ASSUME Inv, Inv', NEW x \in Item, SendBack(x) \/ SendFront(x)
  PROVE  Abstract!SendBack(x) \/ Abstract!SendFront(x)
<1>1. Len(Contents) = itemsWaiting /\ itemsWaiting \in 0 .. itemsCount /\ itemsCount \in Nat
  BY ContentsSeq, QueueAssumption DEF Inv, TypeOK
<1>2. CASE itemsWaiting >= itemsCount /\ Refuse
  <2>1. Len(Contents) = itemsCount /\ Contents' = Contents
    BY <1>1, <1>2, RefusedContents
  <2> QED BY <1>2, <2>1
       DEF Abstract!SendBack, Abstract!Accept, Abstract!No, Refuse, No
<1>3. CASE itemsWaiting < itemsCount /\ SendBack(x)
  <2>1. /\ copyToBack(x) /\ itemsWaiting' = itemsWaiting + 1
        /\ itemsCount' = itemsCount /\ res' = Yes(NoItem)
    BY <1>1, <1>3 DEF SendBack
  <2>2. Contents' = Append(Contents, x)
    BY <1>3, <2>1, BackContents
  <2> QED BY <1>1, <1>3, <2>1, <2>2
       DEF Abstract!SendBack, Abstract!Accept, Abstract!Yes, Yes
<1>4. CASE itemsWaiting < itemsCount /\ SendFront(x)
  <2>1. /\ copyToFront(x) /\ itemsWaiting' = itemsWaiting + 1
        /\ itemsCount' = itemsCount /\ res' = Yes(NoItem)
    BY <1>1, <1>4 DEF SendFront
  <2>2. Contents' = <<x>> \o Contents
    BY <1>4, <2>1, FrontContents
  <2> QED BY <1>1, <1>4, <2>1, <2>2
       DEF Abstract!SendFront, Abstract!Accept, Abstract!Yes, Yes
<1> QED BY <1>1, <1>2, <1>3, <1>4 DEF SendBack, SendFront

LEMMA RefinesNext ==
  ASSUME Inv, Inv', [Next]_vars
  PROVE  [Abstract!Next]_(Abstract!vars)
<1> USE DEF Abstract!Next
<1>1. ASSUME NEW c \in 0 .. MaxCount, Setup(c) PROVE Abstract!Setup(c)
  <2>1. CASE c > 0
    BY <1>1, <2>1, RefinesEmptied
    DEF Setup, Emptied, Yes, Abstract!Setup, Abstract!Yes
  <2>2. CASE c = 0
    <3>1. Refuse
      BY <1>1, <2>2 DEF Setup, Refuse
    <3> QED BY <2>2, <3>1, RefusedContents
         DEF Refuse, No, Abstract!Setup, Abstract!No
  <2> QED BY <2>1, <2>2
<1>2. CASE Reset
  BY <1>2, RefinesEmptied DEF Reset, Emptied, Yes, Abstract!Reset, Abstract!Yes
<1>3. ASSUME NEW x \in Item, SendBack(x) \/ SendFront(x)
      PROVE  Abstract!SendBack(x) \/ Abstract!SendFront(x)
  BY <1>3, RefinesSend
<1>4. CASE Receive
  <2>1. CASE itemsWaiting = 0 /\ Refuse
    BY <2>1, RefinesRefuse DEF Abstract!Receive
  <2>2. CASE itemsWaiting > 0 /\ dropFront /\ res' = Yes(slots[Forward(reader)])
    BY <2>2, DropContents DEF Abstract!Receive, Abstract!Yes, Yes, dropFront
  <2> QED BY <1>4, <2>1, <2>2 DEF Receive
<1>5. CASE RemoveFront
  <2>1. CASE itemsWaiting = 0 /\ Refuse
    BY <2>1, RefinesRefuse DEF Abstract!RemoveFront
  <2>2. CASE itemsWaiting > 0 /\ dropFront /\ res' = Yes(NoItem)
    BY <2>2, DropContents DEF Abstract!RemoveFront, Abstract!Yes, Yes, dropFront
  <2> QED BY <1>5, <2>1, <2>2 DEF RemoveFront
<1>6. CASE Peek
  <2>1. CASE itemsWaiting = 0 /\ Refuse
    BY <2>1, RefinesRefuse DEF Abstract!Peek
  <2>2. CASE /\ itemsWaiting > 0 /\ res' = Yes(slots[Forward(reader)])
             /\ UNCHANGED <<slots, itemsCount, itemsWaiting, writer, reader>>
    <3>1. Contents' = Contents
      BY <2>2 DEF Contents
    <3>2. Contents # <<>> /\ Head(Contents) = slots[Slot(reader, itemsCount, 1)]
      BY <2>2, ContentsSeq DEF Inv, TypeOK
    <3>3. itemsCount # 0
      BY <2>2 DEF Inv, TypeOK
    <3>4. itemsCount \in Nat \ {0} /\ reader \in 0 .. itemsCount - 1
      BY <3>3, InvUsable DEF Usable
    <3>5. slots[Forward(reader)] = Head(Contents)
      BY <3>2, <3>4, ForwardInRing
    <3> QED BY <2>2, <3>1, <3>2, <3>5 DEF Abstract!Peek, Abstract!Yes, Yes
  <2> QED BY <1>6, <2>1, <2>2 DEF Peek
<1>7. CASE UNCHANGED vars
  <2>1. UNCHANGED Abstract!vars
    BY <1>7 DEF vars, Abstract!vars, Contents
  <2> QED BY <2>1
<1> QED BY <1>1, <1>2, <1>3, <1>4, <1>5, <1>6, <1>7 DEF Next

(* The ring implements the bounded deque: whatever the storage size and    *)
(* the items, a caller cannot tell queue.cpp from Deque.                   *)
THEOREM QueueImplementsDeque == Spec => ImplementsDeque
<1>1. Init => Abstract!Init
  BY DEF Init, Abstract!Init, Contents, No, Abstract!No
<1>2. Inv /\ Inv' /\ [Next]_vars => [Abstract!Next]_(Abstract!vars)
  BY RefinesNext
<1>3. Spec => []Inv
  BY InitInv, NextInv, PTL DEF Spec
<1> QED BY <1>1, <1>2, <1>3, PTL DEF Spec, ImplementsDeque, Abstract!Spec

-----------------------------------------------------------------------------
(* The dispatcher and the handlers that post to its queue.                 *)

(* What an instance chooses, and a null pointer that is not an address.    *)
Setting == ReceiverAssumption /\ MaxSends \in Nat /\ NoItem \notin Nat

Waiting(p) == \E k \in 1 .. itemsWaiting : p = Slot(reader, itemsCount, k)

(* The slot given to a callback is one of the waiting ones, not always the *)
(* first: a post at the front may have come since.                         *)
PeekedWaits == pc = "callback" /\ eventData # NoItem => Waiting(eventData)

(* What a state of a dispatch tells the dispatcher of an orderly           *)
(* application: there is an item to serve, and it is in front.             *)
Dispatching ==
  /\ pc # "setup" => attached
  /\ pc \in {"fill", "callback", "remove"} /\ trigger = "receiver" => itemsWaiting > 0
  /\ pc \in {"callback", "remove"} /\ trigger = "receiver" => eventData = Forward(reader)

RecvTypes ==
  /\ pc \in {"setup", "check", "fill", "callback", "remove"}
  /\ app \in Applications
  /\ sent \in 0 .. MaxSends
  /\ served \in Seq(Item)

(* The queue has its slots from the moment it is attached.                 *)
Sized == itemsCount = IF pc = "setup" THEN 0 ELSE MaxCount

RecvInv == Inv /\ Sized /\ RecvTypes /\ PeekedWaits

OrderInv == Orderly => Dispatching /\ ServedInOrder

-----------------------------------------------------------------------------
(* The queue operations as the dispatcher and the handlers call them.      *)

(* A post, refused or accepted, keeps the ring, and every waiting slot     *)
(* stays a waiting slot with the same item in it.                          *)
LEMMA PostKeepsSlots ==
  ASSUME Inv, itemsCount = MaxCount, NEW x \in Item, SendBack(x) \/ SendFront(x)
  PROVE  /\ Inv' /\ itemsCount' = itemsCount
         /\ \A p : Waiting(p) => Waiting(p)' /\ slots'[p] = slots[p]
<1>1. Inv' /\ itemsCount' = itemsCount
  BY SendBackInv, SendFrontInv DEF SendBack, SendFront, Refuse
<1>2. itemsWaiting \in Nat /\ itemsCount \in Nat \ {0} /\ Usable
  BY QueueAssumption, InvUsable DEF Inv, TypeOK
<1>3. SUFFICES ASSUME NEW p, NEW k \in 1 .. itemsWaiting, p = Slot(reader, itemsCount, k)
               PROVE  Waiting(p)' /\ slots'[p] = slots[p]
  BY <1>1 DEF Waiting
<1>4. CASE Refuse
  BY <1>3, <1>4 DEF Refuse, Waiting
<1>5. CASE itemsWaiting < itemsCount /\ copyToBack(x) /\ itemsWaiting' = itemsWaiting + 1
  <2>1. k \in 1 .. itemsWaiting' /\ reader' = reader
    BY <1>2, <1>5 DEF copyToBack
  <2> QED BY <1>1, <1>3, <1>5, <2>1, BackKeepsItems DEF Waiting
<1>6. CASE itemsWaiting < itemsCount /\ copyToFront(x) /\ itemsWaiting' = itemsWaiting + 1
  <2>1. k + 1 \in 1 .. itemsWaiting' /\ k \in 0 .. itemsCount
    BY <1>2, <1>6 DEF Usable
  <2>2. reader' \in 0 .. itemsCount - 1 /\ Slot(reader', itemsCount, 1) = reader
    BY <1>2, <1>6, BackwardInRing DEF copyToFront, Usable
  <2>3. p = Slot(reader', itemsCount', k + 1)
    BY <1>1, <1>2, <1>3, <2>1, <2>2, SlotShift
  <2>4. slots'[p] = slots[p]
    BY <1>1, <1>3, <1>6, <2>3, FrontKeepsItems
  <2> QED BY <2>1, <2>3, <2>4 DEF Waiting
<1> QED BY <1>4, <1>5, <1>6 DEF SendBack, SendFront

(* receive() and removeFront() keep the ring.                              *)
LEMMA TakeInv ==
  ASSUME Inv, Receive \/ RemoveFront
  PROVE  Inv' /\ itemsCount' = itemsCount
<1>1. CASE Refuse
  BY <1>1, SameRing DEF Refuse, No
<1>2. CASE itemsWaiting > 0 /\ dropFront /\ res' = Yes(slots[Forward(reader)])
  BY <1>2, FrontIsItem, DropInv DEF Yes, dropFront
<1>3. CASE itemsWaiting > 0 /\ dropFront /\ res' = Yes(NoItem)
  BY <1>3, DropInv DEF Yes, dropFront
<1> QED BY <1>1, <1>2, <1>3 DEF Receive, RemoveFront

(* receive() from a queue that is not empty hands over the front.          *)
LEMMA ReceiveTakesFront ==
  ASSUME Inv, itemsWaiting > 0, Receive
  PROVE  /\ Contents # <<>> /\ res'.val = Head(Contents) /\ res'.val \in Item
         /\ Contents' = Tail(Contents)
<1>1. itemsWaiting # 0
  BY DEF Inv, TypeOK
<1>2. dropFront /\ res' = Yes(slots[Forward(reader)])
  BY <1>1 DEF Receive
<1>3. Inv'
  BY TakeInv
<1> QED BY <1>2, <1>3, DropContents, FrontIsItem DEF Yes

(* The slot dispatchTaskFillEventInfo() hands over is the first waiting one. *)
LEMMA FrontIsWaiting ==
  ASSUME Inv, itemsCount = MaxCount, itemsWaiting > 0
  PROVE  Waiting(Forward(reader)) /\ slots[Forward(reader)] = Head(Contents)
<1>1. Usable /\ 1 \in 1 .. itemsWaiting /\ itemsCount \in Nat \ {0}
  BY QueueAssumption, InvUsable DEF Inv, TypeOK
<1>2. Forward(reader) = Slot(reader, itemsCount, 1)
  BY <1>1, ForwardInRing DEF Usable
<1> QED BY <1>1, <1>2, ContentsSeq DEF Waiting

-----------------------------------------------------------------------------
(* No post recycles the slot a callback reads.                             *)

LEMMA RecvInit ==
  ASSUME Setting, RInit PROVE RecvInv
<1>1. Inv
  BY InitInv DEF RInit
<1> QED BY <1>1 DEF RInit, Init, Sized, RecvInv, RecvTypes, PeekedWaits, Setting

(* setup() makes the ring of an attached queue.                            *)
LEMMA AttachStep ==
  ASSUME RecvInv, AttachQueue
  PROVE  /\ Inv' /\ Sized' /\ PeekedWaits'
         /\ itemsWaiting' = 0 /\ pc = "setup" /\ pc' = "check" /\ attached' = TRUE
<1>1. MaxCount \in 1 .. MaxCount /\ Setup(MaxCount)
  BY QueueAssumption DEF AttachQueue
<1>2. Emptied(MaxCount) /\ itemsCount' = MaxCount /\ res' = Yes(NoItem) /\ slots' = slots
  BY <1>1 DEF Setup
<1>3. Inv'
  BY <1>1, <1>2, EmptiedInv DEF RecvInv
<1> QED BY <1>2, <1>3 DEF AttachQueue, Emptied, Sized, PeekedWaits

(* Every step of the dispatcher, a handler or another task keeps it.       *)
LEMMA RecvStep ==
  ASSUME Setting, RecvInv, [RNext]_rvars PROVE RecvInv'
<1> USE DEF RecvInv, RecvTypes, Sized
<1>1. CASE UNCHANGED rvars
  BY <1>1 DEF rvars, kvars, vars, Inv, TypeOK, RingShape, NoGarbage, PeekedWaits, Waiting
<1>2. CASE CheckIfReady
  BY <1>2, SameRing DEF CheckIfReady, vars, PeekedWaits, Inv, TypeOK
<1>3. CASE FillEventInfo
  <2>1. Inv' /\ itemsCount = MaxCount /\ itemsCount' = MaxCount
    BY <1>3, SameRing DEF FillEventInfo, vars, Inv, TypeOK
  <2>2. PeekedWaits'
    BY <1>3, FrontIsWaiting DEF FillEventInfo, vars, PeekedWaits, Waiting
  <2> QED BY <1>3, <2>1, <2>2 DEF FillEventInfo
<1>4. CASE Callback
  <2>1. PeekedWaits' /\ pc = "callback" /\ pc' = "remove"
    BY <1>4 DEF Callback, PeekedWaits
  <2>2. app' \in Applications /\ sent' \in 0 .. MaxSends
    BY <1>4 DEF Callback
  <2>3. CASE UNCHANGED vars /\ served' = served
    BY <2>1, <2>2, <2>3, SameRing DEF vars, Inv, TypeOK
  <2>4. CASE itemsWaiting > 0 /\ Receive /\ served' = Append(served, res'.val)
    BY <2>1, <2>2, <2>4, TakeInv, ReceiveTakesFront
  <2>5. CASE /\ UNCHANGED vars /\ trigger = "receiver" /\ eventData # NoItem
             /\ served' = Append(served, slots[eventData])
    <3>1. slots[eventData] \in Item
      BY <1>4, <2>5 DEF Callback, PeekedWaits, Waiting, Inv, NoGarbage
    <3> QED BY <2>1, <2>2, <2>5, <3>1, SameRing DEF vars, Inv, TypeOK
  <2> QED BY <1>4, <2>3, <2>4, <2>5 DEF Callback
<1>5. CASE FinishDispatch
  <2>1. Inv' /\ itemsCount' = MaxCount
    BY <1>5, TakeInv, SameRing DEF FinishDispatch, vars, Inv, TypeOK
  <2> QED BY <1>5, <2>1 DEF FinishDispatch, PeekedWaits
<1>6. ASSUME NEW pos \in app.positions, Post(pos) PROVE RecvInv'
  <2>1. sent + 1 \in Item /\ sent' \in 0 .. MaxSends
    BY <1>6 DEF Post, Setting, ReceiverAssumption
  <2>2. /\ Inv' /\ itemsCount' = itemsCount
        /\ \A p : Waiting(p) => Waiting(p)'
    <3>1. CASE pc = "setup"
      <4>1. Refuse
        BY <1>6, <3>1 DEF Post, SendBack, SendFront, Inv, TypeOK
      <4> QED BY <4>1, SameRing DEF Refuse, No, Waiting
    <3>2. CASE pc # "setup"
      BY <1>6, <2>1, <3>2, PostKeepsSlots DEF Post
    <3> QED BY <3>1, <3>2
  <2>3. PeekedWaits'
    BY <1>6, <2>2 DEF Post, PeekedWaits, Waiting
  <2> QED BY <1>6, <2>1, <2>2, <2>3 DEF Post
<1>7. CASE OtherTakes
  BY <1>7, TakeInv, ReceiveTakesFront DEF OtherTakes, PeekedWaits
<1>8. CASE AttachQueue
  BY <1>8, AttachStep DEF AttachQueue
<1>9. CASE Elsewhere
  BY <1>9, SameRing DEF Elsewhere, vars, PeekedWaits, Inv, TypeOK
<1> QED BY <1>1, <1>2, <1>3, <1>4, <1>5, <1>6, <1>7, <1>8, <1>9 DEF RNext, Kernel

(* While a callback runs, only posts move the queue.                       *)
LEMMA PeekedKeptStep ==
  ASSUME Setting, RecvInv, [RNext]_rvars,
         pc = "callback", pc' = "callback", eventData # NoItem
  PROVE  slots'[eventData] = slots[eventData]
<1>1. CASE UNCHANGED rvars
  BY <1>1 DEF rvars, vars
<1>2. ASSUME NEW pos \in app.positions, Post(pos) PROVE slots'[eventData] = slots[eventData]
  <2>1. sent + 1 \in Item
    BY <1>2 DEF Post, Setting, ReceiverAssumption, RecvInv, RecvTypes
  <2> QED BY <1>2, <2>1, PostKeepsSlots DEF Post, RecvInv, Sized, PeekedWaits
<1>3. ~(Kernel \/ OtherTakes \/ AttachQueue \/ Elsewhere)
  BY DEF Kernel, AttachQueue, Elsewhere, CheckIfReady, FillEventInfo, Callback, FinishDispatch, OtherTakes
<1> QED BY <1>1, <1>2, <1>3 DEF RNext

(* The pointer the dispatcher gives to a callback stays good while the     *)
(* callback runs: in every application, no handler's post, at the back or  *)
(* at the front, writes the slot it points to.                             *)
THEOREM NoPostRecyclesPeekedSlot == Setting => (RSpec => PeekedSlotKept)
<1> SUFFICES ASSUME Setting PROVE RSpec => PeekedSlotKept
  OBVIOUS
<1>1. RInit => RecvInv
  BY RecvInit
<1>2. RecvInv /\ [RNext]_rvars => RecvInv'
  BY RecvStep
<1>3. RecvInv /\ [RNext]_rvars
        => [pc = "callback" /\ pc' = "callback" /\ eventData # NoItem
              => slots'[eventData] = slots[eventData]]_rvars
  BY PeekedKeptStep
<1> QED BY <1>1, <1>2, <1>3, PTL DEF RSpec, PeekedSlotKept

-----------------------------------------------------------------------------
(* An orderly application's task sees every item once and in order.        *)

(* Taking the head of t to the end of s changes nothing in s \o t.         *)
LEMMA HeadMoves ==
  ASSUME NEW S, NEW s \in Seq(S), NEW t \in Seq(S), t # <<>>
  PROVE  Append(s, Head(t)) \o Tail(t) = s \o t
<1>1. /\ Head(t) \in S /\ Tail(t) \in Seq(S) /\ Len(Tail(t)) = Len(t) - 1 /\ Len(t) \in Nat \ {0}
      /\ Head(t) = t[1] /\ \A i \in 1 .. Len(t) - 1 : Tail(t)[i] = t[i + 1]
  BY EmptySeq, HeadTailProperties
<1>2. /\ Append(s, Head(t)) \in Seq(S) /\ Len(Append(s, Head(t))) = Len(s) + 1 /\ Len(s) \in Nat
      /\ Append(s, Head(t))[Len(s) + 1] = t[1]
      /\ \A i \in 1 .. Len(s) : Append(s, Head(t))[i] = s[i]
  BY <1>1, AppendProperties
<1> DEFINE a == Append(s, Head(t))  u == Tail(t)
<1> HIDE DEF a, u
<1>3. /\ a \o u \in Seq(S) /\ Len(a \o u) = Len(a) + Len(u)
      /\ \A i \in 1 .. Len(a) + Len(u) : (a \o u)[i] = IF i <= Len(a) THEN a[i] ELSE u[i - Len(a)]
  BY <1>1, <1>2, ConcatProperties DEF a, u
<1>4. /\ s \o t \in Seq(S) /\ Len(s \o t) = Len(s) + Len(t)
      /\ \A i \in 1 .. Len(s) + Len(t) : (s \o t)[i] = IF i <= Len(s) THEN s[i] ELSE t[i - Len(s)]
  BY ConcatProperties
<1>5. ASSUME NEW i \in 1 .. Len(s) + Len(t) PROVE (a \o u)[i] = (s \o t)[i]
  <2>1. CASE i <= Len(s)
    BY <1>1, <1>2, <1>3, <1>4, <2>1 DEF a, u
  <2>2. CASE i = Len(s) + 1
    BY <1>1, <1>2, <1>3, <1>4, <2>2 DEF a, u
  <2>3. CASE i > Len(s) + 1
    <3>1. i - (Len(s) + 1) \in 1 .. Len(t) - 1 /\ (i - (Len(s) + 1)) + 1 = i - Len(s)
      BY <1>1, <1>2, <2>3
    <3> QED BY <1>1, <1>2, <1>3, <1>4, <2>3, <3>1 DEF a, u
  <2>4. i <= Len(s) \/ i = Len(s) + 1 \/ i > Len(s) + 1
    BY <1>1, <1>2
  <2> QED BY <2>1, <2>2, <2>3, <2>4
<1>6. Len(a \o u) = Len(s) + Len(t) /\ Len(s \o t) = Len(s) + Len(t)
  BY <1>1, <1>2, <1>3, <1>4 DEF a, u
<1>7. a \o u = s \o t
  BY <1>3, <1>4, <1>5, <1>6, SeqEqual
<1> QED BY <1>7 DEF a, u

(* An item added at the end of t is added at the end of s \o t.            *)
LEMMA AppendMoves ==
  ASSUME NEW S, NEW s \in Seq(S), NEW t \in Seq(S), NEW x \in S
  PROVE  s \o Append(t, x) = Append(s \o t, x)
<1>1. Append(t, x) = t \o <<x>> /\ Append(s \o t, x) = (s \o t) \o <<x>>
  BY ConcatProperties, AppendProperties
<1> QED BY <1>1, ConcatAssociative

(* Adding behind a sequence and dropping its head commute.                 *)
LEMMA TailOfAppend ==
  ASSUME NEW S, NEW t \in Seq(S), NEW x \in S, t # <<>>
  PROVE  Tail(Append(t, x)) = Append(Tail(t), x)
<1>1. /\ Tail(t) \in Seq(S) /\ Len(Tail(t)) = Len(t) - 1 /\ Len(t) \in Nat \ {0}
      /\ \A i \in 1 .. Len(t) - 1 : Tail(t)[i] = t[i + 1]
  BY EmptySeq, HeadTailProperties
<1> DEFINE a == Append(t, x)
<1>2. /\ a \in Seq(S) /\ Len(a) = Len(t) + 1 /\ a[Len(t) + 1] = x /\ a # <<>>
      /\ \A i \in 1 .. Len(t) : a[i] = t[i]
  BY AppendProperties
<1> HIDE DEF a
<1>3. /\ Tail(a) \in Seq(S) /\ Len(Tail(a)) = Len(t)
      /\ \A i \in 1 .. Len(t) : Tail(a)[i] = a[i + 1]
  BY <1>1, <1>2, HeadTailProperties
<1> DEFINE b == Append(Tail(t), x)
<1>4. /\ b \in Seq(S) /\ Len(b) = Len(t) /\ b[Len(t)] = x
      /\ \A i \in 1 .. Len(t) - 1 : b[i] = t[i + 1]
  BY <1>1, AppendProperties
<1> HIDE DEF b
<1>5. \A i \in 1 .. Len(t) : Tail(a)[i] = b[i]
  BY <1>1, <1>2, <1>3, <1>4
<1>6. Tail(a) = b
  BY <1>3, <1>4, <1>5, SeqEqual
<1> QED BY <1>6 DEF a, b

(* The accepted items, one more accepted.                                  *)
LEMMA OneMore ==
  ASSUME NEW n \in Nat
  PROVE  Append([i \in 1 .. n |-> i], n + 1) = [i \in 1 .. n + 1 |-> i]
OBVIOUS

(* The items known to the task: those served, then those waiting that are  *)
(* not in its hand.                                                        *)
Rest == IF InHand THEN Tail(Contents) ELSE Contents

(* At the start nothing was accepted, served or waits.                     *)
LEMMA OrderInit ==
  ASSUME Setting, RInit PROVE OrderInv
<1>1. itemsWaiting = 0 /\ served = <<>> /\ sent = 0 /\ ~InHand /\ Dispatching
  BY DEF RInit, Init, InHand, Dispatching
<1>2. Contents = <<>> /\ [i \in 1 .. sent |-> i] = <<>>
  BY <1>1 DEF Contents
<1> QED BY <1>1, <1>2 DEF OrderInv, ServedInOrder

(* A post at the back, the only one of an orderly application.             *)
LEMMA OrderPost ==
  ASSUME Setting, RecvInv, Orderly, OrderInv, Post("back")
  PROVE  OrderInv'
<1>1. /\ sent + 1 \in Item /\ sent \in Nat /\ SendBack(sent + 1)
      /\ UNCHANGED <<app, pc, links, attached, trigger, eventData, served>>
  BY DEF Post, Setting, ReceiverAssumption, RecvInv, RecvTypes
<1>2. Inv' /\ itemsWaiting \in Nat /\ served \in Seq(Item)
  BY <1>1, SendBackInv DEF RecvInv, RecvTypes, Inv, TypeOK
<1>3. served \o Rest = [i \in 1 .. sent |-> i]
  BY DEF OrderInv, ServedInOrder, Rest
<1>4. CASE Refuse
  <2>1. Contents' = Contents /\ sent' = sent /\ Forward(reader)' = Forward(reader)
        /\ itemsWaiting' = itemsWaiting
    BY <1>4, RefusedContents DEF Post, Refuse, No, Forward, tail
  <2> QED BY <1>1, <2>1 DEF OrderInv, Orderly, Dispatching, ServedInOrder, InHand
<1>5. CASE ~Refuse
  <2>1. /\ itemsWaiting < itemsCount /\ copyToBack(sent + 1) /\ itemsCount' = itemsCount
        /\ itemsWaiting' = itemsWaiting + 1 /\ sent' = sent + 1 /\ reader' = reader
    BY <1>1, <1>5 DEF SendBack, Post, copyToBack, Yes
  <2>2. Contents \in Seq(Item) /\ Contents' = Append(Contents, sent + 1)
    BY <1>1, <1>2, <2>1, ContentsSeq, BackContents DEF RecvInv
  <2>3. Dispatching'
    BY <1>1, <1>2, <2>1 DEF OrderInv, Dispatching, Forward, tail
  <2>4. InHand => Contents # <<>>
    BY <1>2, ContentsSeq, EmptySeq DEF InHand, OrderInv, Dispatching, RecvInv
  <2>5. Rest \in Seq(Item) /\ Rest' = Append(Rest, sent + 1)
    <3>1. InHand' = InHand
      BY <1>1 DEF InHand
    <3> QED BY <1>1, <2>2, <2>4, <3>1, TailOfAppend, HeadTailProperties DEF Rest
  <2>6. served' \o Rest' = [i \in 1 .. sent' |-> i]
    <3>1. served \o Append(Rest, sent + 1) = Append(served \o Rest, sent + 1)
      BY <1>1, <1>2, <2>5, AppendMoves
    <3> QED BY <1>1, <1>3, <2>1, <2>5, <3>1, OneMore
  <2> QED BY <2>3, <2>6 DEF OrderInv, ServedInOrder, Rest
<1> QED BY <1>4, <1>5

(* Every step of an orderly application keeps the two sequences equal.     *)
LEMMA OrderStep ==
  ASSUME Setting, RecvInv, OrderInv, [RNext]_rvars PROVE OrderInv'
<1>1. app' = app
  BY DEF RNext, AttachQueue, Kernel, Elsewhere, CheckIfReady, FillEventInfo, Callback, FinishDispatch,
         Post, OtherTakes, rvars, kvars
<1>2. SUFFICES ASSUME Orderly PROVE OrderInv'
  BY <1>1 DEF OrderInv, Orderly
<1>3. /\ Dispatching /\ served \o Rest = [i \in 1 .. sent |-> i] /\ Inv
      /\ itemsWaiting \in Nat /\ served \in Seq(Item) /\ Contents \in Seq(Item)
  <2>1. Inv /\ served \in Seq(Item) /\ itemsWaiting \in Nat
    BY DEF RecvInv, RecvTypes, Inv, TypeOK
  <2> QED BY <1>2, <2>1, ContentsSeq DEF OrderInv, ServedInOrder, Rest
<1>4. Inv' /\ RecvInv'
  BY RecvStep DEF RecvInv
<1>5. ASSUME UNCHANGED vars PROVE Contents' = Contents /\ Forward(reader)' = Forward(reader)
  BY <1>5 DEF vars, Contents, Forward, tail
<1>6. itemsWaiting > 0 => Contents # <<>> /\ Forward(reader) # NoItem
                          /\ slots[Forward(reader)] = Head(Contents)
  <2>1. SUFFICES ASSUME itemsWaiting > 0
                 PROVE  Contents # <<>> /\ Forward(reader) # NoItem
    BY FrontIsWaiting DEF RecvInv, Sized, Inv, TypeOK
  <2>2. Forward(reader) \in Nat
    BY DEF Inv, TypeOK, RecvInv, Forward
  <2> QED BY <1>3, <2>1, <2>2, ContentsSeq, EmptySeq DEF Setting
<1>7. CASE UNCHANGED rvars
  <2>1. UNCHANGED vars /\ UNCHANGED kvars
    BY <1>7 DEF rvars
  <2> QED BY <1>3, <1>5, <2>1 DEF kvars, vars, OrderInv, Dispatching, ServedInOrder, InHand, Rest
<1>8. CASE CheckIfReady
  <2>1. UNCHANGED vars /\ ~InHand /\ ~InHand' /\ served' = served /\ sent' = sent
    BY <1>8 DEF CheckIfReady, InHand
  <2>2. Dispatching'
    BY <1>3, <1>8 DEF CheckIfReady, Dispatching, queueCheckEvents, vars
  <2> QED BY <1>3, <1>5, <2>1, <2>2 DEF OrderInv, ServedInOrder, Rest
<1>9. CASE FillEventInfo
  <2>1. UNCHANGED vars /\ ~InHand /\ ~InHand' /\ served' = served /\ sent' = sent
    BY <1>9 DEF FillEventInfo, InHand
  <2>2. Dispatching'
    BY <1>3, <1>5, <1>9, <2>1 DEF FillEventInfo, Dispatching, vars
  <2> QED BY <1>3, <1>5, <2>1, <2>2 DEF OrderInv, ServedInOrder, Rest
<1>10. CASE Callback
  <2>1. /\ pc = "callback" /\ pc' = "remove" /\ ~InHand /\ attached' = attached
        /\ trigger' = trigger /\ eventData' = eventData /\ sent' = sent
    BY <1>2, <1>10 DEF Callback, Orderly, InHand
  <2>2. CASE trigger = "receiver"
    <3>1. /\ itemsWaiting > 0 /\ eventData = Forward(reader) /\ eventData # NoItem /\ InHand'
          /\ UNCHANGED vars /\ served' = Append(served, Head(Contents))
      BY <1>3, <1>6, <1>10, <2>1, <2>2 DEF Dispatching, Callback, InHand
    <3>2. served' \o Tail(Contents) = served \o Contents
      BY <1>3, <1>6, <3>1, HeadMoves
    <3>3. Dispatching'
      BY <1>3, <1>5, <2>1, <3>1 DEF Dispatching, vars
    <3> QED BY <1>3, <1>5, <2>1, <3>1, <3>2, <3>3 DEF OrderInv, ServedInOrder, Rest
  <2>3. CASE trigger # "receiver" /\ UNCHANGED vars /\ served' = served
    BY <1>3, <1>5, <2>1, <2>3 DEF OrderInv, ServedInOrder, Rest, Dispatching, InHand
  <2>4. CASE trigger # "receiver" /\ itemsWaiting > 0 /\ Receive
             /\ served' = Append(served, res'.val)
    <3>1. served' \o Contents' = served \o Contents
      BY <1>3, <2>4, ReceiveTakesFront, HeadMoves, ZenonT(60)
    <3> QED BY <1>3, <2>1, <2>4, <3>1 DEF OrderInv, ServedInOrder, Rest, Dispatching, InHand
  <2> QED BY <1>10, <2>2, <2>3, <2>4 DEF Callback
<1>11. CASE FinishDispatch
  <2>1. pc = "remove" /\ pc' = "check" /\ ~InHand' /\ UNCHANGED <<attached, served, sent>>
    BY <1>11 DEF FinishDispatch, InHand
  <2>2. Dispatching'
    BY <1>3, <2>1 DEF Dispatching
  <2>3. CASE trigger # "receiver" /\ UNCHANGED vars
    BY <1>3, <1>5, <2>1, <2>2, <2>3 DEF OrderInv, ServedInOrder, Rest, InHand
  <2>4. CASE trigger = "receiver" /\ RemoveFront
    <3>1. itemsWaiting > 0 /\ InHand
      BY <1>3, <1>6, <2>1, <2>4 DEF Dispatching, InHand
    <3>2. dropFront
      BY <1>3, <2>4, <3>1 DEF RemoveFront
    <3>3. Contents' = Tail(Contents)
      BY <1>3, <1>4, <3>1, <3>2, DropContents
    <3> QED BY <1>3, <2>1, <2>2, <3>1, <3>3 DEF OrderInv, ServedInOrder, Rest
  <2> QED BY <1>11, <2>3, <2>4 DEF FinishDispatch
<1>12. ASSUME NEW pos \in app.positions, Post(pos) PROVE OrderInv'
  BY <1>2, <1>12, OrderPost DEF Orderly
<1>13. ~OtherTakes
  BY <1>2 DEF Orderly, OtherTakes
<1>14. CASE AttachQueue
  <2>1. /\ itemsWaiting' = 0 /\ pc = "setup" /\ pc' = "check" /\ attached' = TRUE
        /\ served' = served /\ sent' = sent /\ itemsWaiting = 0
    BY <1>14, AttachStep DEF AttachQueue, RecvInv, Sized, Inv, TypeOK
  <2>2. Contents = <<>> /\ Contents' = <<>> /\ ~InHand /\ ~InHand'
    BY <2>1 DEF Contents, InHand
  <2>3. Dispatching'
    BY <2>1 DEF Dispatching
  <2> QED BY <1>3, <2>1, <2>2, <2>3 DEF OrderInv, ServedInOrder, Rest
<1>15. CASE Elsewhere
  <2>1. UNCHANGED vars /\ ~InHand /\ ~InHand' /\ served' = served /\ sent' = sent
    BY <1>15 DEF Elsewhere, InHand
  <2>2. Dispatching'
    BY <1>3, <1>5, <1>15, <2>1 DEF Elsewhere, Dispatching, vars
  <2> QED BY <1>3, <1>5, <2>1, <2>2 DEF OrderInv, ServedInOrder, Rest
<1> QED BY <1>7, <1>8, <1>9, <1>10, <1>11, <1>12, <1>13, <1>14, <1>15 DEF RNext, Kernel

(* The task of an orderly application sees every accepted item once and in *)
(* the order of acceptance, however handlers and the four steps of the     *)
(* dispatcher interleave.                                                  *)
THEOREM OrderlyServedInOrder == Setting => (RSpec => []ServedInOrder)
<1> SUFFICES ASSUME Setting PROVE RSpec => []ServedInOrder
  OBVIOUS
<1>1. RInit => RecvInv /\ OrderInv
  BY RecvInit, OrderInit
<1>2. RecvInv /\ OrderInv /\ [RNext]_rvars => RecvInv' /\ OrderInv'
  BY RecvStep, OrderStep
<1>3. RecvInv /\ OrderInv => ServedInOrder
  BY DEF OrderInv, ServedInOrder
<1> QED BY <1>1, <1>2, <1>3, PTL DEF RSpec

------------------------------------------------------------------------------
(* Queued notifications.                                                   *)

PrioQueueObject == [stack : [Cells -> Entry \cup {NoEntry}], index : Int]

(* Cells 0 .. n hold entries.                                                 *)
FilledTo(n) == \A i \in 0 .. n : pq.stack[i] # NoEntry

(* What insert() knows between its accesses, with one kind of caller.         *)
InsertKnows ==
  /\ stage \in {"load", "bump", "place"} => "task" \in use.callers /\ new \in Entry
  /\ stage \in {"load", "bump"} => hasRoom(pq)
  /\ stage = "bump" => loaded = pq.index
  /\ stage = "place" => FilledTo(pq.index - 1)
  /\ stage # "place" => FilledTo(pq.index)

(* Without removals index counts the live cells.                              *)
Counted ==
  ~use.removals =>
    /\ stage # "clean" /\ pq.index >= -1
    /\ stage = "place" => pq.index >= 0

Shape ==
  /\ use \in Uses /\ prio \in [Task -> use.levels]
  /\ pq \in PrioQueueObject /\ pq.index < Size
  /\ stage \in {"out", "load", "bump", "place", "clean"}
  /\ loaded \in Int /\ cell \in Nat /\ (stage = "clean" => cell >= 1)

Sound == Shape /\ InsertKnows /\ Counted

NotifyInv == ~Mixed => Sound

-----------------------------------------------------------------------------
(* clearIndex() of a cell at most index leaves the live cells filled.         *)
LEMMA ClearKeeps ==
  ASSUME NEW q \in PrioQueueObject, q.index < Size, NEW c,
         \A i \in 0 .. q.index : q.stack[i] # NoEntry
  PROVE  /\ clearIndex(q, c) \in PrioQueueObject /\ clearIndex(q, c).index = q.index - 1
         /\ \A i \in 0 .. q.index - 1 : clearIndex(q, c).stack[i] # NoEntry
<1>. DEFINE r == clearIndex(q, c)
<1>1. /\ q.index \in Int /\ Size \in Nat
      /\ r.index = q.index - 1
      /\ r = [stack |-> r.stack, index |-> q.index - 1]
      /\ r.stack = [j \in Cells |-> IF c <= j /\ j < q.index THEN q.stack[j + 1]
                                    ELSE IF j = c THEN NoEntry ELSE q.stack[j]]
  BY PrioQueueAssumption DEF clearIndex, PrioQueueObject
<1>2. \A j \in Cells : j < q.index => j + 1 \in Cells
  BY <1>1 DEF Cells
<1>3. q.stack \in [Cells -> Entry \cup {NoEntry}]
  BY DEF PrioQueueObject
<1>4. r.stack \in [Cells -> Entry \cup {NoEntry}]
  BY <1>1, <1>2, <1>3
<1>5. r \in PrioQueueObject
  BY <1>1, <1>4 DEF PrioQueueObject
<1>6. ASSUME NEW i \in 0 .. q.index - 1
      PROVE  r.stack[i] # NoEntry
  <2>1. i \in Cells /\ i + 1 \in 0 .. q.index /\ i \in 0 .. q.index /\ i < q.index
    BY <1>1 DEF Cells
  <2>2. i = c => c <= i
    BY <2>1 DEF Cells
  <2>3. r.stack[i] = q.stack[i + 1] \/ r.stack[i] = q.stack[i]
    BY <1>1, <2>1, <2>2
  <2>. QED BY <2>1, <2>3
<1>. QED BY <1>1, <1>5, <1>6

(* An insert() without interference leaves them filled.                       *)
LEMMA InsertKeeps ==
  ASSUME NEW q \in PrioQueueObject, q.index < Size, NEW e \in Entry,
         \A i \in 0 .. q.index : q.stack[i] # NoEntry
  PROVE  /\ insert(q, e) \in PrioQueueObject /\ insert(q, e).index < Size
         /\ insert(q, e).index >= q.index
         /\ \A i \in 0 .. insert(q, e).index : insert(q, e).stack[i] # NoEntry
<1>1. q.index \in Int /\ Size \in Nat /\ NoEntry \notin Entry
  BY PrioQueueAssumption DEF PrioQueueObject, Entry
<1>2. CASE ~hasRoom(q)
  BY <1>1, <1>2 DEF insert
<1>3. CASE hasRoom(q)
  <2>. DEFINE r == insert(q, e)
  <2>1. r = [stack |-> [j \in Cells |-> IF j = q.index + 1 THEN e ELSE q.stack[j]],
             index |-> q.index + 1]
    BY <1>3 DEF insert
  <2>2. r.index = q.index + 1 /\ r.index < Size
    BY <1>1, <1>3, <2>1 DEF hasRoom
  <2>3. r.stack = [j \in Cells |-> IF j = q.index + 1 THEN e ELSE q.stack[j]]
    BY <2>1
  <2>4. r.stack \in [Cells -> Entry \cup {NoEntry}]
    BY <2>3 DEF PrioQueueObject
  <2>5. r \in PrioQueueObject
    BY <1>1, <2>1, <2>2, <2>3, <2>4 DEF PrioQueueObject
  <2>6. ASSUME NEW i \in 0 .. r.index
        PROVE  r.stack[i] # NoEntry
    <3>1. i \in Cells /\ (i = q.index + 1 \/ i \in 0 .. q.index)
      BY <1>1, <2>2 DEF Cells
    <3>. QED BY <1>1, <2>3, <3>1
  <2>. QED BY <1>1, <2>2, <2>5, <2>6
<1>. QED BY <1>2, <1>3

-----------------------------------------------------------------------------
(* The invariant holds at the start.                                          *)
LEMMA NotifyStarts == NotifyInit => NotifyInv
<1>. SUFFICES ASSUME NotifyInit PROVE Sound
  BY DEF NotifyInv
<1>1. pq.index = -1 /\ pq \in PrioQueueObject /\ Size \in Nat \ {0}
  BY PrioQueueAssumption DEF NotifyInit, Empty, PrioQueueObject
<1>2. Shape
  BY <1>1 DEF NotifyInit, Shape
<1>3. InsertKnows /\ Counted
  BY <1>1 DEF NotifyInit, InsertKnows, Counted, FilledTo
<1>. QED BY <1>2, <1>3 DEF Sound

(* Before an insert() reaches the array nothing moves.                        *)
LEMMA InsertCheckKeeps ==
  ASSUME Sound, NEW t \in Task, NEW d \in Data, InsertCheck(t, d)
  PROVE  Sound'
<1>1. /\ stage = "out" /\ stage' = "load" /\ new' \in Entry /\ hasRoom(pq) /\ "task" \in use.callers
      /\ UNCHANGED <<use, pq, prio, loaded, cell>>
  BY DEF InsertCheck, Entry
<1>2. Shape' /\ Counted'
  BY <1>1 DEF Sound, Shape, Counted
<1>3. InsertKnows'
  BY <1>1 DEF Sound, InsertKnows, FilledTo, hasRoom
<1>. QED BY <1>2, <1>3 DEF Sound

LEMMA InsertLoadKeeps ==
  ASSUME Sound, InsertLoad
  PROVE  Sound'
<1>1. /\ stage = "load" /\ stage' = "bump" /\ loaded' = pq.index
      /\ UNCHANGED <<use, pq, prio, new, cell>>
  BY DEF InsertLoad
<1>2. Shape' /\ Counted'
  BY <1>1 DEF Sound, Shape, Counted, PrioQueueObject
<1>3. InsertKnows'
  BY <1>1 DEF Sound, InsertKnows, FilledTo, hasRoom
<1>. QED BY <1>2, <1>3 DEF Sound

(* The new index is one beyond the live cells ...                             *)
LEMMA InsertBumpKeeps ==
  ASSUME Sound, InsertBump
  PROVE  Sound'
<1>1. /\ stage = "bump" /\ stage' = "place" /\ pq' = [pq EXCEPT !.index = loaded + 1]
      /\ UNCHANGED <<use, prio, new, loaded, cell>>
  BY DEF InsertBump
<1>2. /\ pq \in PrioQueueObject /\ loaded = pq.index /\ pq.index < Size - 1 /\ FilledTo(pq.index)
      /\ new \in Entry /\ "task" \in use.callers
  BY <1>1 DEF Sound, Shape, InsertKnows, hasRoom
<1>3. pq' \in PrioQueueObject /\ pq'.stack = pq.stack /\ pq'.index = pq.index + 1
  BY <1>1, <1>2 DEF PrioQueueObject
<1>4. pq.index \in Int /\ pq'.index - 1 = pq.index /\ pq'.index < Size
  BY <1>2, <1>3, PrioQueueAssumption DEF PrioQueueObject
<1>5. Shape' /\ Counted'
  BY <1>1, <1>3, <1>4 DEF Sound, Shape, Counted
<1>6. InsertKnows'
  BY <1>1, <1>2, <1>3, <1>4 DEF InsertKnows, FilledTo
<1>. QED BY <1>5, <1>6 DEF Sound

(* ... and the store fills it.                                                *)
LEMMA InsertPlaceKeeps ==
  ASSUME Sound, InsertPlace
  PROVE  Sound'
<1>1. /\ stage = "place" /\ stage' = "out" /\ loaded' = -1
      /\ pq' = [pq EXCEPT !.stack = [j \in Cells |-> IF j = pq.index THEN new ELSE pq.stack[j]]]
      /\ UNCHANGED <<use, prio, cell>>
  BY DEF InsertPlace
<1>2. /\ pq \in PrioQueueObject /\ pq.index \in Int /\ pq.index < Size /\ FilledTo(pq.index - 1)
      /\ new \in Entry
  BY <1>1 DEF Sound, Shape, InsertKnows, PrioQueueObject
<1>3. /\ pq'.index = pq.index
      /\ pq'.stack = [j \in Cells |-> IF j = pq.index THEN new ELSE pq.stack[j]]
  BY <1>1, <1>2 DEF PrioQueueObject
<1>4. pq'.stack \in [Cells -> Entry \cup {NoEntry}]
  BY <1>2, <1>3 DEF PrioQueueObject
<1>5. pq' \in PrioQueueObject
  BY <1>1, <1>2, <1>4 DEF PrioQueueObject
<1>6. FilledTo(pq.index)'
  <2>. SUFFICES ASSUME NEW i \in 0 .. pq.index PROVE pq'.stack[i] # NoEntry
    BY <1>3 DEF FilledTo
  <2>1. i \in Cells /\ (i = pq.index \/ i \in 0 .. pq.index - 1)
    BY <1>2, PrioQueueAssumption DEF Cells
  <2>2. NoEntry \notin Entry
    BY PrioQueueAssumption DEF Entry
  <2>. QED BY <1>2, <1>3, <2>1, <2>2 DEF FilledTo
<1>7. Shape' /\ Counted'
  BY <1>1, <1>2, <1>3, <1>5 DEF Sound, Shape, Counted
<1>8. InsertKnows'
  BY <1>1, <1>6 DEF InsertKnows
<1>. QED BY <1>7, <1>8 DEF Sound

(* A handler that may insert meets no half-done insert() of a task.           *)
LEMMA HandlerMeetsNone ==
  ASSUME ~Mixed, Sound, "handler" \in use.callers
  PROVE  stage \in {"out", "clean"}
<1>1. use.callers \subseteq {"task", "handler"}
  BY UseAssumption DEF Sound, Shape, IsUse
<1>2. "task" \notin use.callers
  BY <1>1 DEF Mixed
<1>. QED BY <1>2 DEF Sound, Shape, InsertKnows

LEMMA HandlerInsertKeeps ==
  ASSUME ~Mixed, Sound, NEW t \in Task, NEW d \in Data, HandlerInsert(t, d)
  PROVE  Sound'
<1>1. /\ "handler" \in use.callers /\ pq' = insert(pq, <<t, d>>)
      /\ UNCHANGED <<use, prio, stage, new, loaded, cell>>
  BY DEF HandlerInsert
<1>2. stage \in {"out", "clean"}
  BY <1>1, HandlerMeetsNone
<1>3. pq \in PrioQueueObject /\ pq.index \in Int /\ pq.index < Size /\ FilledTo(pq.index)
  BY <1>2 DEF Sound, Shape, InsertKnows, PrioQueueObject
<1>4. /\ pq' \in PrioQueueObject /\ pq'.index < Size /\ pq'.index >= pq.index
      /\ \A i \in 0 .. pq'.index : pq'.stack[i] # NoEntry
  BY <1>1, <1>3, InsertKeeps, <<t, d>> \in Entry DEF FilledTo, Entry
<1>5. pq'.index \in Int /\ FilledTo(pq.index)'
  BY <1>4 DEF PrioQueueObject, FilledTo
<1>6. Shape' /\ Counted'
  BY <1>1, <1>2, <1>3, <1>4, <1>5 DEF Sound, Shape, Counted
<1>7. InsertKnows'
  BY <1>1, <1>2, <1>5 DEF InsertKnows
<1>. QED BY <1>6, <1>7 DEF Sound

LEMMA GetKeeps ==
  ASSUME Sound, Get
  PROVE  Sound'
<1>1. PICK c : /\ pq' = clearIndex(pq, c) /\ stage = "out" /\ pq.index >= 0
               /\ UNCHANGED <<use, prio, stage, new, loaded, cell>>
  BY DEF Get, hasElements
<1>2. pq \in PrioQueueObject /\ pq.index \in Int /\ pq.index < Size /\ FilledTo(pq.index)
  BY <1>1 DEF Sound, Shape, InsertKnows, PrioQueueObject
<1>3. /\ pq' \in PrioQueueObject /\ pq'.index = pq.index - 1
      /\ \A i \in 0 .. pq'.index : pq'.stack[i] # NoEntry
  BY <1>1, <1>2, ClearKeeps DEF FilledTo
<1>4. FilledTo(pq.index)'
  BY <1>3 DEF FilledTo
<1>5. Shape' /\ Counted'
  BY <1>1, <1>2, <1>3, PrioQueueAssumption DEF Sound, Shape, Counted
<1>6. InsertKnows'
  BY <1>1, <1>4 DEF InsertKnows
<1>. QED BY <1>5, <1>6 DEF Sound

(* cleanUp(), cell by cell: live and left-over cells alike.                   *)
LEMMA CleanUpKeeps ==
  ASSUME Sound, CleanCell \/ EndCleanUp \/ \E t \in Task : CleanUp(t)
  PROVE  Sound'
<1>1. CASE \E t \in Task : CleanUp(t)
  <2>1. /\ stage = "out" /\ stage' = "clean" /\ cell' = 1 /\ use.removals
        /\ UNCHANGED <<use, pq, prio, new, loaded>>
    BY <1>1 DEF CleanUp
  <2>. QED BY <2>1 DEF Sound, Shape, Counted, InsertKnows, FilledTo
<1>2. CASE EndCleanUp
  <2>1. /\ stage = "clean" /\ stage' = "out" /\ cell' = 0
        /\ UNCHANGED <<use, pq, prio, new, loaded>>
    BY <1>2 DEF EndCleanUp
  <2>. QED BY <2>1 DEF Sound, Shape, Counted, InsertKnows, FilledTo
<1>3. CASE CleanCell
  <2>1. /\ stage = "clean" /\ pq' = cleared(pq, gone, cell) /\ cell' = cell + 1
        /\ UNCHANGED <<use, prio, stage, new, loaded>>
    BY <1>3 DEF CleanCell
  <2>2. pq \in PrioQueueObject /\ pq.index \in Int /\ pq.index < Size /\ FilledTo(pq.index)
    BY <2>1 DEF Sound, Shape, InsertKnows, PrioQueueObject
  <2>3. pq' = pq \/ pq' = clearIndex(pq, cell)
    BY <2>1 DEF cleared
  <2>4. /\ pq' \in PrioQueueObject /\ pq'.index <= pq.index
        /\ \A i \in 0 .. pq'.index : pq'.stack[i] # NoEntry
    <3>1. CASE pq' = pq
      BY <2>2, <3>1 DEF FilledTo
    <3>2. CASE pq' = clearIndex(pq, cell)
      BY <2>2, <3>2, ClearKeeps DEF FilledTo
    <3>. QED BY <2>3, <3>1, <3>2
  <2>5. pq'.index < Size /\ FilledTo(pq.index)'
    BY <2>2, <2>4, PrioQueueAssumption DEF FilledTo, PrioQueueObject
  <2>6. use.removals
    BY <2>1 DEF Sound, Counted
  <2>7. Shape' /\ Counted'
    BY <2>1, <2>4, <2>5, <2>6 DEF Sound, Shape, Counted
  <2>8. InsertKnows'
    BY <2>1, <2>5 DEF InsertKnows
  <2>. QED BY <2>7, <2>8 DEF Sound
<1>. QED BY <1>1, <1>2, <1>3

LEMMA ChangePriorityKeeps ==
  ASSUME Sound, NEW t \in Task, NEW p \in use.levels, ChangePriority(t, p)
  PROVE  Sound'
<1>1. /\ prio' = [prio EXCEPT ![t] = p]
      /\ UNCHANGED <<use, pq, stage, new, loaded, cell>>
  BY DEF ChangePriority
<1>. QED BY <1>1 DEF Sound, Shape, Counted, InsertKnows, FilledTo, hasRoom

(* Every step keeps it.                                                       *)
LEMMA NotifyStep == NotifyInv /\ [NotifyNext]_notifyVars => NotifyInv'
<1>. SUFFICES ASSUME NotifyInv, [NotifyNext]_notifyVars, ~Mixed' PROVE Sound'
  BY DEF NotifyInv
<1>1. UNCHANGED use
  BY DEF NotifyNext, notifyVars, InsertCheck, HandlerInsert, InsertLoad, InsertBump, InsertPlace,
         Get, CleanUp, CleanCell, EndCleanUp, ChangePriority
<1>2. ~Mixed /\ Sound
  BY <1>1 DEF Mixed, NotifyInv
<1>3. CASE UNCHANGED notifyVars
  BY <1>2, <1>3 DEF notifyVars, Sound, Shape, InsertKnows, Counted, FilledTo, hasRoom
<1>4. CASE NotifyNext
  BY <1>2, <1>4, InsertCheckKeeps, InsertLoadKeeps, InsertBumpKeeps, InsertPlaceKeeps,
     HandlerInsertKeeps, GetKeeps, CleanUpKeeps, ChangePriorityKeeps DEF NotifyNext
<1>. QED BY <1>3, <1>4

LEMMA NotifyInvariant == NotifySpec => []NotifyInv
BY NotifyStarts, NotifyStep, PTL DEF NotifySpec

(* For any number of cells, tasks and priorities: unless tasks and handlers   *)
(* both notify, the live cells of the queue hold tasks, whatever was          *)
(* extracted and cleaned up before (prioqueue.cpp 30-112).                    *)
THEOREM LiveCellsStayFilled == NotifySpec => []LiveCellsFilled
<1>1. NotifyInv => LiveCellsFilled
  <2>. SUFFICES ASSUME Sound, NEW i \in 0 .. pq.index, pq.stack[i] = NoEntry
                PROVE  stage = "place" /\ i = pq.index
    BY DEF NotifyInv, LiveCellsFilled
  <2>1. stage = "place" /\ FilledTo(pq.index - 1)
    BY DEF Sound, InsertKnows, FilledTo
  <2>2. pq.index \in Int
    BY DEF Sound, Shape, PrioQueueObject
  <2>3. i = pq.index \/ i \in 0 .. pq.index - 1
    BY <2>2
  <2>. QED BY <2>1, <2>3 DEF FilledTo
<1>. QED BY <1>1, NotifyInvariant, PTL
-----------------------------------------------------------------------------
(* The queue as PriorityFifo sees it.                                         *)
LEMMA LiveFields ==
  ASSUME NEW q, q.index \in Int, q.index >= -1
  PROVE  /\ Live(q) = [i \in 1 .. q.index + 1 |-> q.stack[i - 1]]
         /\ Len(Live(q)) = q.index + 1 /\ DOMAIN Live(q) = 1 .. q.index + 1
BY DEF Live

LEMMA PendingIsLive ==
  stage # "place" => Pending = Live(pq)
BY DEF Pending

(* With one more live entry a notification is appended.                       *)
LEMMA LiveAppended ==
  ASSUME NEW q, q.index \in Int, q.index >= -1, \A i \in 0 .. q.index : q.stack[i] \in Entry,
         NEW r, NEW e \in Entry, r.index = q.index + 1, r.stack[r.index] = e,
         \A i \in 0 .. q.index : r.stack[i] = q.stack[i]
  PROVE  Live(r) = Append(Live(q), e) /\ Len(Live(q)) = q.index + 1
<1>1. /\ Live(q) = [i \in 1 .. q.index + 1 |-> q.stack[i - 1]]
      /\ Live(r) = [i \in 1 .. q.index + 2 |-> r.stack[i - 1]]
      /\ Len(Live(q)) = q.index + 1
  BY DEF Live
<1>2. Live(q) \in Seq(Entry)
  <2>1. \A i \in 1 .. q.index + 1 : i - 1 \in 0 .. q.index
    OBVIOUS
  <2>2. \A i \in 1 .. q.index + 1 : q.stack[i - 1] \in Entry
    BY <2>1
  <2>. QED BY <1>1, <2>2
<1>3. \A i \in 1 .. q.index + 2 : r.stack[i - 1] = IF i <= q.index + 1 THEN q.stack[i - 1] ELSE e
  <2>. TAKE i \in 1 .. q.index + 2
  <2>1. CASE i <= q.index + 1
    BY <2>1
  <2>2. CASE i = q.index + 2
    BY <2>2
  <2>. QED BY <2>1, <2>2
<1>4. Append(Live(q), e) = [i \in 1 .. q.index + 2 |-> IF i <= q.index + 1 THEN Live(q)[i] ELSE e]
  BY <1>1, <1>2
<1>. QED BY <1>1, <1>3, <1>4

(* Without the first entry its tail is left.                                  *)
LEMMA LiveWithoutFirst ==
  ASSUME NEW q \in PrioQueueObject, q.index >= 0, q.index < Size,
         \A i \in 0 .. q.index : q.stack[i] \in Entry
  PROVE  Live(clearIndex(q, 0)) = RemoveAt(Live(q), 1)
<1>. DEFINE r == clearIndex(q, 0)
<1>1. q.index \in Nat /\ Size \in Nat
  BY PrioQueueAssumption DEF PrioQueueObject
<1>2. /\ r.index = q.index - 1
      /\ r.stack = [j \in Cells |-> IF 0 <= j /\ j < q.index THEN q.stack[j + 1]
                                    ELSE IF j = 0 THEN NoEntry ELSE q.stack[j]]
  BY DEF clearIndex
<1>3. \A i \in 1 .. q.index : r.stack[i - 1] = q.stack[i]
  <2>. TAKE i \in 1 .. q.index
  <2>1. i - 1 \in Cells /\ 0 <= i - 1 /\ i - 1 < q.index /\ (i - 1) + 1 = i
    BY <1>1 DEF Cells
  <2>. QED BY <1>2, <2>1
<1>4. Live(r) = [i \in 1 .. q.index |-> q.stack[i]]
  <2>1. r.index + 1 = q.index
    BY <1>1, <1>2
  <2>2. Live(r) = [i \in 1 .. q.index |-> r.stack[i - 1]]
    BY <2>1 DEF Live
  <2>. HIDE DEF r
  <2>. QED BY <1>3, <2>2
<1>5. /\ Live(q) = [i \in 1 .. q.index + 1 |-> q.stack[i - 1]]
      /\ Len(Live(q)) = q.index + 1
  BY <1>1 DEF Live
<1>6. Live(q) \in Seq(Entry)
  <2>1. \A i \in 1 .. q.index + 1 : i - 1 \in 0 .. q.index
    BY <1>1
  <2>2. \A i \in 1 .. q.index + 1 : q.stack[i - 1] \in Entry
    BY <2>1
  <2>. QED BY <1>1, <1>5, <2>2
<1>7. RemoveAt(Live(q), 1) = SubSeq(Live(q), 1, 0) \o SubSeq(Live(q), 2, q.index + 1)
  <2>. DEFINE L == Live(q)
  <2>. HIDE DEF L
  <2>1. RemoveAt(L, 1) = SubSeq(L, 1, 1 - 1) \o SubSeq(L, 1 + 1, Len(L))
    BY DEF RemoveAt
  <2>2. RemoveAt(L, 1) = SubSeq(L, 1, 0) \o SubSeq(L, 2, Len(L))
    <3>1. 1 - 1 = 0 /\ 1 + 1 = 2
      OBVIOUS
    <3>. QED BY <2>1, <3>1, Zenon
  <2>. QED BY <1>5, <2>2 DEF L
<1>8. SubSeq(Live(q), 2, q.index + 1) = [i \in 1 .. q.index |-> Live(q)[i + 1]]
  BY <1>1, <1>5, <1>6
<1>9. [i \in 1 .. q.index |-> Live(q)[i + 1]] = [i \in 1 .. q.index |-> q.stack[i]]
  BY <1>1, <1>5
<1>10. /\ SubSeq(Live(q), 1, 0) = <<>>
       /\ SubSeq(Live(q), 2, q.index + 1) \in Seq(Entry)
  BY <1>1, <1>5, <1>6
<1>11. RemoveAt(Live(q), 1) = SubSeq(Live(q), 2, q.index + 1)
  BY <1>7, <1>10
<1>. QED BY <1>4, <1>8, <1>9, <1>11

(* With equal priorities get() takes cell 0, and PriorityFifo the first.      *)
LEMMA FirstChosen ==
  ASSUME NEW p \in Nat, prio \in [Task -> {p}], pq \in PrioQueueObject, pq.stack[0] # NoEntry
  PROVE  Chosen(pq, prio) = 0
<1>. DEFINE P(i) == prio[pq.stack[i][1]]
            best(i) == \A j \in Scanned(pq) : P(j) < P(i) \/ (P(j) = P(i) /\ i <= j)
<1>1. 0 \in Scanned(pq) /\ Scanned(pq) \subseteq Nat
  BY PrioQueueAssumption DEF Scanned, Cells
<1>2. \A j \in Scanned(pq) : P(j) = p
  <2>. SUFFICES ASSUME NEW j \in Scanned(pq) PROVE P(j) = p
    OBVIOUS
  <2>1. j \in Cells /\ j \in Nat /\ (j = 0 \/ j \in 1 .. j)
    BY <1>1 DEF Scanned
  <2>2. pq.stack[j] # NoEntry
    BY <2>1 DEF Scanned
  <2>3. pq.stack[j] \in Entry
    BY <2>1, <2>2 DEF PrioQueueObject
  <2>4. pq.stack[j][1] \in Task
    BY <2>3 DEF Entry
  <2>. QED BY <2>4
<1>. HIDE DEF P
<1>3. best(0)
  BY <1>1, <1>2
<1>4. Chosen(pq, prio) = CHOOSE i \in Scanned(pq) : best(i)
  BY DEF Chosen, P
<1>5. \A i \in Scanned(pq) : best(i) => i = 0
  BY <1>1, <1>2
<1>. HIDE DEF best
<1>. QED BY <1>1, <1>3, <1>4, <1>5

LEMMA FirstTaken ==
  ASSUME NEW p \in Nat, prio \in [Task -> {p}], NEW n \in Nat \ {0}, DOMAIN Pending = 1 .. n,
         \A i \in 1 .. n : Pending[i] \in Entry
  PROVE  Fifo!Next1 = 1
<1>. DEFINE P(i) == prio[Pending[i][1]]
            best(i) == \A j \in DOMAIN Pending : P(j) < P(i) \/ (P(j) = P(i) /\ i <= j)
<1>1. \A j \in DOMAIN Pending : P(j) = p
  <2>. TAKE j \in DOMAIN Pending
  <2>1. Pending[j][1] \in Task
    BY DEF Entry
  <2>. QED BY <2>1
<1>. HIDE DEF P
<1>2. 1 \in DOMAIN Pending /\ best(1)
  BY <1>1
<1>3. \A i \in DOMAIN Pending : best(i) => i = 1
  <2>. SUFFICES ASSUME NEW i \in 1 .. n, best(i) PROVE i = 1
    OBVIOUS
  <2>1. P(1) = p /\ P(i) = p
    BY <1>1
  <2>2. P(1) < P(i) \/ i <= 1
    BY <1>2
  <2>. QED BY <2>1, <2>2
<1>4. Fifo!Next1 = CHOOSE i \in DOMAIN Pending : best(i)
  BY DEF Fifo!Next1, P
<1>. HIDE DEF best
<1>. QED BY <1>2, <1>3, <1>4

(* What is pending are entries, index + 1 of them, but for the place that an  *)
(* insert() has reserved.                                                     *)
LEMMA PendingCells ==
  ASSUME Sound, NEW n \in Int, n = (IF stage = "place" THEN pq.index - 1 ELSE pq.index)
  PROVE  /\ \A i \in 0 .. n : pq.stack[i] \in Entry
         /\ Pending = Live([pq EXCEPT !.index = n])
<1>1. pq \in PrioQueueObject /\ pq.index \in Int /\ pq.index < Size /\ FilledTo(n)
  BY DEF Sound, Shape, InsertKnows, PrioQueueObject
<1>2. \A i \in 0 .. n : i \in Cells
  BY <1>1, PrioQueueAssumption DEF Cells
<1>3. \A i \in 0 .. n : pq.stack[i] \in Entry
  BY <1>1, <1>2 DEF PrioQueueObject, FilledTo
<1>4. stage # "place" => [pq EXCEPT !.index = n] = pq
  BY <1>1 DEF PrioQueueObject
<1>. QED BY <1>3, <1>4 DEF Pending

(* Initially nothing is pending.                                              *)
LEMMA FifoStarts == NotifyInit => (Uniform => Fifo!Init)
<1>. SUFFICES ASSUME NotifyInit PROVE Fifo!Init
  OBVIOUS
<1>1. Pending = <<>>
  BY DEF NotifyInit, Empty, Pending, Live
<1>2. use.levels \subseteq UNION {a.levels : a \in Uses}
  BY DEF NotifyInit
<1>3. prio \in [Task -> UNION {a.levels : a \in Uses}]
  BY <1>2 DEF NotifyInit
<1>. QED BY <1>1, <1>3 DEF Fifo!Init

(* insert() is one Notify of PriorityFifo, at its last access ...             *)
LEMMA InsertNotifies ==
  ASSUME Sound, Sound', ~use.removals, InsertPlace
  PROVE  Fifo!Next
<1>1. /\ stage = "place" /\ stage' = "out" /\ UNCHANGED <<use, prio>>
      /\ pq' = [pq EXCEPT !.stack = [j \in Cells |-> IF j = pq.index THEN new ELSE pq.stack[j]]]
  BY DEF InsertPlace
<1>2. /\ pq \in PrioQueueObject /\ pq.index \in Nat /\ pq.index < Size /\ new \in Entry
  BY <1>1 DEF Sound, Shape, InsertKnows, Counted, PrioQueueObject
<1>. DEFINE q == [pq EXCEPT !.index = pq.index - 1]
<1>3. /\ \A i \in 0 .. pq.index - 1 : pq.stack[i] \in Entry
      /\ Pending = Live(q)
  BY <1>1, <1>2, PendingCells
<1>4. q.index = pq.index - 1 /\ q.stack = pq.stack
  BY <1>2 DEF PrioQueueObject
<1>5. /\ pq'.index = pq.index
      /\ pq'.stack = [j \in Cells |-> IF j = pq.index THEN new ELSE pq.stack[j]]
  BY <1>1, <1>2 DEF PrioQueueObject
<1>6. pq'.stack[pq.index] = new /\ \A i \in 0 .. pq.index - 1 : pq'.stack[i] = pq.stack[i]
  BY <1>2, <1>5, PrioQueueAssumption DEF Cells
<1>7. Pending' = Live(pq')
  BY <1>1 DEF Pending
<1>. HIDE DEF q
<1>8. /\ q.index \in Int /\ q.index >= -1 /\ pq'.index = q.index + 1
      /\ \A i \in 0 .. q.index : q.stack[i] \in Entry
      /\ \A i \in 0 .. q.index : pq'.stack[i] = q.stack[i]
      /\ pq'.stack[pq'.index] = new
  BY <1>2, <1>3, <1>4, <1>5, <1>6
<1>9. Live(pq') = Append(Live(q), new) /\ Len(Live(q)) = q.index + 1
  BY <1>2, <1>8, LiveAppended
<1>10. Len(Pending) < Size /\ Pending' = Append(Pending, new)
  BY <1>2, <1>3, <1>4, <1>7, <1>9, PrioQueueAssumption
<1>11. PICK t \in Task, d \in Data : new = <<t, d>>
  BY <1>2 DEF Entry
<1>. QED BY <1>1, <1>10, <1>11 DEF Fifo!Next, Fifo!Notify

(* ... a handler's insert() as a whole, unless the queue is full ...          *)
LEMMA HandlerNotifies ==
  ASSUME ~Mixed, Sound, ~use.removals, NEW t \in Task, NEW d \in Data, HandlerInsert(t, d)
  PROVE  Fifo!Next \/ UNCHANGED <<Pending, prio>>
<1>. DEFINE e == <<t, d>>
<1>1. "handler" \in use.callers /\ pq' = insert(pq, e) /\ UNCHANGED <<use, prio, stage>>
  BY DEF HandlerInsert
<1>2. stage = "out" /\ stage' = "out"
  BY <1>1, HandlerMeetsNone DEF Sound, Counted
<1>3. /\ pq \in PrioQueueObject /\ pq.index \in Int /\ pq.index >= -1 /\ pq.index < Size
  BY DEF Sound, Shape, Counted, PrioQueueObject
<1>4. \A i \in 0 .. pq.index : pq.stack[i] \in Entry
  BY <1>2, <1>3, PendingCells
<1>5. Pending = Live(pq) /\ Pending' = Live(pq')
  BY <1>2 DEF Pending
<1>6. CASE ~hasRoom(pq)
  BY <1>1, <1>2, <1>6 DEF insert, Pending
<1>7. CASE hasRoom(pq)
  <2>1. pq' = [stack |-> [j \in Cells |-> IF j = pq.index + 1 THEN e ELSE pq.stack[j]],
               index |-> pq.index + 1]
    BY <1>1, <1>7 DEF insert
  <2>2. pq.index + 1 < Size
    BY <1>3, <1>7, PrioQueueAssumption DEF hasRoom
  <2>3. /\ pq'.index = pq.index + 1
        /\ pq'.stack = [j \in Cells |-> IF j = pq.index + 1 THEN e ELSE pq.stack[j]]
    BY <2>1
  <2>4. /\ pq'.stack[pq'.index] = e
        /\ \A i \in 0 .. pq.index : pq'.stack[i] = pq.stack[i]
    BY <1>3, <2>2, <2>3, PrioQueueAssumption DEF Cells
  <2>5. e \in Entry
    BY DEF Entry
  <2>6. Live(pq') = Append(Live(pq), e) /\ Len(Live(pq)) = pq.index + 1
    <3>. HIDE DEF e
    <3>. QED BY <1>3, <1>4, <2>3, <2>4, <2>5, LiveAppended
  <2>7. Len(Pending) < Size /\ Pending' = Append(Pending, <<t, d>>)
    BY <1>5, <2>2, <2>6
  <2>. QED BY <1>1, <2>7 DEF Fifo!Next, Fifo!Notify
<1>. QED BY <1>6, <1>7

(* ... and get() takes the first.                                             *)
LEMMA GetTakes ==
  ASSUME Sound, Sound', ~use.removals, NEW p \in Nat, use.levels = {p}, Get
  PROVE  Fifo!Next
<1>1. /\ stage = "out" /\ stage' = "out" /\ pq.index >= 0 /\ UNCHANGED <<use, prio>>
      /\ pq' = clearIndex(pq, Chosen(pq, prio)) /\ pq.stack[0] # NoEntry
  BY DEF Get, hasElements
<1>2. /\ pq \in PrioQueueObject /\ pq.index \in Nat /\ pq.index < Size
      /\ prio \in [Task -> {p}]
  BY <1>1 DEF Sound, Shape, PrioQueueObject
<1>3. \A i \in 0 .. pq.index : pq.stack[i] \in Entry
  <2>1. pq.index \in Int /\ pq.index = (IF stage = "place" THEN pq.index - 1 ELSE pq.index)
    BY <1>1, <1>2
  <2>. QED BY <2>1, PendingCells
<1>4. Pending = Live(pq) /\ Pending' = Live(pq')
  BY <1>1 DEF Pending
<1>5. pq' = clearIndex(pq, 0)
  BY <1>1, <1>2, FirstChosen
<1>6. Pending' = RemoveAt(Pending, 1)
  BY <1>2, <1>3, <1>4, <1>5, LiveWithoutFirst
<1>7. Pending = [i \in 1 .. pq.index + 1 |-> pq.stack[i - 1]]
  BY <1>4 DEF Live
<1>8. /\ DOMAIN Pending = 1 .. pq.index + 1 /\ Pending # <<>>
      /\ \A i \in 1 .. pq.index + 1 : Pending[i] \in Entry
  <2>1. \A i \in 1 .. pq.index + 1 : i - 1 \in 0 .. pq.index
    BY <1>2
  <2>2. DOMAIN Pending = 1 .. pq.index + 1 /\ 1 \in DOMAIN Pending
    BY <1>2, <1>7
  <2>3. \A i \in 1 .. pq.index + 1 : Pending[i] \in Entry
    BY <1>3, <1>7, <2>1
  <2>4. DOMAIN <<>> = {}
    OBVIOUS
  <2>. QED BY <2>2, <2>3, <2>4
<1>9. pq.index + 1 \in Nat \ {0}
  BY <1>2
<1>10. Fifo!Next1 = 1
  BY <1>2, <1>8, <1>9, FirstTaken
<1>11. Pending' = Fifo!RemoveAt(Pending, Fifo!Next1)
  BY <1>6, <1>10 DEF RemoveAt, Fifo!RemoveAt
<1>12. Fifo!Take
  BY <1>1, <1>8, <1>11 DEF Fifo!Take
<1>. QED BY <1>12 DEF Fifo!Next

(* Every step of a uniform use is one of PriorityFifo, or is none.            *)
LEMMA FifoStep ==
  ASSUME NotifyInv, NotifyInv', [NotifyNext]_notifyVars, Uniform
  PROVE  Fifo!Next \/ UNCHANGED <<Pending, prio>>
<1>1. PICK p \in Nat : use.levels = {p}
  BY UseAssumption DEF Uniform, NotifyInv, Sound, Shape, IsUse
<1>2. ~Mixed /\ ~use.removals /\ Sound
  BY DEF Uniform, NotifyInv
<1>3. UNCHANGED use
  BY DEF NotifyNext, notifyVars, InsertCheck, HandlerInsert, InsertLoad, InsertBump, InsertPlace,
         Get, CleanUp, CleanCell, EndCleanUp, ChangePriority
<1>4. Sound'
  BY <1>2, <1>3 DEF NotifyInv, Mixed
<1>5. CASE UNCHANGED notifyVars
  BY <1>5 DEF notifyVars, Pending
<1>6. CASE \E t \in Task, d \in Data : InsertCheck(t, d)
  BY <1>6 DEF InsertCheck, Pending
<1>7. CASE InsertLoad
  BY <1>7 DEF InsertLoad, Pending
<1>8. CASE InsertBump
  <2>1. /\ stage = "bump" /\ stage' = "place" /\ pq' = [pq EXCEPT !.index = loaded + 1]
        /\ UNCHANGED prio /\ loaded = pq.index /\ pq \in PrioQueueObject
    BY <1>2, <1>8 DEF InsertBump, Sound, Shape, InsertKnows
  <2>2. pq'.stack = pq.stack /\ pq'.index - 1 = pq.index
    BY <2>1 DEF PrioQueueObject
  <2>3. pq' \in PrioQueueObject
    BY <1>4 DEF Sound, Shape
  <2>4. [pq' EXCEPT !.index = pq'.index - 1] = pq
    BY <2>1, <2>2, <2>3 DEF PrioQueueObject
  <2>5. Pending = Live(pq) /\ Pending' = Live([pq' EXCEPT !.index = pq'.index - 1])
    BY <2>1 DEF Pending
  <2>. QED BY <2>1, <2>4, <2>5
<1>9. CASE InsertPlace
  BY <1>2, <1>4, <1>9, InsertNotifies
<1>10. CASE \E t \in Task, d \in Data : HandlerInsert(t, d)
  BY <1>2, <1>10, HandlerNotifies
<1>11. CASE Get
  BY <1>1, <1>2, <1>4, <1>11, GetTakes
<1>12. CASE CleanCell \/ EndCleanUp \/ \E t \in Task : CleanUp(t)
  BY <1>2, <1>12 DEF CleanCell, EndCleanUp, CleanUp, Sound, Counted
<1>13. CASE \E t \in Task, l \in use.levels : ChangePriority(t, l)
  <2>1. PICK t \in Task, l \in use.levels : ChangePriority(t, l)
    BY <1>13
  <2>2. prio' = [prio EXCEPT ![t] = l] /\ UNCHANGED Pending
    BY <2>1 DEF ChangePriority, Pending
  <2>3. l \in UNION {a.levels : a \in Uses}
    BY <1>2 DEF Sound, Shape
  <2>. QED BY <2>2, <2>3 DEF Fifo!Next, Fifo!SetPriority
<1>. QED BY <1>5, <1>6, <1>7, <1>8, <1>9, <1>10, <1>11, <1>12, <1>13 DEF NotifyNext

(* For any number of cells, tasks and data: a use with one priority, one kind *)
(* of caller and no removals sees first come first served, nothing lost and   *)
(* nothing repeated (prioqueue.cpp 30-91).                                    *)
THEOREM UniformIsFifo == NotifySpec => ImplementsPriorityFifo
<1>1. NotifyInv /\ NotifyInv' /\ [NotifyNext]_notifyVars
        => [Uniform => Fifo!Next]_<<Pending, prio>>
  BY FifoStep
<1>2. NotifySpec => [][Uniform => Fifo!Next]_<<Pending, prio>>
  BY <1>1, NotifyInvariant, PTL DEF NotifySpec
<1>. QED BY <1>2, FifoStarts DEF NotifySpec, ImplementsPriorityFifo
==============================================================================
