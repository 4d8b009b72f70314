-------------------------------- MODULE Deque --------------------------------
(***************************************************************************)
(* What a qOS::queue promises its callers: a bounded sequence of items     *)
(* that can be extended at either end and is read at its front.  Every     *)
(* call that finds the queue full (send) or empty (receive, removeFront,   *)
(* peek) reports failure and changes nothing.  limit is 0 until the first  *)
(* successful setup().                                                     *)
(***************************************************************************)
EXTENDS Naturals, Sequences

CONSTANTS Item,      \* values a caller can post
          NoItem,    \* stands for "nothing handed over"
          MaxCount   \* largest queue length the callers ask for

VARIABLES items,     \* front of the queue first
          limit,     \* number of items the queue can hold
          res        \* what the last call returned

vars == <<items, limit, res>>

Yes(x) == [ok |-> TRUE, val |-> x]
No     == [ok |-> FALSE, val |-> NoItem]

Init == items = <<>> /\ limit = 0 /\ res = No

Setup(c) ==
  \/ /\ c > 0
     /\ items' = <<>> /\ limit' = c /\ res' = Yes(NoItem)
  \/ /\ c = 0
     /\ res' = No /\ UNCHANGED <<items, limit>>

Reset == items' = <<>> /\ res' = Yes(NoItem) /\ UNCHANGED limit

(* A send that finds room puts the item at the end it was asked for.       *)
Accept(newItems) ==
  \/ /\ Len(items) < limit
     /\ items' = newItems /\ res' = Yes(NoItem) /\ UNCHANGED limit
  \/ /\ Len(items) = limit
     /\ res' = No /\ UNCHANGED <<items, limit>>

SendBack(x)  == Accept(Append(items, x))
SendFront(x) == Accept(<<x>> \o items)

(* A call on the front item that finds the queue empty fails.              *)
Refuse == items = <<>> /\ res' = No /\ UNCHANGED <<items, limit>>

Receive ==
  \/ Refuse
  \/ /\ items # <<>>
     /\ items' = Tail(items) /\ res' = Yes(Head(items)) /\ UNCHANGED limit

RemoveFront ==
  \/ Refuse
  \/ /\ items # <<>>
     /\ items' = Tail(items) /\ res' = Yes(NoItem) /\ UNCHANGED limit

Peek ==
  \/ Refuse
  \/ items # <<>> /\ res' = Yes(Head(items)) /\ UNCHANGED <<items, limit>>

Next ==
  \/ \E c \in 0 .. MaxCount : Setup(c)
  \/ \E x \in Item : SendBack(x) \/ SendFront(x)
  \/ Receive \/ RemoveFront \/ Peek \/ Reset

Spec == Init /\ [][Next]_vars
=============================================================================
