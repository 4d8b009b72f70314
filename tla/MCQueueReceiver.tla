--------------------------- MODULE MCQueueReceiver ---------------------------
(* QueueReceiver under an application whose handlers also post at the front.  *)
EXTENDS QueueReceiver

Urgent == {[modes |-> {"receiver"}, positions |-> {"back", "front"},
            otherReceiver |-> FALSE, selfDetach |-> FALSE, before |-> {}]}
=============================================================================
