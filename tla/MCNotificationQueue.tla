------------------------- MODULE MCNotificationQueue -------------------------
(* NotificationQueue under tasks of two priorities that notify each other.    *)
EXTENDS NotificationQueue

TwoLevels  == {[levels |-> {0, 1}, callers |-> {"task"}, removals |-> FALSE]}
=============================================================================
