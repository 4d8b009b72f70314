---------------------------- MODULE MCCoroutine -----------------------------
(* Coroutine with one routine that waits for a condition or a timeout, again  *)
(* and again.                                                                 *)
EXTENDS Coroutine

Sender == {[s |-> <<[op |-> "timedWaitUntil", arg |-> 2], [op |-> "restart", arg |-> 0]>>]}
NoSemaphore == [mutex |-> 0]
=============================================================================
