---------------------------- MODULE PriorityFifo -----------------------------
(***************************************************************************)
(* What the documentation promises of queued notifications: a bounded set  *)
(* of pending notifications, taken highest task priority first and in      *)
(* arrival order within a priority.                                        *)
(***************************************************************************)
EXTENDS Integers, Sequences, SequencesExt

CONSTANTS Task, Data, Levels, Size
VARIABLES pending,   \* <<task, data>> pairs in arrival order
          prio       \* current task priorities

(* The first of the pending notifications with the highest priority.       *)
Next1 == CHOOSE i \in DOMAIN pending :
           \A j \in DOMAIN pending :
             \/ prio[pending[j][1]] < prio[pending[i][1]]
             \/ prio[pending[j][1]] = prio[pending[i][1]] /\ i <= j

Notify(t, d) ==
  /\ Len(pending) < Size
  /\ pending' = Append(pending, <<t, d>>)
  /\ UNCHANGED prio

Take == pending # <<>> /\ pending' = RemoveAt(pending, Next1) /\ UNCHANGED prio

SetPriority(t, p) == prio' = [prio EXCEPT ![t] = p] /\ UNCHANGED pending

Init == pending = <<>> /\ prio \in [Task -> Levels]

Next == \/ \E t \in Task, d \in Data : Notify(t, d)
        \/ Take
        \/ \E t \in Task, p \in Levels : SetPriority(t, p)

Spec == Init /\ [][Next]_<<pending, prio>>
=============================================================================
