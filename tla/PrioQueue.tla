------------------------------ MODULE PrioQueue ------------------------------
(***************************************************************************)
(* The operations of qOS::prioQueue (src/src/prioqueue.cpp), as functions  *)
(* of the queue object: an array of Size entries and the index of its last *)
(* live entry (-1 when empty).  An entry is a task with the data it was    *)
(* notified with; NoEntry is a cell whose pTask is null.                   *)
(***************************************************************************)
EXTENDS Integers, Sequences, SequencesExt

CONSTANTS Task, Data,
          Size,      \* Q_PRIO_QUEUE_SIZE
          NoEntry

ASSUME PrioQueueAssumption == Size \in Nat \ {0} /\ NoEntry \notin (Task \X Data)

Entry == Task \X Data
Cells == 0 .. Size - 1

Empty == [stack |-> [i \in Cells |-> NoEntry], index |-> -1]

hasElements(q) == q.index >= 0

(* The cells get() looks at: cell 0, then on until the first null cell.    *)
(* The scan does not stop at index.                                        *)
Scanned(q) == {i \in Cells : \A j \in 1 .. i : q.stack[j] # NoEntry}

(* Mutant: >= for > in the scan, the last one of the highest priority.     *)
ChosenLast(q, prio) ==
  LET P(i) == prio[q.stack[i][1]]
  IN CHOOSE i \in Scanned(q) :
       \A j \in Scanned(q) : P(j) < P(i) \/ (P(j) = P(i) /\ j <= i)

(* Of those, the first one whose task has the highest priority.            *)
Chosen(q, prio) ==
  LET P(i) == prio[q.stack[i][1]]
  IN CHOOSE i \in Scanned(q) :
       \A j \in Scanned(q) : P(j) < P(i) \/ (P(j) = P(i) /\ i <= j)

(* Mutant: the gap is not closed.                                          *)
clearIndexGap(q, c) ==
  [stack |-> [q.stack EXCEPT ![c] = NoEntry], index |-> q.index - 1]

(* clearIndex() nulls the cell, closes the gap up to index and decrements  *)
(* index.  The cell index pointed to keeps its old content when something  *)
(* was shifted.                                                            *)
clearIndex(q, c) ==
  [stack |-> [j \in Cells |->
                IF c <= j /\ j < q.index THEN q.stack[j + 1]
                ELSE IF j = c THEN NoEntry ELSE q.stack[j]],
   index |-> q.index - 1]

(* insert() without interference; a false return is an unchanged queue.    *)
hasRoom(q) == q.index < Size - 1
insert(q, e) ==
  IF hasRoom(q)
    THEN [stack |-> [j \in Cells |-> IF j = q.index + 1 THEN e ELSE q.stack[j]],
          index |-> q.index + 1]
    ELSE q

(* The body of cleanUp()'s loop: a cell that names the task is cleared,    *)
(* live or left over.                                                      *)
cleared(q, t, i) ==
  IF q.stack[i] # NoEntry /\ q.stack[i][1] = t THEN clearIndex(q, i) ELSE q

(* cleanUp() walks the cells 1 .. Size-1 in order.                         *)
cleanUp(q, t) == FoldLeft(LAMBDA acc, i : cleared(acc, t, i), q, [i \in 1 .. Size - 1 |-> i])

isTaskInside(q, t) == \E i \in 0 .. q.index : q.stack[i] # NoEntry /\ q.stack[i][1] = t

(* The live entries, oldest first.                                         *)
Live(q) == [i \in 1 .. q.index + 1 |-> q.stack[i - 1]]
=============================================================================
