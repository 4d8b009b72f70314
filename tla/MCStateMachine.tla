--------------------------- MODULE MCStateMachine ---------------------------
(* StateMachine for charts of five states under the top: a contains b and  *)
(* e, b contains c and d.                                                  *)
EXTENDS StateMachine

CONSTANTS top, a, b, c, d, e

Tree == [x \in {a, b, c, d, e} |->
           CASE x = a -> top [] x \in {b, e} -> a [] OTHER -> b]

Chart(inits, modes, starts) ==
  [parent |-> Tree, init |-> [x \in State |-> IF x \in DOMAIN inits THEN inits[x] ELSE Null],
   modes |-> modes, starts |-> starts]

Nested   == [x \in {top, a, b} |-> CASE x = top -> a [] x = a -> b [] OTHER -> c]
Distant  == [x \in {top} |-> c]

Resuming == Chart(Nested, Modes, FALSE)
Bare     == Chart(Distant, Modes, FALSE)
Starting == Chart(Nested, Modes, TRUE)

All == {Resuming, Bare, Starting}
Defaults == {Chart(Nested, {"none"}, FALSE)}
=============================================================================
