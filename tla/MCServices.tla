----------------------------- MODULE MCServices -----------------------------
(* The timer and the services built on it and beside it, checked in one run.  *)
(* A behaviour is one of a single component, which the first state chooses;   *)
(* the variables of the others stay in an initial state of theirs, where each *)
(* component's invariants are not looked at.                                  *)
EXTENDS Timer, Response, Publisher, SignalDelivery, Input, CommandLine

VARIABLES component,
          written, line                                                           \* texts

-----------------------------------------------------------------------------
(* State machines without a queue, with a queue that overflows, with one that *)
(* has room for everything sent, and two with room for the urgent signals or  *)
(* the endless ones of a callback beside that of the timeout.                 *)
App(queue, senders, urgent, timed, stops, plain) ==
  [queue |-> queue, senders |-> senders, urgent |-> urgent, timed |-> timed, stops |-> stops, plain |-> plain]

NoQueue   == App(0, {"task", "handler"}, FALSE, FALSE, FALSE, FALSE)
Alone     == App(0, {"task"}, FALSE, FALSE, FALSE, FALSE)
Tight     == App(1, {"task"}, TRUE, TRUE, TRUE, FALSE)
Stopping  == App(4, {"task"}, FALSE, TRUE, TRUE, FALSE)
Posting   == App(4, {"handler"}, FALSE, TRUE, FALSE, FALSE)
Contended == App(2, {"handler"}, FALSE, TRUE, TRUE, FALSE)
Hurried   == App(3, {"task", "handler"}, TRUE, TRUE, FALSE, FALSE)
Endless   == App(2, {"task", "handler"}, FALSE, TRUE, TRUE, TRUE)

Uses == {NoQueue, Alone, Tight, Stopping, Posting, Contended, Hurried, Endless}

(* Patterns that begin with their own end, or repeat their beginning; one     *)
(* longer than the buffer, data with a NUL, a length beyond the buffer.       *)
Waits == [pattern : {<<"a", "b", "a">>, <<"a">>}, n : {0}, timed : BOOLEAN]
           \cup [pattern : {<<"a", "a", "b">>}, n : {2}, timed : {TRUE}]
           \cup [pattern : {<<"b", "a", "b", "a", "a">>}, n : {0, 3}, timed : {TRUE}]
           \cup [pattern : {<<"a", "0", "b">>}, n : {3, 5}, timed : {TRUE}]

(* Two commands of different options and one whose name is refused; one line  *)
(* is longer than the buffer, and so is one of the blocks.                    *)
Command(name, options, least, most, reply) ==
  [name |-> name, options |-> options, minArgs |-> least, maxArgs |-> most, reply |-> reply]

MCLines == {<<"A", "t", "x">>, <<"a", "t", "y", "?">>, <<"a", "t", " ", "x", "=", "b", ",", "c">>}
MCBlocks == {<<"a", "t", "y", "=", "?", "x", "x">>, <<"a", "t", "i", "d">>}
MCOffered == <<Command(<<"x">>, {"ACT"}, 0, 0, "X"),
               Command(<<"a", "t", "x">>, {"ACT", "PARA"}, 1, 2, "X"),
               Command(<<"a", "t", "y">>, {"READ", "TEST"}, 0, 0, "Y")>>
MCLower == [x \in {"A"} |-> "a"]
MCAT == <<"a", "t">>
MCATID == <<"a", "t", "i", "d">>

(* A digital channel, an analog one whose band is watched, one whose steps    *)
(* and differences are, and three analog ones of one pin.                     *)
MCConfigs == {[d |-> <<FALSE>>], [d |-> <<TRUE>>], [z |-> <<1, 5, 1>>], [v |-> <<1, 5, 1>>],
              [w |-> <<1, 4, 1>>, x |-> <<1, 4, 1>>, y |-> <<1, 4, 1>>]}
MCNumber == [w |-> 1, x |-> 1, y |-> 1, z |-> 2, d |-> 3, v |-> 4]
MCPinValues == <<{0}, {0, 2, 3, 6}, {0, 1}, {0, 3, 6}>>
MCSettings == {<<"d", "STEADY_IN_LOW", 1>>, <<"z", "STEADY_IN_BAND", 1>>, <<"v", "STEP_UP", 2>>,
               <<"v", "DELTA", 3>>}

(* Two arguments on a line, of every kind, with the extreme values.           *)
Arguments ==
  [kind : {"int"}, value : {-32767, -10, -1, 0, 1, 9, 10, 100, 32767}]
    \cup [kind : {"hex"}, value : {0, 1, 10, 15, 16, 171, 255, 4095}]
    \cup [kind : {"dump"}, value : {<<0>>, <<16, 255>>, <<1, 2, 3>>}]
    \cup [kind : {"float"}, value : {-13, -8, -1, 0, 5, 17, 800}, precision : {0, 1, 3, 4}]
    \cup [kind : {"pointer"}, value : {0, 26, 4096}] \cup [kind : {"bool"}, value : BOOLEAN]
    \cup [kind : {"word"}, value : {<<>>, <<"x">>, <<"1", "-", "y">>}]

T == INSTANCE Text WITH W <- 16, MaxLine <- 24, Values <- Arguments
-----------------------------------------------------------------------------
texts == <<written, line>>
all == <<component, vars, deliveryVars, publisherVars, responseVars, cliVars, inputVars, texts>>

MCInit ==
  /\ component \in {"timer", "signals", "publisher", "response", "cli", "input", "text"}
  /\ Init /\ (component # "timer" => tick = 0)
  /\ DeliveryInit /\ (component # "signals" => app = NoQueue)
  /\ PublisherInit /\ ResponseInit /\ CliInit /\ T!Init
  /\ component # "response" => pattern2Match = [x \in 1 .. MaxStrLength |-> NUL]
  /\ InputInit /\ (component # "input" => "z" \in DOMAIN conf)

MCNext ==
  /\ UNCHANGED component
  /\ IF component = "timer" THEN Next ELSE UNCHANGED vars
  /\ IF component = "signals" THEN DeliveryNext ELSE UNCHANGED deliveryVars
  /\ IF component = "publisher" THEN PublisherNext ELSE UNCHANGED publisherVars
  /\ IF component = "response" THEN ResponseNext ELSE UNCHANGED responseVars
  /\ IF component = "cli" THEN CliNext ELSE UNCHANGED cliVars
  /\ IF component = "input" THEN InputNext ELSE UNCHANGED inputVars
  /\ IF component = "text" THEN T!Next ELSE UNCHANGED texts

(* The fairness of SignalDelivery, Response and CommandLine; the safety       *)
(* properties of the others need none.                                        *)
MCSpec ==
  /\ MCInit /\ [][MCNext]_all
  /\ WF_deliveryVars(component = "signals" /\ MachineStep)
  /\ SF_deliveryVars(component = "signals" /\ Return)
  /\ WF_responseVars(component = "response" /\ Task)
  /\ WF_responseVars(component = "response" /\ Expire)
  /\ WF_cliVars(component = "cli" /\ CliTask)
-----------------------------------------------------------------------------
(* Text: every argument of a command line is read back as the value it was    *)
(* printed from (util.cpp 128-529; cli.cpp 381-455).                          *)
ArgumentsReadBack == component = "text" => T!ArgumentsReadBack
=============================================================================
