---------------------------- MODULE CommandLine -----------------------------
(* AT command line (cli.cpp): the interrupt handler collects a line in the    *)
(* input buffer and notifies the owner task at its end; the task parses the   *)
(* line, runs the subscribed command and releases the buffer in three writes, *)
(* which the handler may come between.  A command raised by a task is checked,*)
(* copied, fixed and announced in four steps, open to the handler as well.  A *)
(* text is a sequence of characters.                                          *)
(* text is the buffer up to its first null: what a write behind that null     *)
(* leaves is not seen by anybody, so it is not kept.                          *)
EXTENDS Integers, Sequences, SequencesExt, FiniteSets

CONSTANTS Lines,        \* what the peer sends, each followed by CR
          Blocks,       \* what comes through the handler for blocks of data, and raise()
          MaxIndex,     \* size of the input buffer - 1
          Offered,      \* what the application calls add() with, in this order
          Lower,        \* tolower, for the letters it changes
          Graph,        \* the characters isgraph accepts
          AT, ATID,     \* "at", "atid"
          MaxNotif      \* bound: notifications of the owner task pending at once

(* Lines are finite sequences of characters; the buffer has room for one.     *)
ASSUME CliAssumption ==
  MaxIndex \in Nat \ {0} /\ \A s \in Lines : Len(s) \in Nat

VARIABLES text, index, ready, cliPc, pending, sending, position, lineStart, expected, handled, answer,
          raised,      \* the command of a raise() under way
          raced        \* the handler wrote to the buffer during the raise() it goes with
raising == <<raised, raced>>
cliVars == <<text, index, ready, cliPc, pending, sending, position, lineStart, expected, handled, answer,
             raised, raced>>

CR == "\r"
Anything == <<CR>>      \* no line is known to be in the buffer
Q_CLI_MIN_INPUT_LENGTH == 3

CliInit ==
  /\ text = <<>> /\ index = 0 /\ ready = FALSE
  /\ cliPc = "idle" /\ pending = 0 /\ handled = <<>> /\ answer = "NO_RESPONSE"
  /\ sending = <<>> /\ position = 0 /\ lineStart = "none" /\ expected = Anything
  /\ raised = <<>> /\ raced = FALSE

(* add(): the name has two characters or more and begins with "at".           *)
add(subscribed, cmd) ==
  IF Len(cmd.name) >= 2 /\ IsPrefix(AT, cmd.name) THEN Append(subscribed, cmd) ELSE subscribed

Commands == FoldLeft(add, <<>>, Offered)

(* The characters of s from i to n that isgraph accepts: for a line, the text *)
(* of it had it been received from its i-th character on and nothing else.    *)
Graphic(s, i, n) ==
  LET upTo[k \in (i - 1)..n] ==
        IF k = i - 1 THEN <<>>
        ELSE IF s[k] \in Graph THEN Append(upTo[k - 1], s[k]) ELSE upTo[k - 1]
  IN upTo[n]

(* inputFix: the text up to CR, lower case up to = or ?, graphic characters.  *)
inputFix(s) ==
  LET last == SelectInSeq(s, LAMBDA c : c = CR)
      line == IF last = 0 THEN s ELSE SubSeq(s, 1, last - 1)
      args == SelectInSeq(line, LAMBDA c : c \in {"=", "?"})
      lowered == [i \in DOMAIN line |->
                    IF (args = 0 \/ i < args) /\ line[i] \in DOMAIN Lower THEN Lower[line[i]] ELSE line[i]]
  IN Graphic(lowered, 1, Len(lowered))

strcpy(s, maxlen) == SubSeq(s, 1, IF Len(s) + 1 < maxlen THEN Len(s) ELSE maxlen - 1)

(* preProcessing: the kind of use, from what follows the name of the command. *)
NumOfArgs(s) == 1 + Cardinality({i \in DOMAIN s : s[i] = ","})
UseOf(cmd, rest) ==
  CASE rest = <<>> -> "ACT"
    [] rest # <<>> /\ rest[1] = "?" -> "READ"
    [] Len(rest) >= 2 /\ rest[1] = "=" /\ rest[2] = "?" -> IF Len(rest) = 2 THEN "TEST" ELSE "UNDEF"
    [] Len(rest) >= 2 /\ rest[1] = "=" /\ rest[2] # "?" ->
         IF NumOfArgs(rest) \in cmd.minArgs .. cmd.maxArgs THEN "PARA" ELSE "UNDEF"
    [] OTHER -> "UNDEF"
preProcessing(cmd, s) ==
  LET use == UseOf(cmd, SubSeq(s, Len(cmd.name) + 1, Len(s)))
  IN IF use \in cmd.options THEN use ELSE "UNDEF"

(* exec: the first command whose name the text begins with.                   *)
exec(s) ==
  LET i == SelectInSeq(Commands, LAMBDA c : IsPrefix(c.name, s))
  IN IF i = 0 THEN "NOT_FOUND"
     ELSE IF preProcessing(Commands[i], s) = "UNDEF" THEN "NOT_ALLOWED"
     ELSE Commands[i].reply

responseTo(s) ==
  CASE s = AT -> "OK"
    [] s # AT /\ exec(s) # "NOT_FOUND" -> exec(s)
    [] s # AT /\ exec(s) = "NOT_FOUND" ->
         IF s = ATID THEN "DEVID"
         ELSE IF Len(s) >= Q_CLI_MIN_INPUT_LENGTH THEN "NOT_FOUND" ELSE "NO_RESPONSE"
-----------------------------------------------------------------------------
notify ==    \* called with the new text already in text'
  /\ ready' = TRUE /\ index' = 0
  /\ pending' = IF pending < MaxNotif THEN pending + 1 ELSE pending

(* The text of the buffer after c is stored at k, and a null behind it.       *)
Stored(s, k, c) == IF k <= Len(s) THEN SubSeq(s, 1, k) \o <<c>> ELSE s

(* What the peer's line is worth, once the handler has seen its next          *)
(* character: intact when all of it met a free buffer.                        *)
Raising == cliPc \in {"copy", "fix", "notify"}
Intact == ~ready /\ cliPc = "idle" /\ (position = 0 \/ lineStart = "intact")

(* Mutant: characters are stored while the buffer is taken.                   *)
isrCharAlways(line) ==
  LET c == line[position + 1]
      stores == c \in Graph
      next == IF stores THEN IF index + 1 >= MaxIndex THEN 0 ELSE index + 1 ELSE index
  IN /\ position < Len(line)
     /\ position = 0 \/ sending = line
     /\ sending' = line /\ position' = position + 1
     /\ text' = IF stores THEN Stored(text, index, c) ELSE text
     /\ index' = next
     /\ lineStart' = IF Intact THEN "intact" ELSE "broken"
     /\ raced' = (raced \/ (stores /\ Raising))
     /\ UNCHANGED <<ready, cliPc, pending, expected, handled, answer, raised>>

(* isrHandler( c ): the next character of the line being sent, or its CR.     *)
isrChar(line) ==
  LET c == line[position + 1]
      stores == ~ready /\ c \in Graph
      next == IF stores THEN IF index + 1 >= MaxIndex THEN 0 ELSE index + 1 ELSE index
  IN /\ position < Len(line)
     /\ position = 0 \/ sending = line
     /\ sending' = line /\ position' = position + 1
     /\ text' = IF stores THEN Stored(text, index, c) ELSE text
     /\ index' = next
     /\ lineStart' = IF Intact THEN "intact" ELSE "broken"
     /\ raced' = (raced \/ (stores /\ Raising))
     /\ UNCHANGED <<ready, cliPc, pending, expected, handled, answer, raised>>

isrEndOfLine ==
  /\ sending # <<>> /\ position = Len(sending)
  /\ notify
  /\ expected' = IF Intact /\ Len(sending) <= MaxIndex THEN Graphic(sending, 1, Len(sending))
                 ELSE IF ready THEN expected ELSE Anything
  /\ sending' = <<>> /\ position' = 0 /\ lineStart' = "none"
  /\ UNCHANGED <<text, cliPc, handled, answer, raising>>

(* isrHandler( data, n ) for a block that ends in CR.                         *)
isrBlock(data) ==
  /\ ~ready /\ Len(data) + 1 < MaxIndex /\ data[1] \in Graph
  /\ \E s \in {strcpy(Append(data, CR), MaxIndex)} :
       text' = s /\ expected' = IF cliPc = "idle" THEN s ELSE Anything
  /\ notify /\ raced' = (raced \/ Raising)
  /\ lineStart' = IF position = 0 THEN lineStart ELSE "broken"
  /\ UNCHANGED <<cliPc, sending, position, handled, answer, raised>>

(* raise(), from a task: nothing keeps the handler away between the look at   *)
(* ready and the notification.  A command that does not fit is cut: its       *)
(* length, counted up to the limit, never exceeds the limit.                  *)
raise(cmd) ==
  /\ ~ready /\ cliPc = "idle"
  /\ cliPc' = "copy" /\ raised' = cmd
  /\ lineStart' = IF position = 0 THEN lineStart ELSE "broken"
  /\ UNCHANGED <<text, index, ready, pending, sending, position, expected, handled, answer, raced>>

RaiseCopy ==
  /\ cliPc = "copy" /\ cliPc' = "fix" /\ text' = strcpy(raised, MaxIndex)
  /\ UNCHANGED <<index, ready, pending, sending, position, lineStart, expected, handled, answer, raising>>
RaiseFix ==
  /\ cliPc = "fix" /\ cliPc' = "notify" /\ text' = inputFix(text)
  /\ UNCHANGED <<index, ready, pending, sending, position, lineStart, expected, handled, answer, raising>>
RaiseNotify ==
  /\ cliPc = "notify" /\ cliPc' = "idle" /\ notify /\ raised' = <<>>
  /\ expected' = IF raced THEN Anything ELSE inputFix(strcpy(raised, MaxIndex))
  /\ UNCHANGED <<text, sending, position, lineStart, handled, answer, raced>>

(* run(), on each notification of the owner task: parse, answer, and release  *)
(* the buffer in the order ready, index, text.                                *)
RunNothing ==
  /\ cliPc = "idle" /\ pending > 0 /\ ~ready /\ pending' = pending - 1
  /\ UNCHANGED <<text, index, ready, cliPc, sending, position, lineStart, expected, handled, answer, raising>>

RunLine ==
  /\ cliPc = "idle" /\ pending > 0 /\ ready /\ pending' = pending - 1
  /\ cliPc' = "ready"
  /\ \E s \in {inputFix(text)} : text' = s /\ handled' = s /\ answer' = responseTo(s)
  /\ UNCHANGED <<index, ready, sending, position, lineStart, expected, raising>>

(* Mutant: the flag is not released.                                          *)
FlushReadyNever ==
  /\ cliPc = "ready" /\ cliPc' = "index" /\ UNCHANGED ready /\ expected' = Anything
  /\ UNCHANGED <<text, index, pending, sending, position, lineStart, handled, answer, raising>>

FlushReady ==
  /\ cliPc = "ready" /\ cliPc' = "index" /\ ready' = FALSE /\ expected' = Anything
  /\ UNCHANGED <<text, index, pending, sending, position, lineStart, handled, answer, raising>>
FlushIndex ==
  /\ cliPc = "index" /\ cliPc' = "storage" /\ index' = 0
  /\ UNCHANGED <<text, ready, pending, sending, position, lineStart, expected, handled, answer, raising>>
FlushStorage ==
  /\ cliPc = "storage" /\ cliPc' = "idle" /\ text' = <<>> /\ handled' = <<>>
  /\ answer' = "NO_RESPONSE" /\ raced' = FALSE
  /\ UNCHANGED <<index, ready, pending, sending, position, lineStart, expected, raised>>

CliTask == \/ RaiseCopy \/ RaiseFix \/ RaiseNotify
           \/ RunNothing \/ RunLine \/ FlushReady \/ FlushIndex \/ FlushStorage
CliNext == \/ \E line \in Lines : isrChar(line)
           \/ isrEndOfLine
           \/ \E b \in Blocks : isrBlock(b) \/ raise(b)
           \/ CliTask

CliSpec == CliInit /\ [][CliNext]_cliVars /\ WF_cliVars(CliTask)
-----------------------------------------------------------------------------
(* What the handler for blocks, or raise(), puts into the buffer.             *)
Whole(b) == {strcpy(Append(b, CR), MaxIndex), inputFix(strcpy(b, MaxIndex))}

(* Lines are never spliced: what is executed is one block, or the end of one  *)
(* single line the peer sent (the start may be dropped while the buffer is    *)
(* taken, or overwritten when the line is too long), however the characters,  *)
(* the task and the release of the buffer interleave; only a raise() during   *)
(* which the handler writes to the buffer makes a line of both (cli.cpp       *)
(* 110-161, 234-252, 283-290).                                                *)
LinesNeverSpliced ==
  handled # <<>> /\ ~raced =>
    \/ \E b \in Blocks : \E s \in Whole(b) : handled = inputFix(s)
    \/ \E s \in Lines : \E i \in 1..Len(s) : handled = inputFix(Graphic(s, i, Len(s)))

(* A line whose characters all met a free buffer, and a raised command that   *)
(* met no character, is executed as it was sent, and nothing changes it       *)
(* between its end and its execution.                                         *)
IntactLineExecuted ==
  /\ (ready /\ cliPc = "idle" /\ expected # Anything) => text = expected
  /\ (cliPc = "ready" /\ expected # Anything) => handled = inputFix(expected)

(* What is executed is what the peer sent (cli.cpp 110-161, 283-379).         *)
ExecutesWhatWasSent == LinesNeverSpliced /\ IntactLineExecuted

(* Every line that ends is taken: the owner task has been notified, and the   *)
(* buffer becomes free again (cli.cpp 99-108, 332-379; kernel.cpp 97-111).   *)
ReadyLineTaken == ready ~> ~ready

=============================================================================
