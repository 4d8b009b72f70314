------------------------------ MODULE Response ------------------------------
(* Response handler (response.cpp): a task asks for a pattern and polls for   *)
(* it with received(), the interrupt handler of the input matches character   *)
(* by character.  The handler runs to its end; the task's accesses to what it *)
(* shares with it are steps the handler may come between.  heard and          *)
(* heardSince count the characters of the pattern the peer has sent, in       *)
(* order, since the request was begun and since its call returned; nulSent    *)
(* tells whether a NUL was among what it sent since the request was begun.    *)
EXTENDS Integers, Sequences, FiniteSets

CONSTANTS Requests,      \* [pattern, n, timed]: the arguments of received()
          Characters,    \* what the peer may send, and a pattern hold
          NUL,
          MaxStrLength,  \* the size of the buffer given to setup()
          Overrun        \* bound: the cells behind the buffer that are looked at

ASSUME RequestAssumption ==
  /\ Requests \subseteq [pattern : Seq(Characters), n : Nat, timed : BOOLEAN]
  /\ MaxStrLength \in Nat \ {0} /\ Overrun \in Nat

VARIABLES step,        \* where the task stands in received() or reset()
          request, outcome,
          pattern2Match, patternLength, matchedCount, responseReceived, rTimeout,
          heard, heardSince, nulSent
responseVars == <<step, request, outcome, pattern2Match, patternLength, matchedCount,
                  responseReceived, rTimeout, heard, heardSince, nulSent>>

NoRequest == [pattern |-> <<>>, n |-> 0, timed |-> FALSE]

ResponseInit ==    \* after setup(), which resets the object and leaves the buffer
  /\ step = "ready" /\ request = NoRequest /\ outcome = "MISSING"
  /\ pattern2Match \in [1 .. MaxStrLength -> Characters \cup {NUL}]
  /\ patternLength = 0 /\ matchedCount = 0
  /\ responseReceived = FALSE /\ rTimeout = "disarmed"
  /\ heard = 0 /\ heardSince = 0 /\ nulSent = FALSE

match == <<patternLength, matchedCount, responseReceived>>
ghosts == <<heard, heardSince, nulSent>>

(* util::strlen(): the characters in front of the first NUL.                  *)
strlen(s) == Cardinality({x \in DOMAIN s : \A y \in 1 .. x : s[y] # NUL})
AtMost(x, y) == IF x <= y THEN x ELSE y

(* What util::strcpy() finds room for beside the terminator.                  *)
Copied(s) == AtMost(strlen(s), MaxStrLength - 1)

(* received(): nothing is pending, so the pattern is set; behind its          *)
(* terminator the buffer keeps what it held.  The length, which need not fit  *)
(* what was copied, makes the handler look at the characters, from then on it *)
(* may run.                                                                   *)
SetPattern(r) ==
  /\ step = "ready" /\ ~responseReceived /\ patternLength = 0
  /\ pattern2Match' = [x \in 1 .. MaxStrLength |->
                          IF x <= Copied(r.pattern) THEN r.pattern[x]
                          ELSE IF x = Copied(r.pattern) + 1 THEN NUL ELSE pattern2Match[x]]
  /\ request' = r /\ step' = "length"
  /\ heard' = 0 /\ heardSince' = 0 /\ nulSent' = FALSE /\ outcome' = "MISSING"
  /\ UNCHANGED <<match, rTimeout>>

SetLength ==
  /\ step = "length" /\ step' = "count"
  /\ patternLength' = IF request.n = 0 THEN AtMost(strlen(request.pattern), MaxStrLength)
                                       ELSE request.n
  /\ UNCHANGED <<request, outcome, pattern2Match, matchedCount, responseReceived, rTimeout, ghosts>>

ClearCount ==
  /\ step = "count" /\ step' = "flag" /\ matchedCount' = 0
  /\ UNCHANGED <<request, outcome, pattern2Match, patternLength, responseReceived, rTimeout, ghosts>>

ClearFlag ==
  /\ step = "flag" /\ step' = "arm" /\ responseReceived' = FALSE
  /\ UNCHANGED <<request, outcome, pattern2Match, patternLength, matchedCount, rTimeout, ghosts>>

ArmTimeout ==
  /\ step = "arm" /\ step' = "ready"
  /\ rTimeout' = IF request.timed THEN "armed" ELSE rTimeout
  /\ UNCHANGED <<request, outcome, pattern2Match, match, ghosts>>

(* Mutant: the answer alone ends a request.                                   *)
CheckTimeoutNever ==
  /\ step = "ready" /\ (responseReceived \/ patternLength > 0)
  /\ step' = "check"
  /\ UNCHANGED <<request, outcome, pattern2Match, match, rTimeout, ghosts>>

(* received(): a request is pending.  The timeout is looked at first.         *)
CheckTimeout ==
  /\ step = "ready" /\ (responseReceived \/ patternLength > 0)
  /\ IF rTimeout = "expired" THEN step' = "reset" /\ outcome' = "TIMEOUT"
                            ELSE step' = "check" /\ UNCHANGED outcome
  /\ UNCHANGED <<request, pattern2Match, match, rTimeout, ghosts>>

CheckReceived ==
  /\ step = "check"
  /\ IF responseReceived THEN step' = "reset" /\ outcome' = "SUCCESS"
                         ELSE step' = "ready" /\ UNCHANGED outcome
  /\ UNCHANGED <<request, pattern2Match, match, rTimeout, ghosts>>

Abandon ==    \* the application calls reset() itself
  /\ step = "ready" /\ patternLength > 0 /\ step' = "reset" /\ outcome' = "MISSING"
  /\ UNCHANGED <<request, pattern2Match, match, rTimeout, ghosts>>

(* reset(): without a length the handler is idle, the rest is one step.       *)
ResetLength ==
  /\ step = "reset" /\ step' = "clear" /\ patternLength' = 0
  /\ UNCHANGED <<request, outcome, pattern2Match, matchedCount, responseReceived, rTimeout, ghosts>>

ResetRest ==
  /\ step = "clear" /\ step' = "ready"
  /\ matchedCount' = 0 /\ responseReceived' = FALSE /\ rTimeout' = "disarmed"
  /\ request' = NoRequest
  /\ UNCHANGED <<outcome, pattern2Match, patternLength, ghosts>>

(* What was asked for, and whether the buffer holds all of it.                *)
Expected == IF request.n = 0 THEN strlen(request.pattern) ELSE request.n
WhollyCopied == Expected <= Copied(request.pattern)

Heard(h, c) ==
  IF h < Expected /\ h < Len(request.pattern) /\ request.pattern[h + 1] = c THEN h + 1 ELSE h

(* What the peer has sent.                                                    *)
Listened(c) ==
  /\ heard' = Heard(heard, c)
  /\ heardSince' = IF step \in {"ready", "check"} THEN Heard(heardSince, c) ELSE heardSince
  /\ nulSent' = (nulSent \/ c = NUL)

(* Mutant: every character counts.                                            *)
isrHandlerAny(rxChar) ==
  LET hit == ~responseReceived /\ patternLength > 0
  IN /\ matchedCount' = IF hit THEN matchedCount + 1 ELSE matchedCount
     /\ responseReceived' = (responseReceived \/ (hit /\ matchedCount + 1 = patternLength))
     /\ Listened(rxChar)
     /\ UNCHANGED <<step, request, outcome, pattern2Match, patternLength, rTimeout>>

(* Behind the pattern the handler compares with its terminator, then with     *)
(* older contents and, behind the buffer, with any memory.                    *)
isrHandler(rxChar) ==
  \E same \in BOOLEAN :
  LET hit == ~responseReceived /\ patternLength > 0 /\ same
  IN /\ matchedCount < MaxStrLength => same = (pattern2Match[matchedCount + 1] = rxChar)
     /\ matchedCount >= MaxStrLength + Overrun => ~same
     /\ matchedCount' = IF hit THEN matchedCount + 1 ELSE matchedCount
     /\ responseReceived' = (responseReceived \/ (hit /\ matchedCount + 1 = patternLength))
     /\ Listened(rxChar)
     /\ UNCHANGED <<step, request, outcome, pattern2Match, patternLength, rTimeout>>

Expire ==    \* the clock reaches the time the timer was set to
  /\ rTimeout = "armed" /\ rTimeout' = "expired"
  /\ UNCHANGED <<step, request, outcome, pattern2Match, match, ghosts>>

Task == \/ \E r \in Requests : SetPattern(r)
        \/ SetLength \/ ClearCount \/ ClearFlag \/ ArmTimeout
        \/ CheckTimeout \/ CheckReceived \/ ResetLength \/ ResetRest
ResponseNext == Task \/ Abandon \/ Expire \/ \E c \in Characters : isrHandler(c)

(* The task polls as long as its request is pending; time goes on.            *)
Fairness == WF_responseVars(Task) /\ WF_responseVars(Expire)
ResponseSpec == ResponseInit /\ [][ResponseNext]_responseVars /\ Fairness
-----------------------------------------------------------------------------
(* When the buffer holds all that was asked for, the handler flags a          *)
(* response, and the task reports SUCCESS, only when the whole pattern came,  *)
(* in order; and once the call that made the request has returned, the match  *)
(* does not fall behind the peer: every character sent after that is counted. *)
(* When it does not (a pattern cut to the buffer, or copied to its first NUL, *)
(* under a length that counts more), the match stops at the terminator and    *)
(* nothing is flagged or reported unless the peer sends a NUL (response.cpp   *)
(* 34-54, 58-73; util.cpp 68-102).                                            *)
Told == responseReceived \/ (step \in {"reset", "clear"} /\ outcome = "SUCCESS")
MatchFollowsPeer ==
  IF WhollyCopied THEN /\ step = "ready" /\ patternLength > 0 => matchedCount >= heardSince
               /\ Told => heard = Expected
          ELSE Told => nulSent

(* A request with a timeout ends: polling does not wait for ever on a peer    *)
(* that stays silent or whose answer the handler missed.                      *)
TimedRequestEnds == (patternLength > 0 /\ request.timed) ~> (patternLength = 0)

=============================================================================
