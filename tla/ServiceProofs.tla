---------------------------- MODULE ServiceProofs ----------------------------
(* Proofs about the services: the timer, for every width of the clock; the    *)
(* response handler, for every request and every stream of characters; the    *)
(* signal publisher, for any number of machines and signals; the input        *)
(* watcher, for any number of channels and pins; the command line, for any    *)
(* lines and blocks and any size of its buffer.                               *)
EXTENDS Timer, Response, Publisher, Input, CommandLine, SequenceTheorems, FiniteSetTheorems,
        WellFoundedInduction, TLAPS

-----------------------------------------------------------------------------
(* Timer.                                                                     *)

(* The subtraction of clock_t stays within clock_t, and one tick of the    *)
(* minuend, wrapping or not, is one tick of the difference.                *)
LEMMA MinusIsClock ==
  ASSUME NEW a \in Clock, NEW b \in Clock
  PROVE  /\ Minus(a, b) \in Clock
         /\ Minus(a, a) = 0
         /\ LET next == IF a = W - 1 THEN 0 ELSE a + 1
            IN Minus(a, b) < W - 1 => Minus(next, b) = Minus(a, b) + 1
BY ClockAssumption, SMT DEF Clock, Minus

StopwatchInv == TypeOK /\ ElapsedIsAge

LEMMA StopwatchInit == Init => StopwatchInv
<1>. 0 \in Clock /\ 0 \in 0 .. W
  BY ClockAssumption DEF Clock
<1>. QED BY DEF Init, StopwatchInv, TypeOK, ElapsedIsAge, armed

(* An interval that starts now has lasted no time.                         *)
LEMMA RestartedIsZero ==
  ASSUME TypeOK, Restarted, UNCHANGED tick, tv' \in Clock
  PROVE  tStart' \in Clock /\ age' \in 0 .. W /\ ElapsedIsAge'
<1>1. tStart' \in Clock /\ age' = 0 /\ Minus(tick', tStart') = 0
  BY MinusIsClock DEF TypeOK, Restarted
<1>. QED
  BY <1>1, ClockAssumption DEF ElapsedIsAge, elapsed, armed

LEMMA StopwatchNext == StopwatchInv /\ [Next]_vars => StopwatchInv'
<1>. SUFFICES ASSUME StopwatchInv, [Next]_vars PROVE StopwatchInv'
  OBVIOUS
<1>. USE DEF StopwatchInv
<1>0. TypeOK /\ ElapsedIsAge /\ 0 \in Clock
  BY ClockAssumption DEF Clock
<1>1. CASE SysTick
  <2>1. TypeOK'
    BY <1>0, <1>1, ClockAssumption DEF SysTick, TypeOK, Clock
  <2>2. ASSUME armed', age' < W PROVE elapsed' = age'
    <3>1. armed /\ age < W - 1 /\ age' = age + 1
      BY <1>0, <1>1, <2>2, ClockAssumption DEF SysTick, TypeOK, armed
    <3>2. Minus(tick, tStart) = age
      BY <1>0, <3>1, ClockAssumption DEF ElapsedIsAge, elapsed, TypeOK
    <3>3. Minus(tick', tStart) = age + 1
      BY <1>0, <1>1, <3>1, <3>2, MinusIsClock DEF SysTick, TypeOK
    <3>. QED BY <1>1, <2>2, <3>1, <3>3 DEF SysTick, elapsed, armed
  <2>. QED BY <2>1, <2>2 DEF ElapsedIsAge
<1>2. ASSUME NEW t \in Clock, Set(t) PROVE StopwatchInv'
  <2>1. CASE t > 0 /\ Restarted /\ tv' = t
    BY <1>0, <1>2, <2>1, RestartedIsZero DEF Set, Returns, TypeOK
  <2>2. CASE t = 0 /\ UNCHANGED <<tStart, tv, age>>
    BY <1>0, <1>2, <2>2 DEF Set, Returns, TypeOK, ElapsedIsAge, elapsed, armed
  <2>. QED BY <1>2, <2>1, <2>2 DEF Set
<1>3. CASE Disarmed
  BY <1>0, <1>3 DEF Disarmed, Returns, TypeOK, ElapsedIsAge, armed
<1>4. CASE Reload
  BY <1>0, <1>4, RestartedIsZero DEF Reload, Returns, TypeOK
<1>5. CASE CheckArmed
  <2>1. call' = "poll" /\ ret' \in BOOLEAN /\ UNCHANGED <<tick, tv>>
    BY <1>5 DEF CheckArmed, Returns, expired, armed
  <2>2. CASE Restarted
    BY <1>0, <2>1, <2>2, RestartedIsZero DEF TypeOK
  <2>3. CASE UNCHANGED <<tStart, age>>
    BY <1>0, <2>1, <2>3 DEF TypeOK, ElapsedIsAge, elapsed, armed
  <2>. QED BY <1>5, <2>2, <2>3 DEF CheckArmed
<1>6. CASE ReloadIfExpired
  BY <1>0, <1>5, <1>6 DEF ReloadIfExpired, Returns, TypeOK, ElapsedIsAge, elapsed, armed
<1>7. ASSUME NEW t \in Clock, ReloadIfExpiredOrArm(t) PROVE StopwatchInv'
  <2>1. CASE CheckArmed
    BY <1>5, <2>1
  <2>2. CASE ~CheckArmed /\ t > 0
    BY <1>0, <1>7, <2>2, RestartedIsZero DEF ReloadIfExpiredOrArm, Returns, TypeOK
  <2>3. CASE ~CheckArmed /\ ~(t > 0)
    BY <1>0, <1>7, <2>3
    DEF ReloadIfExpiredOrArm, Returns, TypeOK, ElapsedIsAge, elapsed, armed
  <2>. QED BY <2>1, <2>2, <2>3
<1>8. CASE UNCHANGED vars
  BY <1>0, <1>8 DEF vars, TypeOK, ElapsedIsAge, elapsed, armed
<1>9. ASSUME NEW t \in Clock, Assign(t) PROVE StopwatchInv'
  BY <1>2, <1>3, <1>9 DEF Assign
<1>. QED
  BY <1>1, <1>2, <1>3, <1>4, <1>6, <1>7, <1>8, <1>9 DEF Next

(* However wide the clock and wherever it wraps, an armed timer that has   *)
(* run for less than one turn of the clock measures its time exactly.      *)
THEOREM TimerIsStopwatch == Spec => [](TypeOK /\ ElapsedIsAge)
BY StopwatchInit, StopwatchNext, PTL DEF Spec, StopwatchInv

(* Such a timer expires exactly at its time, and remaining() counts down   *)
(* to it.                                                                  *)
THEOREM TimerExpiresOnTime == Spec => []ExpiresOnTime
<1>1. TypeOK /\ ElapsedIsAge => ExpiresOnTime
  BY ClockAssumption
  DEF TypeOK, Clock, ElapsedIsAge, ExpiresOnTime, armed, expired, deadLineCheck, elapsed, remaining, Minus
<1>. QED BY <1>1, TimerIsStopwatch, PTL

(* A poll says yes exactly when an interval has passed, and starts the     *)
(* next one then.                                                          *)
THEOREM TimerFiresOncePerInterval == Spec => FiresOncePerInterval
<1>1. TypeOK /\ ExpiresOnTime /\ [Next]_vars
        => [call' = "poll" /\ armed /\ age < W /\ UNCHANGED tick
              => (ret' <=> age >= tv) /\ (ret' => age' = 0)]_vars
  <2>. SUFFICES ASSUME TypeOK, ExpiresOnTime, Next, call' = "poll", armed, age < W, UNCHANGED tick
                PROVE  (ret' <=> age >= tv) /\ (ret' => age' = 0)
    BY DEF vars
  <2>1. CASE CheckArmed
    BY <2>1 DEF CheckArmed, Returns, Restarted, ExpiresOnTime
  <2>2. ~SysTick
    BY ClockAssumption DEF SysTick, TypeOK, Clock
  <2>. QED
    BY <2>1, <2>2
    DEF Next, Set, Assign, Reload, Disarmed, ReloadIfExpired, ReloadIfExpiredOrArm, Returns
<1>. QED BY <1>1, TimerIsStopwatch, TimerExpiresOnTime, PTL DEF Spec, FiresOncePerInterval

-----------------------------------------------------------------------------
(* Response.                                                                  *)

(* Nothing was asked for, or nothing of a length.                             *)
Idle == step = "ready" /\ patternLength = 0

ResponseTypes ==
  /\ step \in {"ready", "length", "count", "flag", "arm", "check", "reset", "clear"}
  /\ request \in Requests \cup {NoRequest}
  /\ patternLength \in Nat /\ matchedCount \in Nat /\ heard \in Nat /\ heardSince \in Nat
  /\ responseReceived \in BOOLEAN

(* The buffer holds what fits of the pattern and its terminator, and the      *)
(* length is the one asked for, as soon as the handler may look.              *)
Holds ==
  /\ \A x \in 1 .. Copied(request.pattern) : pattern2Match[x] = request.pattern[x]
  /\ pattern2Match[Copied(request.pattern) + 1] = NUL

PatternKept ==
  /\ step = "length" => Holds /\ patternLength = 0
  /\ step \in {"count", "flag", "arm", "check", "reset"} \/ (step = "ready" /\ patternLength > 0) =>
       /\ Holds
       /\ IF WhollyCopied THEN patternLength = Expected ELSE patternLength > Copied(request.pattern)
  /\ step = "clear" => patternLength = 0

(* The match is never ahead of the peer; a match that was cut off when the    *)
(* call cleared the flag may go beyond the pattern, and then flags nothing.   *)
(* It passes the terminator of a pattern that does not fit on a NUL alone.    *)
NeverAhead ==
  /\ patternLength = 0 /\ step \notin {"reset", "clear"} => matchedCount = 0 /\ ~responseReceived
  /\ step = "check" => patternLength > 0
  /\ ~Idle /\ WhollyCopied => heard <= Expected /\ (matchedCount <= Expected => matchedCount <= heard)
  /\ ~Idle /\ matchedCount > Copied(request.pattern) => WhollyCopied \/ nulSent
  /\ responseReceived => IF WhollyCopied THEN heard = Expected ELSE nulSent

(* From the return of the call on it is never behind what came since.         *)
NeverBehind ==
  /\ step \in {"length", "count", "flag", "arm"} => heardSince = 0
  /\ step \in {"ready", "check"} /\ patternLength > 0 /\ WhollyCopied =>
       heardSince <= matchedCount /\ heardSince <= Expected
  /\ step \in {"arm", "ready", "check"} /\ responseReceived /\ WhollyCopied => matchedCount >= Expected

Reported ==
  /\ step \in {"length", "count", "flag", "arm", "check"} => outcome = "MISSING"
  /\ step = "ready" /\ patternLength > 0 => outcome = "MISSING"
  /\ step \in {"reset", "clear"} /\ outcome = "SUCCESS" => IF WhollyCopied THEN heard = Expected ELSE nulSent

ResponseInv == ResponseTypes /\ PatternKept /\ NeverAhead /\ NeverBehind /\ Reported

(* A string is not longer than the data it is read from, its copy not longer  *)
(* than the string, and shorter only when it fills the buffer.                *)
LEMMA CopiedLength ==
  ASSUME NEW s \in Seq(Characters)
  PROVE  /\ strlen(s) \in Nat /\ strlen(s) <= Len(s)
         /\ Copied(s) \in Nat /\ Copied(s) <= strlen(s) /\ Copied(s) < MaxStrLength
         /\ Copied(s) < strlen(s) => Copied(s) = MaxStrLength - 1
<1>. DEFINE front == {x \in DOMAIN s : \A y \in 1 .. x : s[y] # NUL}
<1>1. DOMAIN s = 1 .. Len(s) /\ Len(s) \in Nat
  OBVIOUS
<1>2. IsFiniteSet(1 .. Len(s)) /\ Cardinality(1 .. Len(s)) = Len(s)
  <2>1. Len(s) >= 1 => Len(s) - 1 + 1 = Len(s)
    BY <1>1
  <2>. QED BY <1>1, <2>1, FS_Interval
<1>3. front \subseteq 1 .. Len(s)
  BY <1>1
<1>4. Cardinality(front) \in Nat /\ Cardinality(front) <= Len(s)
  <2>. HIDE DEF front
  <2>. QED BY <1>2, <1>3, FS_Subset, FS_CardinalityType
<1>5. strlen(s) = Cardinality(front)
  BY DEF strlen
<1>. HIDE DEF front
<1>6. MaxStrLength \in Nat /\ MaxStrLength >= 1
  BY RequestAssumption
<1>. QED BY <1>1, <1>4, <1>5, <1>6 DEF Copied, AtMost

(* A request has a length, and so has the part of it that was copied.         *)
LEMMA ExpectedIsNat ==
  ResponseTypes =>
    /\ request.pattern \in Seq(Characters) /\ Len(request.pattern) \in Nat
    /\ Expected \in Nat /\ Copied(request.pattern) \in Nat
    /\ Copied(request.pattern) <= Len(request.pattern)
    /\ Copied(request.pattern) < MaxStrLength /\ MaxStrLength \in Nat /\ WhollyCopied \in BOOLEAN
<1>. SUFFICES ASSUME ResponseTypes
              PROVE  /\ request.pattern \in Seq(Characters) /\ Len(request.pattern) \in Nat
                     /\ Expected \in Nat /\ Copied(request.pattern) \in Nat
                     /\ Copied(request.pattern) <= Len(request.pattern)
                     /\ Copied(request.pattern) < MaxStrLength /\ MaxStrLength \in Nat
                     /\ WhollyCopied \in BOOLEAN
  OBVIOUS
<1>1. request.pattern \in Seq(Characters) /\ request.n \in Nat
  <2>1. CASE request = NoRequest
    BY <2>1 DEF NoRequest
  <2>2. CASE request \in Requests
    BY <2>2, RequestAssumption
  <2>. QED BY <2>1, <2>2 DEF ResponseTypes
<1>2. MaxStrLength \in Nat
  BY RequestAssumption
<1>3. WhollyCopied \in BOOLEAN
  BY DEF WhollyCopied
<1>4. Len(request.pattern) \in Nat
  BY <1>1
<1>5. /\ strlen(request.pattern) \in Nat /\ strlen(request.pattern) <= Len(request.pattern)
      /\ Copied(request.pattern) \in Nat /\ Copied(request.pattern) <= strlen(request.pattern)
      /\ Copied(request.pattern) < MaxStrLength
  BY <1>1, CopiedLength
<1>6. Expected \in Nat
  BY <1>1, <1>5 DEF Expected
<1>. QED BY <1>1, <1>2, <1>3, <1>4, <1>5, <1>6

LEMMA ResponseStarts == ResponseInit => ResponseInv
<1>. SUFFICES ASSUME ResponseInit PROVE ResponseInv
  OBVIOUS
<1>1. ResponseTypes /\ Idle
  BY DEF ResponseInit, ResponseTypes, Idle
<1>. QED BY <1>1 DEF ResponseInit, ResponseInv, Idle, PatternKept, NeverAhead, NeverBehind, Reported

(* The length that is set is the one asked for, or goes beyond the copy.      *)
LEMMA LengthSet ==
  ASSUME ResponseTypes, SetLength
  PROVE  /\ patternLength' \in Nat
         /\ IF WhollyCopied THEN patternLength' = Expected ELSE patternLength' > Copied(request.pattern)
<1>. DEFINE s == request.pattern
<1>1. s \in Seq(Characters) /\ Copied(s) \in Nat
  BY ExpectedIsNat
<1>2. /\ strlen(s) \in Nat /\ Copied(s) <= strlen(s) /\ Copied(s) < MaxStrLength
      /\ Copied(s) < strlen(s) => Copied(s) = MaxStrLength - 1
  BY <1>1, CopiedLength
<1>3. MaxStrLength \in Nat /\ Expected \in Nat
  BY ExpectedIsNat
<1>. HIDE DEF s
<1>4. /\ patternLength' = IF request.n = 0 THEN AtMost(strlen(s), MaxStrLength) ELSE request.n
      /\ Expected = IF request.n = 0 THEN strlen(s) ELSE request.n
      /\ WhollyCopied <=> Expected <= Copied(s)
  BY DEF SetLength, Expected, WhollyCopied, s
<1>5. /\ patternLength' \in Nat
      /\ IF WhollyCopied THEN patternLength' = Expected ELSE patternLength' > Copied(s)
  BY <1>1, <1>2, <1>3, <1>4 DEF AtMost
<1>. QED BY <1>5 DEF s

(* The request is not touched between its beginning and its end.              *)
LEMMA SameRequest ==
  ASSUME UNCHANGED request
  PROVE  Expected' = Expected /\ WhollyCopied' = WhollyCopied
         /\ Copied(request.pattern)' = Copied(request.pattern)
<1>1. Copied(request.pattern)' = Copied(request.pattern)
  BY DEF Copied, AtMost, strlen
<1>2. strlen(request.pattern)' = strlen(request.pattern)
  BY DEF strlen
<1>3. Expected' = Expected
  BY <1>2 DEF Expected
<1>. QED BY <1>1, <1>3 DEF WhollyCopied

(* The steps of the task.                                                     *)
LEMMA TaskKeeps == ResponseInv /\ (Task \/ Abandon \/ Expire) => ResponseInv'
<1>. SUFFICES ASSUME ResponseInv, Task \/ Abandon \/ Expire PROVE ResponseInv'
  OBVIOUS
<1>. DEFINE s == Copied(request.pattern)
<1>0. Expected \in Nat /\ s \in Nat /\ WhollyCopied \in BOOLEAN
  BY ExpectedIsNat DEF ResponseInv
<1>a. UNCHANGED request => Expected' = Expected /\ WhollyCopied' = WhollyCopied /\ s' = s
  BY SameRequest
<1>b. UNCHANGED <<request, pattern2Match>> => Holds' = Holds
  <2>. SUFFICES ASSUME UNCHANGED <<request, pattern2Match>> PROVE Holds' = Holds
    OBVIOUS
  <2>1. s' = s
    BY <1>a
  <2>. QED BY <2>1 DEF Holds
<1>. USE <1>0, <1>a, <1>b DEF ResponseInv, ResponseTypes, PatternKept, NeverAhead, NeverBehind, Reported,
         Idle, match, ghosts
<1>1. CASE \E r \in Requests : SetPattern(r)
  <2>1. PICK r \in Requests : SetPattern(r)
    BY <1>1
  <2>2. r.pattern \in Seq(Characters)
    BY RequestAssumption
  <2>3. Copied(r.pattern) \in Nat /\ Copied(r.pattern) < MaxStrLength /\ MaxStrLength \in Nat
    BY <2>2, CopiedLength, RequestAssumption
  <2>4. request' = r /\ pattern2Match' =
          [x \in 1 .. MaxStrLength |->
             IF x <= Copied(r.pattern) THEN r.pattern[x]
             ELSE IF x = Copied(r.pattern) + 1 THEN NUL ELSE pattern2Match[x]]
    BY <2>1 DEF SetPattern
  <2>5. Copied(request.pattern)' = Copied(r.pattern)
    BY <2>4 DEF Copied, AtMost, strlen
  <2>6. Holds'
    BY <2>3, <2>4, <2>5 DEF Holds
  <2>7. ResponseTypes'
    BY <2>1 DEF SetPattern
  <2>8. Expected' \in Nat /\ Copied(request.pattern)' \in Nat
    <3>1. /\ r.n \in Nat /\ strlen(r.pattern) \in Nat
      BY <2>2, RequestAssumption, CopiedLength
    <3>2. Expected' = IF r.n = 0 THEN strlen(r.pattern) ELSE r.n
      BY <2>4 DEF Expected, strlen
    <3>. QED BY <3>1, <3>2, <2>3, <2>5
  <2>9. /\ step' = "length" /\ matchedCount' = 0 /\ ~responseReceived' /\ heard' = 0
        /\ heardSince' = 0 /\ outcome' = "MISSING" /\ patternLength' = 0
    BY <2>1 DEF SetPattern
  <2>. QED BY <2>6, <2>7, <2>8, <2>9
<1>2. CASE SetLength
  <2>1. /\ patternLength' \in Nat
        /\ IF WhollyCopied THEN patternLength' = Expected ELSE patternLength' > s
    BY <1>2, LengthSet
  <2>. HIDE DEF s
  <2>. QED BY <1>2, <2>1 DEF SetLength, s
<1>. HIDE DEF s
<1>3. CASE ClearCount
  BY <1>3 DEF ClearCount, s
<1>4. CASE ClearFlag
  <2>1. /\ step = "flag" /\ step' = "arm" /\ responseReceived' = FALSE
        /\ UNCHANGED <<request, outcome, pattern2Match, patternLength, matchedCount, ghosts>>
    BY <1>4 DEF ClearFlag
  <2>2. ResponseTypes'
    BY <2>1
  <2>3. PatternKept'
    BY <2>1 DEF s
  <2>4. NeverAhead'
    BY <2>1 DEF s
  <2>5. NeverBehind'
    BY <2>1
  <2>6. Reported'
    BY <2>1
  <2>. QED BY <2>2, <2>3, <2>4, <2>5, <2>6
<1>5. CASE ArmTimeout
  BY <1>5 DEF ArmTimeout, s
<1>6. CASE CheckTimeout
  BY <1>6 DEF CheckTimeout, s
<1>7. CASE CheckReceived
  BY <1>7 DEF CheckReceived, s
<1>8. CASE ResetLength
  BY <1>8 DEF ResetLength, s
<1>9. CASE ResetRest
  <2>1. ResponseTypes' /\ Idle' /\ matchedCount' = 0 /\ ~responseReceived'
    BY <1>9 DEF ResetRest
  <2>. QED BY <1>9, <2>1 DEF ResetRest
<1>10. CASE Abandon
  BY <1>10 DEF Abandon, s
<1>11. CASE Expire
  BY <1>11 DEF Expire, s
<1>. QED BY <1>1, <1>2, <1>3, <1>4, <1>5, <1>6, <1>7, <1>8, <1>9, <1>10, <1>11 DEF Task

(* A character: where the match and the peer stand level they move together.  *)
LEMMA HandlerKeeps ==
  ASSUME ResponseInv, NEW c \in Characters, isrHandler(c)
  PROVE  ResponseInv'
<1>. DEFINE E == Expected
            L == Len(request.pattern)
            C == Copied(request.pattern)
            F == WhollyCopied
            p == request.pattern
<1>1. E \in Nat /\ L \in Nat /\ C \in Nat /\ C <= L /\ C < MaxStrLength /\ MaxStrLength \in Nat
      /\ (F => E <= C) /\ (E <= C => F)
  BY ExpectedIsNat DEF ResponseInv, WhollyCopied
<1>0. PICK same \in BOOLEAN :
        /\ matchedCount < MaxStrLength => same = (pattern2Match[matchedCount + 1] = c)
        /\ matchedCount' = IF ~responseReceived /\ patternLength > 0 /\ same
                           THEN matchedCount + 1 ELSE matchedCount
        /\ responseReceived' = (responseReceived \/ ((~responseReceived /\ patternLength > 0 /\ same)
                                                      /\ matchedCount + 1 = patternLength))
  BY DEF isrHandler
<1>. DEFINE hit == ~responseReceived /\ patternLength > 0 /\ same
<1>2. /\ matchedCount' = IF hit THEN matchedCount + 1 ELSE matchedCount
      /\ responseReceived' = (responseReceived \/ (hit /\ matchedCount + 1 = patternLength))
      /\ heard' = IF heard < E /\ heard < L /\ p[heard + 1] = c THEN heard + 1 ELSE heard
      /\ heardSince' = IF step \in {"ready", "check"}
                       THEN IF heardSince < E /\ heardSince < L /\ p[heardSince + 1] = c
                            THEN heardSince + 1 ELSE heardSince
                       ELSE heardSince
      /\ nulSent' = (nulSent \/ c = NUL)
      /\ UNCHANGED <<step, request, outcome, pattern2Match, patternLength>>
  BY <1>0 DEF isrHandler, Listened, Heard
<1>3. E' = E /\ Idle' = Idle /\ F' = F /\ C' = C /\ Holds' = Holds
  <2>1. E' = E /\ F' = F /\ C' = C
    BY <1>2, SameRequest
  <2>2. Idle' = Idle
    BY <1>2 DEF Idle
  <2>. QED BY <1>2, <2>1, <2>2 DEF Holds
<1>a. hit => /\ ~responseReceived /\ ~Idle /\ step \notin {"length", "clear"} /\ patternLength > 0
             /\ IF F THEN patternLength = E ELSE patternLength > C
  BY DEF ResponseInv, ResponseTypes, PatternKept, Idle
<1>b. hit \/ (step \in {"ready", "check"} /\ patternLength > 0) =>
        /\ \A x \in 1 .. C : pattern2Match[x] = p[x]
        /\ pattern2Match[C + 1] = NUL
  BY DEF ResponseInv, ResponseTypes, PatternKept, Holds
<1>c. matchedCount \in Nat /\ matchedCount + 1 \in Nat
  BY DEF ResponseInv, ResponseTypes
<1>4. hit => /\ matchedCount < C => p[matchedCount + 1] = c
             /\ matchedCount = C => c = NUL
  <2>. SUFFICES ASSUME hit PROVE (matchedCount < C => p[matchedCount + 1] = c)
                                 /\ (matchedCount = C => c = NUL)
    OBVIOUS
  <2>1. matchedCount <= C => pattern2Match[matchedCount + 1] = c
    <3>1. matchedCount <= C => matchedCount < MaxStrLength
      BY <1>1, <1>c
    <3>2. same
      OBVIOUS
    <3>. QED BY <1>0, <3>1, <3>2
  <2>2. matchedCount < C => matchedCount + 1 \in 1 .. C
    BY <1>1, <1>c
  <2>. HIDE DEF C, p
  <2>. QED BY <1>1, <1>c, <1>b, <2>1, <2>2
<1>5. patternLength > 0 /\ ~responseReceived /\ step \in {"ready", "check"} /\ matchedCount < C
        /\ p[matchedCount + 1] = c => hit
  <2>1. matchedCount < C => matchedCount + 1 \in 1 .. C /\ matchedCount < MaxStrLength
    BY <1>1, <1>c
  <2>. HIDE DEF C, p
  <2>. QED BY <1>0, <1>b, <2>1
<1>. HIDE DEF E, L, C, F, p, hit
<1>6. ResponseTypes'
  BY <1>2 DEF ResponseInv, ResponseTypes
<1>7. PatternKept'
  BY <1>2, <1>3 DEF ResponseInv, PatternKept, E, F, C
<1>8. NeverAhead'
  <2>. USE DEF ResponseInv, ResponseTypes, NeverAhead
  <2>0. /\ ~Idle /\ F => heard <= E /\ (matchedCount <= E => matchedCount <= heard)
        /\ ~Idle /\ matchedCount > C => F \/ nulSent
        /\ responseReceived => IF F THEN heard = E ELSE nulSent
    BY DEF E, F, C
  <2>1. /\ (patternLength = 0 /\ step \notin {"reset", "clear"}
               => matchedCount = 0 /\ ~responseReceived)'
        /\ (step = "check" => patternLength > 0)'
    BY <1>2, <1>a
  <2>2. ~Idle /\ F => heard' <= E /\ heard <= heard'
    BY <1>1, <1>2, <2>0
  <2>3. ~Idle /\ F => (matchedCount' <= E => matchedCount' <= heard')
    <3>. SUFFICES ASSUME ~Idle, F, matchedCount' <= E PROVE matchedCount' <= heard'
      OBVIOUS
    <3>1. CASE hit
      <4>1. matchedCount' = matchedCount + 1 /\ matchedCount < E /\ matchedCount < C /\ matchedCount <= heard
        <5>1. matchedCount' = matchedCount + 1
          BY <1>2, <3>1
        <5>2. matchedCount < E
          BY <1>1, <1>c, <5>1
        <5>3. matchedCount <= heard
          BY <1>1, <1>c, <2>0, <5>2
        <5>. QED BY <1>1, <1>c, <5>1, <5>2, <5>3
      <4>2. p[matchedCount + 1] = c
        BY <1>4, <3>1, <4>1
      <4>3. matchedCount = heard => heard' = heard + 1
        BY <1>1, <1>2, <1>c, <4>1, <4>2
      <4>4. heard \in Nat /\ heard' >= heard /\ heard' \in Nat
        BY <1>1, <1>2
      <4>. QED BY <1>c, <4>1, <4>3, <4>4
    <3>2. CASE ~hit
      BY <1>1, <1>2, <1>c, <2>0, <2>2, <3>2
    <3>. QED BY <3>1, <3>2
  <2>4. responseReceived' /\ F => heard' = E
    BY <1>1, <1>2, <1>a, <1>4, <2>0, <2>2, <2>3
  <2>5. ~Idle /\ matchedCount' > C => F \/ nulSent'
    <3>1. CASE hit /\ matchedCount = C
      BY <1>2, <1>4, <3>1
    <3>2. CASE hit /\ matchedCount # C
      <4>1. matchedCount' > C => matchedCount > C
        BY <1>1, <1>2, <1>c, <3>2
      <4>. QED BY <1>2, <2>0, <4>1
    <3>3. CASE ~hit
      BY <1>2, <2>0, <3>3
    <3>. QED BY <3>1, <3>2, <3>3
  <2>6. responseReceived' /\ ~F => nulSent'
    BY <1>1, <1>2, <1>a, <2>0, <2>5
  <2>7. (responseReceived => IF F THEN heard = E ELSE nulSent)'
    BY <1>3, <2>4, <2>6
  <2>. QED BY <1>3, <2>1, <2>2, <2>3, <2>5, <2>7 DEF E, F, C
<1>9. NeverBehind'
  <2>. USE DEF ResponseInv, ResponseTypes
  <2>0. /\ step \in {"length", "count", "flag", "arm"} => heardSince = 0
        /\ step \in {"ready", "check"} /\ patternLength > 0 /\ F =>
             heardSince <= matchedCount /\ heardSince <= E
        /\ step \in {"arm", "ready", "check"} /\ responseReceived /\ F => matchedCount >= E
    BY DEF E, F, NeverBehind
  <2>1. step \in {"ready", "check"} /\ patternLength > 0 /\ F => heardSince' <= matchedCount' /\ heardSince' <= E
    BY <1>1, <1>2, <1>5, <2>0
  <2>2. step \in {"arm", "ready", "check"} /\ responseReceived' /\ F => matchedCount' >= E
    BY <1>1, <1>2, <1>a, <2>0
  <2>3. (step \in {"length", "count", "flag", "arm"} => heardSince = 0)'
    BY <1>2, <2>0
  <2>4. (step \in {"ready", "check"} /\ patternLength > 0 /\ F =>
             heardSince <= matchedCount /\ heardSince <= E)'
    BY <1>2, <1>3, <2>1
  <2>5. (step \in {"arm", "ready", "check"} /\ responseReceived /\ F => matchedCount >= E)'
    BY <1>2, <1>3, <2>2
  <2>. QED BY <2>3, <2>4, <2>5 DEF NeverBehind, E, F
<1>10. Reported'
  <2>. USE DEF ResponseInv, ResponseTypes
  <2>1. /\ step \in {"length", "count", "flag", "arm", "check"} => outcome = "MISSING"
        /\ step = "ready" /\ patternLength > 0 => outcome = "MISSING"
        /\ step \in {"reset", "clear"} /\ outcome = "SUCCESS" => IF F THEN heard = E ELSE nulSent
    BY DEF Reported, E, F
  <2>2. heard = E => heard' = E
    BY <1>1, <1>2
  <2>3. nulSent => nulSent'
    BY <1>2
  <2>4. (step \in {"reset", "clear"} /\ outcome = "SUCCESS" => IF F THEN heard = E ELSE nulSent)'
    BY <1>2, <1>3, <2>1, <2>2, <2>3
  <2>5. (/\ step \in {"length", "count", "flag", "arm", "check"} => outcome = "MISSING"
         /\ step = "ready" /\ patternLength > 0 => outcome = "MISSING")'
    BY <1>2, <2>1
  <2>. QED BY <2>4, <2>5 DEF Reported, E, F
<1>. QED BY <1>6, <1>7, <1>8, <1>9, <1>10 DEF ResponseInv

LEMMA ResponseInvariant == ResponseSpec => []ResponseInv
<1>1. ResponseInv /\ [ResponseNext]_responseVars => ResponseInv'
  <2>. SUFFICES ASSUME ResponseInv, [ResponseNext]_responseVars PROVE ResponseInv'
    OBVIOUS
  <2>1. CASE UNCHANGED responseVars
    <3>1. Expected' = Expected /\ WhollyCopied' = WhollyCopied /\ Copied(request.pattern)' = Copied(request.pattern)
      BY <2>1, SameRequest DEF responseVars
    <3>2. Holds' = Holds
      BY <2>1, <3>1 DEF responseVars, Holds
    <3>. QED BY <2>1, <3>1, <3>2 DEF responseVars, ResponseInv, ResponseTypes, PatternKept,
                NeverAhead, NeverBehind, Reported, Idle
  <2>2. CASE ResponseNext
    BY <2>2, TaskKeeps, HandlerKeeps DEF ResponseNext
  <2>. QED BY <2>1, <2>2
<1>. QED BY <1>1, ResponseStarts, PTL DEF ResponseSpec

(* For any requests and any buffer, whatever the peer sends between any two   *)
(* accesses of the task: of a request the buffer holds, a response is flagged *)
(* and reported only for the whole pattern, and nothing sent after the        *)
(* request has returned is missed; one it does not hold is not answered       *)
(* without a NUL (response.cpp 34-73; util.cpp 68-102).                       *)
THEOREM MatchNeverFallsBehind == ResponseSpec => []MatchFollowsPeer
<1>1. ResponseInv => MatchFollowsPeer
  BY DEF ResponseInv, MatchFollowsPeer, Told, NeverBehind, NeverAhead, Reported, ResponseTypes
<1>. QED BY <1>1, ResponseInvariant, PTL

-----------------------------------------------------------------------------
(* Publisher.                                                                 *)

MaxSigs == Q_FSM_PS_SIGNALS_MAX
MaxSubs == Q_FSM_PS_SUB_PER_SIGNAL_MAX

(* The used slots of a row come first, and no two hold the same.              *)
Packed(row, size) ==
  /\ \A j, k \in 0 .. size - 1 : j < k /\ row[j] = NONE => row[k] = NONE
  /\ \A j, k \in 0 .. size - 1 : row[j] = row[k] /\ row[j] # NONE => j = k

Members(row, size) == {row[j] : j \in 0 .. size - 1} \ {NONE}

PublisherTypes ==
  /\ psSignals \in [SignalSlots -> Signal \cup {NONE}]
  /\ psSubs \in [SignalSlots -> [SubSlots -> Machine \cup {NONE}]]
  /\ subscribed \in [Signal -> SUBSET Machine]

(* The rows are packed; a signal in the table has the subscribers it should   *)
(* have and at least one, one that is not has none.                           *)
TableInv ==
  /\ PublisherTypes
  /\ Packed(psSignals, MaxSigs) /\ \A i \in SignalSlots : Packed(psSubs[i], MaxSubs)
  /\ \A i \in SignalSlots :
       IF psSignals[i] = NONE THEN \A j \in SubSlots : psSubs[i][j] = NONE
       ELSE /\ psSignals[i] \notin Reserved /\ psSubs[i][0] # NONE
            /\ subscribed[psSignals[i]] = Members(psSubs[i], MaxSubs)
  /\ \A s \in Signal : (\A i \in SignalSlots : psSignals[i] # s) => subscribed[s] = {}

PublisherInv == TableInv /\ SendTellsAllSubscribers

(* Every non-empty set of numbers has a least one.                            *)
LEMMA LeastNumber ==
  ASSUME NEW S \in SUBSET Nat, S # {}
  PROVE  \E k \in S : \A j \in S : k <= j
<1>1. PICK k \in S : \A j \in S : ~(<<j, k>> \in OpToRel(<, Nat))
  BY NatLessThanWellFounded, WFMin
<1>2. \A j \in S : ~(j < k)
  BY <1>1 DEF OpToRel
<1>. QED BY <1>2

(* The scan stops at the first slot that holds one of stops, or at the end.   *)
LEMMA FirstFromStops ==
  ASSUME NEW size \in Nat, NEW row, NEW stops
  PROVE  LET i == FirstFrom(row, size, stops)
         IN /\ i \in 0 .. size
            /\ \A k \in 0 .. i - 1 : row[k] \notin stops
            /\ i < size => row[i] \in stops
<1>. DEFINE hits == {k \in 0 .. (size - 1) : row[k] \in stops}
            i == FirstFrom(row, size, stops)
<1>1. CASE hits = {}
  <2>1. i = size
    BY <1>1 DEF FirstFrom
  <2>. QED BY <1>1, <2>1
<1>2. CASE hits # {}
  <2>1. hits \in SUBSET Nat
    OBVIOUS
  <2>2. \E k \in hits : \A j \in hits : k <= j
    BY <1>2, <2>1, LeastNumber
  <2>3. i = CHOOSE k \in hits : \A j \in hits : k <= j
    BY <1>2 DEF FirstFrom
  <2>4. i \in hits /\ \A j \in hits : i <= j
    BY <2>2, <2>3
  <2>5. i \in 0 .. size - 1 /\ row[i] \in stops
    BY <2>4
  <2>6. \A k \in 0 .. i - 1 : k \in 0 .. size - 1 /\ ~(i <= k)
    BY <2>5
  <2>. QED BY <2>4, <2>5, <2>6
<1>. QED BY <1>1, <1>2

(* What getSubscriptionStatus() says of the table.                            *)
LEMMA StatusSays ==
  ASSUME TableInv, NEW m \in Machine, NEW s \in Signal,
         NEW r, r = getSubscriptionStatus(m, s)
  PROVE  /\ r.status \in {"signalSlotsFull", "subscriberSlotsFull", "signalNotFound",
                          "subscriberFound", "subscriberNotFound"}
         /\ r.status \in {"signalNotFound", "subscriberFound", "subscriberNotFound"} =>
              r.sig \in SignalSlots /\ r.sub \in SubSlots
         /\ r.status = "signalNotFound" =>
              /\ psSignals[r.sig] = NONE /\ r.sub = 0
              /\ \A k \in 0 .. r.sig - 1 : psSignals[k] \notin {NONE, s}
         /\ r.status = "subscriberFound" => psSignals[r.sig] = s /\ psSubs[r.sig][r.sub] = m
         /\ r.status = "subscriberNotFound" =>
              /\ psSignals[r.sig] = s /\ psSubs[r.sig][r.sub] = NONE
              /\ \A k \in 0 .. r.sub - 1 : psSubs[r.sig][k] \notin {NONE, m}
<1>. DEFINE i == FirstFrom(psSignals, MaxSigs, {NONE, s})
            known == i < MaxSigs /\ psSignals[i] = s
            j == IF known THEN FirstFrom(psSubs[i], MaxSubs, {NONE, m}) ELSE 0
<1>1. MaxSigs \in Nat \ {0} /\ MaxSubs \in Nat \ {0}
  BY PublisherAssumption DEF MaxSigs, MaxSubs
<1>2. /\ i \in 0 .. MaxSigs /\ (i < MaxSigs => psSignals[i] \in {NONE, s})
      /\ \A k \in 0 .. i - 1 : psSignals[k] \notin {NONE, s}
  BY <1>1, FirstFromStops
<1>3. /\ j \in 0 .. MaxSubs /\ (known /\ j < MaxSubs => psSubs[i][j] \in {NONE, m})
      /\ known => \A k \in 0 .. j - 1 : psSubs[i][k] \notin {NONE, m}
  BY <1>1, FirstFromStops
<1>4. /\ r.sig = i /\ r.sub = j
      /\ r.status = CASE i >= MaxSigs -> "signalSlotsFull"
                      [] j >= MaxSubs -> "subscriberSlotsFull"
                      [] OTHER -> IF ~known THEN "signalNotFound"
                                  ELSE IF psSubs[i][j] = m THEN "subscriberFound"
                                                           ELSE "subscriberNotFound"
  BY DEF getSubscriptionStatus, MaxSigs, MaxSubs
<1>5. ~known => j = 0
  OBVIOUS
<1>6. known <=> (i < MaxSigs /\ psSignals[i] = s)
  OBVIOUS
<1>. HIDE DEF i, j, known
<1>7. SignalSlots = 0 .. MaxSigs - 1 /\ SubSlots = 0 .. MaxSubs - 1
  BY DEF SignalSlots, SubSlots, MaxSigs, MaxSubs
<1>8. CASE i >= MaxSigs
  BY <1>1, <1>2, <1>3, <1>4, <1>8
<1>9. CASE i < MaxSigs /\ j >= MaxSubs
  BY <1>1, <1>2, <1>3, <1>4, <1>9
<1>10. CASE i < MaxSigs /\ j < MaxSubs
  <2>1. i \in SignalSlots /\ j \in SubSlots
    BY <1>1, <1>2, <1>3, <1>7, <1>10
  <2>2. r.status = IF ~known THEN "signalNotFound"
                   ELSE IF psSubs[i][j] = m THEN "subscriberFound" ELSE "subscriberNotFound"
    BY <1>1, <1>2, <1>3, <1>4, <1>10
  <2>3. CASE ~known
    BY <1>2, <1>4, <1>5, <1>6, <1>10, <2>1, <2>2, <2>3
  <2>4. CASE known
    BY <1>2, <1>3, <1>4, <1>6, <1>10, <2>1, <2>2, <2>4
  <2>. QED BY <2>3, <2>4
<1>. QED BY <1>1, <1>2, <1>3, <1>8, <1>9, <1>10

(* An entry leaves a packed row, and what was behind it closes up.            *)
LEMMA ShiftedRow ==
  ASSUME NEW size \in Nat, NEW V, NONE \notin V, NEW row \in [0 .. size - 1 -> V \cup {NONE}],
         Packed(row, size), NEW at \in 0 .. size - 1, row[at] # NONE,
         NEW left, left = Shifted(row, at, size - 1)
  PROVE  /\ left \in [0 .. size - 1 -> V \cup {NONE}] /\ Packed(left, size)
         /\ Members(left, size) = Members(row, size) \ {row[at]}
<1>. DEFINE D == 0 .. size - 1
<1>1. /\ left = [k \in D |-> IF k < at THEN row[k] ELSE IF k < size - 1 THEN row[k + 1] ELSE NONE]
      /\ \A k \in D : row[k] \in V \cup {NONE}
  BY DEF Shifted
<1>2. \A k \in D : k < size - 1 => k + 1 \in D
  OBVIOUS
<1>3. left \in [D -> V \cup {NONE}]
  BY <1>1, <1>2
<1>4. /\ \A k \in D : k < at => left[k] = row[k]
      /\ \A k \in D : k >= at /\ k < size - 1 => left[k] = row[k + 1]
      /\ left[size - 1] = NONE
  BY <1>1
<1>5. Packed(left, size)
  <2>1. \A j, k \in D : j < k /\ left[j] = NONE => left[k] = NONE
    <3>. SUFFICES ASSUME NEW j \in D, NEW k \in D, j < k, left[j] = NONE PROVE left[k] = NONE
      OBVIOUS
    <3>1. j + 1 \in D /\ (k < size - 1 => k + 1 \in D)
      BY <1>2
    <3>2. CASE k = size - 1
      BY <1>4, <3>2
    <3>3. CASE k < size - 1 /\ j < at /\ k < at
      BY <1>4, <3>3 DEF Packed
    <3>4. CASE k < size - 1 /\ j < at /\ k >= at
      BY <1>4, <3>1, <3>4 DEF Packed
    <3>5. CASE k < size - 1 /\ j >= at /\ k >= at
      <4>1. left[j] = row[j + 1] /\ left[k] = row[k + 1] /\ j + 1 < k + 1
        BY <1>4, <3>5
      <4>. QED BY <3>1, <3>5, <4>1 DEF Packed
    <3>. QED BY <3>2, <3>3, <3>4, <3>5
  <2>2. \A j, k \in D : left[j] = left[k] /\ left[j] # NONE => j = k
    <3>. SUFFICES ASSUME NEW j \in D, NEW k \in D, left[j] = left[k], left[j] # NONE PROVE j = k
      OBVIOUS
    <3>. DEFINE o(x) == IF x < at THEN x ELSE x + 1
    <3>1. j # size - 1 /\ k # size - 1
      BY <1>4
    <3>2. o(j) \in D /\ o(k) \in D /\ left[j] = row[o(j)] /\ left[k] = row[o(k)]
      BY <1>4, <3>1
    <3>3. o(j) = o(k)
      BY <3>2 DEF Packed
    <3>. QED BY <3>3
  <2>. QED BY <2>1, <2>2 DEF Packed
<1>6. Members(left, size) \subseteq Members(row, size) \ {row[at]}
  <2>. SUFFICES ASSUME NEW k \in D, left[k] # NONE
                PROVE  left[k] \in Members(row, size) \ {row[at]}
    BY DEF Members
  <2>1. k # size - 1
    BY <1>4
  <2>2. PICK l \in D : l # at /\ left[k] = row[l]
    <3>1. CASE k < at
      BY <1>4, <3>1
    <3>2. CASE k >= at
      BY <1>4, <2>1, <3>2
    <3>. QED BY <3>1, <3>2
  <2>3. row[l] # row[at]
    BY <2>2 DEF Packed
  <2>. QED BY <2>2, <2>3 DEF Members
<1>7. Members(row, size) \ {row[at]} \subseteq Members(left, size)
  <2>. SUFFICES ASSUME NEW l \in D, row[l] # NONE, row[l] # row[at]
                PROVE  \E k \in D : left[k] = row[l]
    BY DEF Members
  <2>1. CASE l < at
    BY <1>4, <2>1
  <2>2. CASE l > at
    <3>1. l - 1 \in D /\ l - 1 >= at /\ l - 1 < size - 1 /\ (l - 1) + 1 = l
      BY <2>2
    <3>. QED BY <1>4, <3>1
  <2>. QED BY <2>1, <2>2
<1>. QED BY <1>3, <1>5, <1>6, <1>7

(* The first unused slot of a packed row takes a new entry.                   *)
LEMMA TakenSlot ==
  ASSUME NEW size \in Nat, NEW V, NONE \notin V, NEW row \in [0 .. size - 1 -> V \cup {NONE}],
         Packed(row, size), NEW at \in 0 .. size - 1, row[at] = NONE, NEW v \in V,
         \A k \in 0 .. at - 1 : row[k] \notin {NONE, v},
         NEW more \in [0 .. size - 1 -> V \cup {NONE}], more[at] = v,
         \A k \in 0 .. size - 1 : k # at => more[k] = row[k]
  PROVE  /\ Packed(more, size)
         /\ Members(more, size) = Members(row, size) \cup {v}
         /\ \A k \in 0 .. size - 1 : row[k] # v
<1>. DEFINE D == 0 .. size - 1
<1>2. more[at] = v /\ \A k \in D : k # at => more[k] = row[k]
  OBVIOUS
<1>3. \A k \in D : k > at => row[k] = NONE
  BY DEF Packed
<1>4. \A k \in D : k < at => row[k] \notin {NONE, v}
  OBVIOUS
<1>5. \A k \in D : row[k] # v
  BY <1>3, <1>4
<1>6. \A j, k \in D : j < k /\ more[j] = NONE => more[k] = NONE
  BY <1>2, <1>3, <1>4
<1>7. \A j, k \in D : more[j] = more[k] /\ more[j] # NONE => j = k
  BY <1>2, <1>5 DEF Packed
<1>8. Members(more, size) = Members(row, size) \cup {v}
  <2>1. Members(more, size) \subseteq Members(row, size) \cup {v}
    BY <1>2 DEF Members
  <2>2. \A k \in D : row[k] # NONE => row[k] = more[k]
    BY <1>2
  <2>3. Members(row, size) \subseteq Members(more, size)
    BY <2>2 DEF Members
  <2>4. v \in Members(more, size)
    BY <1>2 DEF Members
  <2>. QED BY <2>1, <2>3, <2>4
<1>9. Packed(more, size)
  BY <1>6, <1>7 DEF Packed
<1>. QED BY <1>5, <1>8, <1>9

-----------------------------------------------------------------------------
LEMMA PublisherStarts == PublisherInit => PublisherInv
<1>. SUFFICES ASSUME PublisherInit PROVE PublisherInv
  OBVIOUS
<1>1. /\ psSignals = [i \in SignalSlots |-> NONE]
      /\ psSubs = [i \in SignalSlots |-> [j \in SubSlots |-> NONE]]
      /\ subscribed = [s \in Signal |-> {}] /\ lastSend = NoCall
  BY DEF PublisherInit
<1>2. PublisherTypes
  BY <1>1 DEF PublisherTypes
<1>3. MaxSigs - 1 = Q_FSM_PS_SIGNALS_MAX - 1 /\ MaxSubs - 1 = Q_FSM_PS_SUB_PER_SIGNAL_MAX - 1
  BY DEF MaxSigs, MaxSubs
<1>4. Packed(psSignals, MaxSigs) /\ \A i \in SignalSlots : Packed(psSubs[i], MaxSubs)
  BY <1>1, <1>3 DEF Packed, SignalSlots, SubSlots
<1>5. TableInv
  BY <1>1, <1>2, <1>4 DEF TableInv
<1>. QED BY <1>1, <1>5 DEF PublisherInv, SendTellsAllSubscribers

(* What the table says of a signal in it, and of its row.                     *)
LEMMA RowOf ==
  ASSUME TableInv, NEW i \in SignalSlots
  PROVE  /\ MaxSigs \in Nat \ {0} /\ MaxSubs \in Nat \ {0}
         /\ SignalSlots = 0 .. MaxSigs - 1 /\ SubSlots = 0 .. MaxSubs - 1
         /\ NONE \notin Signal /\ NONE \notin Machine
         /\ psSignals \in [0 .. MaxSigs - 1 -> Signal \cup {NONE}] /\ Packed(psSignals, MaxSigs)
         /\ psSubs[i] \in [0 .. MaxSubs - 1 -> Machine \cup {NONE}] /\ Packed(psSubs[i], MaxSubs)
         /\ psSignals[i] = NONE => \A j \in SubSlots : psSubs[i][j] = NONE
         /\ psSignals[i] # NONE => /\ psSignals[i] \notin Reserved /\ psSubs[i][0] # NONE
                                   /\ subscribed[psSignals[i]] = Members(psSubs[i], MaxSubs)
<1>1. MaxSigs \in Nat \ {0} /\ MaxSubs \in Nat \ {0} /\ NONE \notin Signal /\ NONE \notin Machine
  BY PublisherAssumption DEF MaxSigs, MaxSubs
<1>2. SignalSlots = 0 .. MaxSigs - 1 /\ SubSlots = 0 .. MaxSubs - 1
  BY DEF SignalSlots, SubSlots, MaxSigs, MaxSubs
<1>. QED BY <1>1, <1>2 DEF TableInv, PublisherTypes

(* A change of one row i of the table, of its signal and of its subscribers.  *)
LEMMA RowChanged ==
  ASSUME TableInv, NEW i \in SignalSlots, NEW s \in Signal \ Reserved, NEW row, NEW members,
         NEW sig \in {s, NONE},
         psSignals[i] = s \/ (psSignals[i] = NONE /\ \A k \in SignalSlots : psSignals[k] # s),
         psSignals' = [psSignals EXCEPT ![i] = sig], Packed(psSignals', MaxSigs),
         psSubs' = [psSubs EXCEPT ![i] = row],
         row \in [SubSlots -> Machine \cup {NONE}], Packed(row, MaxSubs),
         members = Members(row, MaxSubs), subscribed' = [subscribed EXCEPT ![s] = members],
         sig = NONE => \A j \in SubSlots : row[j] = NONE, sig # NONE => row[0] # NONE
  PROVE  TableInv'
<1>1. /\ SubSlots = 0 .. MaxSubs - 1 /\ SignalSlots = 0 .. MaxSigs - 1 /\ NONE \notin Signal
      /\ MaxSigs \in Nat \ {0} /\ MaxSubs \in Nat \ {0}
  BY RowOf
<1>2. members \subseteq Machine
  BY <1>1 DEF Members
<1>3. PublisherTypes'
  BY <1>2 DEF TableInv, PublisherTypes
<1>4. /\ psSignals'[i] = sig /\ psSubs'[i] = row /\ subscribed'[s] = members
      /\ \A k \in SignalSlots : k # i => psSignals'[k] = psSignals[k] /\ psSubs'[k] = psSubs[k]
      /\ \A t \in Signal : t # s => subscribed'[t] = subscribed[t]
  BY DEF TableInv, PublisherTypes
<1>5. \A k \in SignalSlots : k # i => psSignals[k] # s
  BY <1>1 DEF TableInv, Packed
<1>6. \A k \in SignalSlots : Packed(psSubs'[k], MaxSubs)
  BY <1>4 DEF TableInv
<1>7. \A k \in SignalSlots :
        IF psSignals'[k] = NONE THEN \A j \in SubSlots : psSubs'[k][j] = NONE
        ELSE /\ psSignals'[k] \notin Reserved /\ psSubs'[k][0] # NONE
             /\ subscribed'[psSignals'[k]] = Members(psSubs'[k], MaxSubs)
  <2>. TAKE k \in SignalSlots
  <2>1. CASE k = i
    BY <1>1, <1>4, <2>1
  <2>2. CASE k # i
    <3>1. psSignals'[k] = psSignals[k] /\ psSubs'[k] = psSubs[k] /\ psSignals[k] # s
      BY <1>4, <1>5, <2>2
    <3>2. CASE psSignals[k] = NONE
      BY <3>1, <3>2 DEF TableInv
    <3>3. CASE psSignals[k] # NONE
      <4>1. psSignals[k] \in Signal /\ subscribed'[psSignals[k]] = subscribed[psSignals[k]]
        BY <1>4, <3>1, <3>3 DEF TableInv, PublisherTypes
      <4>. QED BY <3>1, <3>3, <4>1 DEF TableInv
    <3>. QED BY <3>2, <3>3
  <2>. QED BY <2>1, <2>2
<1>8. \A t \in Signal : (\A k \in SignalSlots : psSignals'[k] # t) => subscribed'[t] = {}
  <2>. SUFFICES ASSUME NEW t \in Signal, \A k \in SignalSlots : psSignals'[k] # t
                PROVE  subscribed'[t] = {}
    OBVIOUS
  <2>1. CASE t = s
    <3>1. sig = NONE
      BY <1>4, <2>1
    <3>2. members = {}
      BY <1>1, <3>1 DEF Members
    <3>. QED BY <1>4, <2>1, <3>2
  <2>2. CASE t # s
    <3>1. \A k \in SignalSlots : psSignals[k] # t
      BY <1>1, <1>4, <2>2
    <3>. QED BY <1>4, <2>2, <3>1 DEF TableInv
  <2>. QED BY <2>1, <2>2
<1>. QED BY <1>3, <1>6, <1>7, <1>8 DEF TableInv

(* A subscription takes the first free slot of its row, or of the table.      *)
LEMMA SubscribeKeeps ==
  ASSUME TableInv, NEW m \in Machine, NEW s \in Signal, subscribeToSignal(m, s)
  PROVE  TableInv'
<1>1. PICK r : r = getSubscriptionStatus(m, s)
  OBVIOUS
<1>2. CASE s \in Reserved \/ r.status \in {"signalSlotsFull", "subscriberSlotsFull"}
  <2>1. UNCHANGED <<psSignals, psSubs, subscribed>>
    BY <1>1, <1>2 DEF subscribeToSignal
  <2>. QED BY <2>1 DEF TableInv, PublisherTypes
<1>3. CASE s \notin Reserved /\ r.status \notin {"signalSlotsFull", "subscriberSlotsFull"}
  <2>. DEFINE i == r.sig
              j == r.sub
  <2>1. /\ psSignals' = IF r.status = "signalNotFound" THEN [psSignals EXCEPT ![i] = s] ELSE psSignals
        /\ psSubs' = IF r.status = "subscriberFound" THEN psSubs ELSE [psSubs EXCEPT ![i][j] = m]
        /\ subscribed' = [subscribed EXCEPT ![s] = subscribed[s] \cup {m}]
    BY <1>1, <1>3 DEF subscribeToSignal
  <2>2. /\ r.status \in {"signalNotFound", "subscriberFound", "subscriberNotFound"}
        /\ i \in SignalSlots /\ j \in SubSlots
        /\ r.status = "signalNotFound" =>
             psSignals[i] = NONE /\ j = 0 /\ \A k \in 0 .. i - 1 : psSignals[k] \notin {NONE, s}
        /\ r.status = "subscriberFound" => psSignals[i] = s /\ psSubs[i][j] = m
        /\ r.status = "subscriberNotFound" =>
             /\ psSignals[i] = s /\ psSubs[i][j] = NONE
             /\ \A k \in 0 .. j - 1 : psSubs[i][k] \notin {NONE, m}
    BY <1>1, <1>3, StatusSays
  <2>. HIDE DEF i, j
  <2>3. /\ MaxSigs \in Nat \ {0} /\ MaxSubs \in Nat \ {0}
        /\ SignalSlots = 0 .. MaxSigs - 1 /\ SubSlots = 0 .. MaxSubs - 1
        /\ NONE \notin Signal /\ NONE \notin Machine
        /\ psSignals \in [0 .. MaxSigs - 1 -> Signal \cup {NONE}] /\ Packed(psSignals, MaxSigs)
        /\ psSubs[i] \in [0 .. MaxSubs - 1 -> Machine \cup {NONE}] /\ Packed(psSubs[i], MaxSubs)
        /\ psSignals[i] = NONE => \A k \in SubSlots : psSubs[i][k] = NONE
        /\ psSignals[i] # NONE => psSubs[i][0] # NONE
                                  /\ subscribed[psSignals[i]] = Members(psSubs[i], MaxSubs)
    BY <2>2, RowOf
  <2>. DEFINE row == [psSubs[i] EXCEPT ![j] = m]
  <2>4. psSubs \in [SignalSlots -> [SubSlots -> Machine \cup {NONE}]]
    BY DEF TableInv, PublisherTypes
  <2>5. r.status # "subscriberFound" => psSubs' = [psSubs EXCEPT ![i] = row]
    BY <2>1
  <2>6. CASE r.status = "subscriberFound"
    <3>1. m \in subscribed[s]
      BY <2>2, <2>3, <2>6 DEF Members
    <3>2. subscribed' = [subscribed EXCEPT ![s] = subscribed[s]]
      BY <2>1, <3>1
    <3>3. UNCHANGED <<psSignals, psSubs, subscribed>>
      BY <2>1, <2>6, <3>2 DEF TableInv, PublisherTypes
    <3>. QED BY <3>3 DEF TableInv, PublisherTypes
  <2>7. CASE r.status # "subscriberFound"
    <3>1. psSubs[i][j] = NONE /\ \A k \in 0 .. j - 1 : psSubs[i][k] \notin {NONE, m}
      BY <2>2, <2>3, <2>7
    <3>2. /\ row \in [0 .. MaxSubs - 1 -> Machine \cup {NONE}] /\ Packed(row, MaxSubs)
          /\ Members(row, MaxSubs) = Members(psSubs[i], MaxSubs) \cup {m}
      <4>1. j \in 0 .. MaxSubs - 1 /\ MaxSubs \in Nat /\ NONE \notin Machine
        BY <2>2, <2>3
      <4>2. psSubs[i] \in [0 .. MaxSubs - 1 -> Machine \cup {NONE}] /\ Packed(psSubs[i], MaxSubs)
        BY <2>3
      <4>. HIDE DEF row
      <4>3. /\ row \in [0 .. MaxSubs - 1 -> Machine \cup {NONE}] /\ row[j] = m
            /\ \A k \in 0 .. MaxSubs - 1 : k # j => row[k] = psSubs[i][k]
        BY <4>1, <4>2 DEF row
      <4>. DEFINE old == psSubs[i]
                  V == Machine
      <4>4. /\ m \in V /\ NONE \notin V /\ old \in [0 .. MaxSubs - 1 -> V \cup {NONE}] /\ Packed(old, MaxSubs)
            /\ old[j] = NONE /\ \A k \in 0 .. j - 1 : old[k] \notin {NONE, m}
            /\ row \in [0 .. MaxSubs - 1 -> V \cup {NONE}] /\ \A k \in 0 .. MaxSubs - 1 : k # j => row[k] = old[k]
        BY <3>1, <4>1, <4>2, <4>3
      <4>. HIDE DEF old, V
      <4>5. Packed(row, MaxSubs) /\ Members(row, MaxSubs) = Members(old, MaxSubs) \cup {m}
        BY ONLY <4>1, <4>3, <4>4, TakenSlot
      <4>. QED BY <4>3, <4>5 DEF old
    <3>3. row[0] # NONE
      <4>1. CASE j = 0
        BY <2>3, <4>1
      <4>2. CASE j # 0
        BY <2>2, <2>3, <2>7, <4>2
      <4>. QED BY <4>1, <4>2
    <3>4. CASE r.status = "subscriberNotFound"
      <4>1. psSignals' = [psSignals EXCEPT ![i] = s] /\ psSignals' = psSignals /\ psSignals[i] = s
        BY <2>1, <2>2, <2>3, <3>4
      <4>2. subscribed' = [subscribed EXCEPT ![s] = Members(row, MaxSubs)]
        BY <2>1, <2>3, <3>2, <4>1
      <4>. HIDE DEF row
      <4>. QED BY <1>3, <2>2, <2>3, <2>5, <2>7, <3>2, <3>3, <4>1, <4>2, RowChanged, ZenonT(60)
    <3>5. CASE r.status = "signalNotFound"
      <4>. DEFINE more == [psSignals EXCEPT ![i] = s]
      <4>1. /\ psSignals' = more /\ psSignals[i] = NONE
            /\ \A k \in 0 .. i - 1 : psSignals[k] \notin {NONE, s}
        BY <2>1, <2>2, <3>5
      <4>2. Packed(more, MaxSigs) /\ \A k \in SignalSlots : psSignals[k] # s
        <5>1. i \in 0 .. MaxSigs - 1 /\ MaxSigs \in Nat /\ NONE \notin Signal
          BY <2>2, <2>3
        <5>2. psSignals \in [0 .. MaxSigs - 1 -> Signal \cup {NONE}] /\ Packed(psSignals, MaxSigs)
          BY <2>3
        <5>3. /\ more \in [0 .. MaxSigs - 1 -> Signal \cup {NONE}] /\ more[i] = s
              /\ \A k \in 0 .. MaxSigs - 1 : k # i => more[k] = psSignals[k]
          BY <5>1, <5>2
        <5>. HIDE DEF more
        <5>4. Packed(more, MaxSigs) /\ \A k \in 0 .. MaxSigs - 1 : psSignals[k] # s
          BY <4>1, <5>1, <5>2, <5>3, TakenSlot
        <5>. QED BY <2>3, <5>4
      <4>3. subscribed[s] = {}
        BY <4>2 DEF TableInv
      <4>4. Members(psSubs[i], MaxSubs) = {}
        BY <2>3, <4>1 DEF Members
      <4>5. subscribed' = [subscribed EXCEPT ![s] = Members(row, MaxSubs)]
        BY <2>1, <3>2, <4>3, <4>4
      <4>. HIDE DEF row
      <4>. QED BY <1>3, <2>2, <2>3, <2>5, <2>7, <3>2, <3>3, <4>1, <4>2, <4>5, RowChanged
    <3>. QED BY <2>2, <2>7, <3>4, <3>5
  <2>. QED BY <2>6, <2>7
<1>. QED BY <1>2, <1>3

(* One that leaves closes up its row; the last one frees the last used slot.  *)
LEMMA UnsubscribeKeeps ==
  ASSUME TableInv, ~LeavesAnyRow, NEW m \in Machine, NEW s \in Signal, MayLeave(m, s),
         unsubscribeFromSignal(m, s)
  PROVE  TableInv'
<1>1. PICK r : r = getSubscriptionStatus(m, s)
  OBVIOUS
<1>2. CASE s \in Reserved \/ r.status # "subscriberFound"
  <2>1. UNCHANGED <<psSignals, psSubs, subscribed>>
    BY <1>1, <1>2 DEF unsubscribeFromSignal
  <2>. QED BY <2>1 DEF TableInv, PublisherTypes
<1>3. CASE s \notin Reserved /\ r.status = "subscriberFound"
  <2>. DEFINE i == r.sig
              j == r.sub
              row == Shifted(psSubs[i], j, MaxSubs - 1)
  <2>1. /\ psSubs' = [psSubs EXCEPT ![i] = row]
        /\ psSignals' = IF row[0] = NONE THEN Shifted(psSignals, i, MaxSigs - 1) ELSE psSignals
        /\ subscribed' = [subscribed EXCEPT ![s] = subscribed[s] \ {m}]
    BY <1>1, <1>3 DEF unsubscribeFromSignal, MaxSubs, MaxSigs
  <2>2. i \in SignalSlots /\ j \in SubSlots /\ psSignals[i] = s /\ psSubs[i][j] = m
    BY <1>1, <1>3, StatusSays
  <2>. HIDE DEF i, j, row
  <2>3. /\ MaxSigs \in Nat \ {0} /\ MaxSubs \in Nat \ {0}
        /\ SignalSlots = 0 .. MaxSigs - 1 /\ SubSlots = 0 .. MaxSubs - 1
        /\ NONE \notin Signal /\ NONE \notin Machine
        /\ psSignals \in [0 .. MaxSigs - 1 -> Signal \cup {NONE}] /\ Packed(psSignals, MaxSigs)
        /\ psSubs[i] \in [0 .. MaxSubs - 1 -> Machine \cup {NONE}] /\ Packed(psSubs[i], MaxSubs)
        /\ subscribed[s] = Members(psSubs[i], MaxSubs)
    <3>1. psSignals[i] # NONE
      BY <2>2, PublisherAssumption
    <3>. QED BY <2>2, <3>1, RowOf
  <2>4. /\ row \in [0 .. MaxSubs - 1 -> Machine \cup {NONE}] /\ Packed(row, MaxSubs)
        /\ Members(row, MaxSubs) = Members(psSubs[i], MaxSubs) \ {m}
    <3>1. j \in 0 .. MaxSubs - 1 /\ MaxSubs \in Nat /\ NONE \notin Machine /\ psSubs[i][j] # NONE
      BY <2>2, <2>3
    <3>2. psSubs[i] \in [0 .. MaxSubs - 1 -> Machine \cup {NONE}] /\ Packed(psSubs[i], MaxSubs)
      BY <2>3
    <3>3. row = Shifted(psSubs[i], j, MaxSubs - 1)
      BY DEF row
    <3>4. /\ row \in [0 .. MaxSubs - 1 -> Machine \cup {NONE}] /\ Packed(row, MaxSubs)
          /\ Members(row, MaxSubs) = Members(psSubs[i], MaxSubs) \ {psSubs[i][j]}
      BY <3>1, <3>2, <3>3, ShiftedRow
    <3>. QED BY <2>2, <3>4
  <2>5. subscribed' = [subscribed EXCEPT ![s] = Members(row, MaxSubs)]
    BY <2>1, <2>3, <2>4
  <2>6. CASE row[0] # NONE
    <3>1. psSignals' = [psSignals EXCEPT ![i] = s] /\ psSignals' = psSignals
      BY <2>1, <2>2, <2>3, <2>6
    <3>2. Packed(psSignals', MaxSigs) /\ row \in [SubSlots -> Machine \cup {NONE}]
      BY <2>3, <2>4, <3>1
    <3>3. s \in Signal \ Reserved /\ s # NONE /\ i \in SignalSlots /\ psSignals[i] = s
      BY <1>3, <2>2, <2>3
    <3>4. PICK sig : sig = s
      OBVIOUS
    <3>5. /\ sig \in {s, NONE} /\ sig # NONE /\ row[0] # NONE /\ psSubs' = [psSubs EXCEPT ![i] = row]
          /\ psSignals' = [psSignals EXCEPT ![i] = sig]
      BY <2>1, <2>6, <3>1, <3>3, <3>4
    <3>6. PICK members : members = Members(row, MaxSubs)
      OBVIOUS
    <3>7. subscribed' = [subscribed EXCEPT ![s] = members] /\ Packed(row, MaxSubs)
      BY <2>4, <2>5, <3>6
    <3>. QED BY <3>2, <3>3, <3>5, <3>6, <3>7, RowChanged
  <2>7. CASE row[0] = NONE
    <3>. DEFINE left == Shifted(psSignals, i, MaxSigs - 1)
    <3>1. \A k \in SubSlots : row[k] = NONE
      BY <2>3, <2>4, <2>7 DEF Packed
    <3>2. Members(row, MaxSubs) = {}
      BY <2>3, <3>1 DEF Members
    <3>3. subscribed[s] = {m}
      BY <2>2, <2>3, <2>4, <3>2, ZenonT(60) DEF Members
    <3>4. \A k \in SignalSlots \ {0} : psSignals[k] # NONE => psSignals[k - 1] # s
      BY <3>3 DEF MayLeave
    <3>5. \A k \in SignalSlots : k > i => psSignals[k] = NONE
      <4>. SUFFICES ASSUME NEW k \in SignalSlots, k > i PROVE psSignals[k] = NONE
        OBVIOUS
      <4>1. i + 1 \in SignalSlots \ {0} /\ (i + 1) - 1 = i
        BY <2>2, <2>3
      <4>2. psSignals[i + 1] = NONE
        BY <2>2, <3>4, <4>1
      <4>. QED BY <2>2, <2>3, <4>1, <4>2 DEF Packed
    <3>6. left \in [0 .. MaxSigs - 1 -> Signal \cup {NONE}] /\ Packed(left, MaxSigs)
      <4>1. psSignals[i] # NONE
        BY <2>2, <2>3
      <4>2. i \in 0 .. MaxSigs - 1 /\ MaxSigs \in Nat /\ NONE \notin Signal
        BY <2>2, <2>3
      <4>3. psSignals \in [0 .. MaxSigs - 1 -> Signal \cup {NONE}] /\ Packed(psSignals, MaxSigs)
        BY <2>3
      <4>4. PICK rest : rest = left
        OBVIOUS
      <4>5. rest \in [0 .. MaxSigs - 1 -> Signal \cup {NONE}] /\ Packed(rest, MaxSigs)
        BY <4>1, <4>2, <4>3, <4>4, ShiftedRow
      <4>. QED BY <4>4, <4>5
    <3>7. left = [psSignals EXCEPT ![i] = NONE]
      <4>1. left = [k \in 0 .. MaxSigs - 1 |-> IF k < i THEN psSignals[k]
                                               ELSE IF k < MaxSigs - 1 THEN psSignals[k + 1] ELSE NONE]
        BY <2>3 DEF Shifted
      <4>2. \A k \in 0 .. MaxSigs - 1 : left[k] = IF k = i THEN NONE ELSE psSignals[k]
        <5>. TAKE k \in 0 .. MaxSigs - 1
        <5>. HIDE DEF left
        <5>1. CASE k < i
          <6>1. left[k] = psSignals[k]
            BY <4>1, <5>1
          <6>. QED BY <2>2, <2>3, <5>1, <6>1
        <5>2. CASE k >= i /\ k < MaxSigs - 1
          <6>1. left[k] = psSignals[k + 1] /\ k + 1 \in SignalSlots /\ k + 1 > i
            BY <2>2, <2>3, <4>1, <5>2
          <6>. QED BY <2>2, <2>3, <3>5, <5>2, <6>1
        <5>3. CASE k >= i /\ k = MaxSigs - 1
          BY <2>2, <2>3, <3>5, <4>1, <5>3
        <5>. QED BY <2>2, <2>3, <5>1, <5>2, <5>3
      <4>. QED BY <2>3, <4>1, <4>2
    <3>8. psSignals' = [psSignals EXCEPT ![i] = NONE] /\ Packed(psSignals', MaxSigs)
      BY <2>1, <2>7, <3>6, <3>7
    <3>9. s \in Signal \ Reserved /\ i \in SignalSlots /\ psSignals[i] = s
          /\ row \in [SubSlots -> Machine \cup {NONE}]
      BY <1>3, <2>2, <2>3, <2>4
    <3>. QED BY ZenonT(60), <2>1, <2>4, <2>5, <3>1, <3>8, <3>9, RowChanged
  <2>. QED BY <2>6, <2>7
<1>. QED BY <1>2, <1>3

(* A signal is told to the whole row of the signal, or there is none to tell. *)
LEMMA SendTells ==
  ASSUME TableInv, NEW s \in Signal, NEW room, sendSignal(s, room)
  PROVE  TableInv' /\ SendTellsAllSubscribers'
<1>. DEFINE i == FirstFrom(psSignals, MaxSigs, {NONE, s})
            known == s \notin Reserved /\ i < MaxSigs /\ psSignals[i] = s
            used == IF known THEN FirstFrom(psSubs[i], MaxSubs, {NONE}) ELSE 0
            told == {psSubs[i][j] : j \in 0 .. (used - 1)}
<1>1. /\ lastSend' = [sig |-> s, told |-> told, taken |-> told \cap room,
                      result |-> known /\ told \subseteq room]
      /\ UNCHANGED <<psSignals, psSubs, subscribed>>
  BY DEF sendSignal, MaxSigs, MaxSubs
<1>2. MaxSigs \in Nat \ {0} /\ MaxSubs \in Nat \ {0} /\ NONE \notin Signal /\ NONE \notin Machine
  BY PublisherAssumption DEF MaxSigs, MaxSubs
<1>3. /\ i \in 0 .. MaxSigs /\ (i < MaxSigs => psSignals[i] \in {NONE, s})
      /\ \A k \in 0 .. i - 1 : psSignals[k] \notin {NONE, s}
  BY <1>2, FirstFromStops
<1>4. SignalSlots = 0 .. MaxSigs - 1 /\ SubSlots = 0 .. MaxSubs - 1
  BY DEF SignalSlots, SubSlots, MaxSigs, MaxSubs
<1>5. TableInv'
  BY <1>1 DEF TableInv, PublisherTypes
<1>6. told = subscribed[s]
  <2>1. CASE known
    <3>. DEFINE n == FirstFrom(psSubs[i], MaxSubs, {NONE})
    <3>1. /\ n \in 0 .. MaxSubs /\ (n < MaxSubs => psSubs[i][n] = NONE)
          /\ \A k \in 0 .. n - 1 : psSubs[i][k] # NONE
      BY <1>2, FirstFromStops
    <3>2. used = n
      BY <2>1
    <3>3. i \in SignalSlots /\ psSignals[i] = s
      BY <1>2, <1>3, <1>4, <2>1
    <3>4. told = {psSubs[i][j] : j \in 0 .. (n - 1)}
      BY <3>2
    <3>. HIDE DEF n, i, used, told, known
    <3>5. Packed(psSubs[i], MaxSubs) /\ subscribed[s] = Members(psSubs[i], MaxSubs)
      BY <1>2, <3>3, RowOf
    <3>6. \A k \in 0 .. MaxSubs - 1 : k >= n => psSubs[i][k] = NONE
      BY <1>2, <3>1, <3>5 DEF Packed
    <3>7. \A k \in 0 .. MaxSubs - 1 : psSubs[i][k] # NONE => k \in 0 .. n - 1
      BY <1>2, <3>1, <3>6
    <3>8. \A k \in 0 .. n - 1 : k \in 0 .. MaxSubs - 1
      BY <1>2, <3>1
    <3>. QED BY <3>1, <3>4, <3>5, <3>7, <3>8 DEF Members
  <2>2. CASE ~known
    <3>1. told = {}
      BY <2>2
    <3>. HIDE DEF i, used, told
    <3>2. \A k \in SignalSlots : psSignals[k] # s
      <4>. SUFFICES ASSUME NEW k \in SignalSlots, psSignals[k] = s PROVE FALSE
        OBVIOUS
      <4>1. s # NONE /\ s \notin Reserved
        BY <1>2, RowOf
      <4>2. k >= i /\ i < MaxSigs
        BY <1>2, <1>3, <1>4
      <4>3. psSignals[i] = NONE /\ i \in SignalSlots /\ i # k
        BY <1>2, <1>3, <1>4, <2>2, <4>1, <4>2
      <4>4. Packed(psSignals, MaxSigs) /\ i < k
        BY <1>4, <4>2, <4>3 DEF TableInv
      <4>. QED BY <1>4, <4>1, <4>3, <4>4 DEF Packed
    <3>. QED BY <3>1, <3>2 DEF TableInv
  <2>. QED BY <2>1, <2>2
<1>. HIDE DEF told, known, used, i
<1>7. SendTellsAllSubscribers'
  <2>1. lastSend'.sig = s /\ lastSend'.told = told /\ lastSend'.taken = told \cap room
    BY <1>1
  <2>2. lastSend'.result => told \subseteq room
    BY <1>1
  <2>. QED BY <1>1, <1>6, <2>1, <2>2 DEF SendTellsAllSubscribers
<1>. QED BY <1>5, <1>7

LEMMA PublisherStep ==
  ASSUME ~LeavesAnyRow
  PROVE  PublisherInv /\ [PublisherNext]_publisherVars => PublisherInv'
<1>. SUFFICES ASSUME PublisherInv, [PublisherNext]_publisherVars
              PROVE  PublisherInv'
  OBVIOUS
<1>1. CASE \E m \in Machine, s \in Signal : subscribeToSignal(m, s)
  <2>1. TableInv' /\ lastSend' = NoCall
    BY <1>1, SubscribeKeeps DEF PublisherInv, subscribeToSignal
  <2>. QED BY <2>1 DEF PublisherInv, SendTellsAllSubscribers, NoCall
<1>2. CASE \E m \in Machine, s \in Signal : MayLeave(m, s) /\ unsubscribeFromSignal(m, s)
  <2>1. TableInv' /\ lastSend' = NoCall
    BY <1>2, UnsubscribeKeeps DEF PublisherInv, unsubscribeFromSignal
  <2>. QED BY <2>1 DEF PublisherInv, SendTellsAllSubscribers, NoCall
<1>3. CASE \E s \in Signal, room \in SUBSET Machine : sendSignal(s, room)
  BY <1>3, SendTells DEF PublisherInv
<1>4. CASE UNCHANGED publisherVars
  BY <1>4 DEF publisherVars, PublisherInv, TableInv, PublisherTypes, SendTellsAllSubscribers
<1>. QED BY <1>1, <1>2, <1>3, <1>4 DEF PublisherNext

(* For any number of machines and signals and tables of any size: a signal is *)
(* told to every machine subscribed to it and to no other, whatever was       *)
(* subscribed and left before, as long as the last subscriber of a signal     *)
(* leaves only where no signal behind it moves up (fsm.cpp 16-150).           *)
THEOREM EverySubscriberIsTold ==
  ASSUME ~LeavesAnyRow
  PROVE  PublisherSpec => []SendTellsAllSubscribers
<1>1. PublisherInv /\ [PublisherNext]_publisherVars => PublisherInv'
  BY PublisherStep
<1>2. PublisherInv => SendTellsAllSubscribers
  BY DEF PublisherInv
<1>. QED BY <1>1, <1>2, PublisherStarts, PTL DEF PublisherSpec
-----------------------------------------------------------------------------
(* Input watcher.                                                             *)

(* Position j holds the first channel that has the number of the i-th.        *)
FirstLike(list, i, j) ==
  /\ j \in 1..i /\ PinNumber[list[j]] = PinNumber[list[i]]
  /\ \A k \in 1..(j - 1) : PinNumber[list[k]] # PinNumber[list[i]]

(* With p for the values they read, the first n channels of a list read their *)
(* firsts; and so do all of them.                                             *)
FrontReads(list, n, p) == \A i \in 1..n : \E j \in 1..i : FirstLike(list, i, j) /\ p[list[i]] = list[j]
ReadFirsts(list, p) == \A i \in DOMAIN list : \E j \in 1..i : FirstLike(list, i, j) /\ p[list[i]] = list[j]

NoneTwice(list) == \A i, j \in DOMAIN list : list[i] = list[j] => i = j

(* The search returns the first place of the number, or 0 for none.           *)
LEMMA FirstFound ==
  ASSUME NEW S, NEW list \in Seq(S), NEW n
  PROVE  LET f == FirstOfNumber(list, n)
         IN \/ f = 0 /\ \A k \in 1..Len(list) : PinNumber[list[k]] # n
            \/ f \in 1..Len(list) /\ PinNumber[list[f]] = n /\ \A k \in 1..(f - 1) : PinNumber[list[k]] # n
<1>. DEFINE I == {i \in 1..Len(list) : PinNumber[list[i]] = n}
            f == FirstOfNumber(list, n)
<1>0. Len(list) \in Nat
  OBVIOUS
<1>1. f = IF I # {} THEN Min(I) ELSE 0
  BY DEF FirstOfNumber, SelectInSeq
<1>2. CASE I = {}
  BY <1>1, <1>2
<1>3. CASE I # {}
  <2>1. I \in SUBSET Nat
    BY <1>0
  <2>2. \E k \in I : \A j \in I : k <= j
    BY <1>3, <2>1, LeastNumber
  <2>3. Min(I) \in I /\ \A j \in I : Min(I) <= j
    BY <2>2 DEF Min
  <2>4. f \in I /\ \A j \in I : f <= j
    BY <1>1, <1>3, <2>3
  <2>5. f \in 1..Len(list) /\ PinNumber[list[f]] = n
    BY <2>4
  <2>6. ASSUME NEW k \in 1..(f - 1) PROVE PinNumber[list[k]] # n
    <3>1. k \in 1..Len(list) /\ ~(f <= k)
      BY <1>0, <2>5, <2>6
    <3>. QED BY <2>4, <3>1
  <2>. QED BY <2>5, <2>6
<1>. QED BY <1>2, <1>3

(* Removing a channel moves those behind it up by one place.                  *)
LEMMA RemovedChannel ==
  ASSUME NEW S, NEW list \in Seq(S), NoneTwice(list), NEW c
  PROVE  LET left == RemoveFirst(list, c)
         IN /\ left \in Seq(S)
            /\ c \notin ToSet(list) => left = list
            /\ c \in ToSet(list)
                 => \E m \in 1..Len(list) :
                      /\ list[m] = c /\ Len(left) = Len(list) - 1
                      /\ \A k \in 1..Len(left) : left[k] = IF k < m THEN list[k] ELSE list[k + 1]
<1>. DEFINE left == RemoveFirst(list, c)
            I == {i \in 1..Len(list) : list[i] = c}
<1>0. Len(list) \in Nat /\ DOMAIN list = 1..Len(list)
  OBVIOUS
<1>1. CASE c \notin ToSet(list)
  <2>1. ~\E i \in 1..Len(list) : list[i] = c
    BY <1>0, <1>1 DEF ToSet
  <2>2. left = list
    BY <2>1 DEF RemoveFirst
  <2>. QED BY <1>1, <2>2
<1>2. CASE c \in ToSet(list)
  <2>1. PICK m \in 1..Len(list) : list[m] = c
    BY <1>0, <1>2 DEF ToSet
  <2>2. I = {m}
    BY <1>0, <2>1 DEF NoneTwice
  <2>3. Min({m}) = m
    BY <2>1 DEF Min
  <2>4. SelectInSeq(list, LAMBDA v : v = c) = m
    <3>1. SelectInSeq(list, LAMBDA v : v = c) = IF I # {} THEN Min(I) ELSE 0
      BY DEF SelectInSeq
    <3>. QED BY <2>2, <2>3, <3>1
  <2>5. left = RemoveAt(list, m)
    BY <2>1, <2>4 DEF RemoveFirst
  <2>6. left = SubSeq(list, 1, m - 1) \o SubSeq(list, m + 1, Len(list))
    BY <2>5 DEF RemoveAt
  <2>. DEFINE before == SubSeq(list, 1, m - 1)
              behind == SubSeq(list, m + 1, Len(list))
  <2>a. m \in Int /\ m - 1 \in Int /\ m + 1 \in Int /\ Len(list) \in Int /\ 1 <= m /\ m <= Len(list)
    BY <1>0, <2>1
  <2>b. (\A i \in 1 .. (m - 1) : list[i] \in S) /\ (\A i \in (m + 1) .. Len(list) : list[i] \in S)
    BY <1>0, <2>1, \A i \in 1 .. Len(list) : list[i] \in S
  <2>. HIDE DEF before, behind
  <2>7. /\ before \in Seq(S) /\ Len(before) = m - 1
        /\ \A k \in 1 .. (m - 1) : before[k] = list[k]
    <3>1. /\ before \in Seq(S)
          /\ Len(before) = IF 1 <= m - 1 THEN m - 1 - 1 + 1 ELSE 0
          /\ \A k \in 1 .. m - 1 - 1 + 1 : before[k] = list[1 + k - 1]
      BY <2>a, <2>b, SubSeqProperties DEF before
    <3>2. Len(before) = m - 1
      BY <2>1, <2>a, <3>1
    <3>3. ASSUME NEW k \in 1 .. (m - 1) PROVE before[k] = list[k]
      <4>1. k \in 1 .. m - 1 - 1 + 1 /\ 1 + k - 1 = k
        BY <2>a, <3>3
      <4>. QED BY <3>1, <4>1
    <3>. QED BY <3>1, <3>2, <3>3
  <2>8. /\ behind \in Seq(S) /\ Len(behind) = Len(list) - m
        /\ \A k \in 1 .. (Len(list) - m) : behind[k] = list[m + k]
    <3>1. /\ behind \in Seq(S)
          /\ Len(behind) = IF m + 1 <= Len(list) THEN Len(list) - (m + 1) + 1 ELSE 0
          /\ \A k \in 1 .. Len(list) - (m + 1) + 1 : behind[k] = list[(m + 1) + k - 1]
      BY <2>a, <2>b, SubSeqProperties DEF behind
    <3>2. Len(behind) = Len(list) - m
      <4>. DEFINE n == Len(list)
                  b == Len(behind)
      <4>1. b = IF m + 1 <= n THEN n - (m + 1) + 1 ELSE 0
        BY <3>1
      <4>2. m \in Int /\ n \in Int /\ m <= n
        BY <2>a
      <4>. HIDE DEF n, b
      <4>3. b = n - m
        BY <4>1, <4>2
      <4>. QED BY <4>3 DEF n, b
    <3>3. ASSUME NEW k \in 1 .. (Len(list) - m) PROVE behind[k] = list[m + k]
      <4>1. k \in 1 .. Len(list) - (m + 1) + 1 /\ (m + 1) + k - 1 = m + k
        BY <2>a, <3>3
      <4>. QED BY <3>1, <4>1
    <3>. QED BY <3>1, <3>2, <3>3
  <2>d. /\ before \o behind \in Seq(S)
        /\ Len(before \o behind) = Len(before) + Len(behind)
        /\ \A i \in 1 .. Len(before) + Len(behind) :
             (before \o behind)[i] = IF i <= Len(before) THEN before[i] ELSE behind[i - Len(before)]
    BY <2>7, <2>8, ConcatProperties
  <2>e. left = before \o behind
    BY <2>6 DEF before, behind
  <2>9. left \in Seq(S) /\ Len(left) = Len(list) - 1
    <3>1. Len(left) = (m - 1) + (Len(list) - m)
      BY <2>7, <2>8, <2>d, <2>e
    <3>. QED BY <2>a, <2>d, <2>e, <3>1
  <2>10. ASSUME NEW k \in 1..Len(left) PROVE left[k] = IF k < m THEN list[k] ELSE list[k + 1]
    <3>1. k \in 1 .. Len(before) + Len(behind) /\ left[k] = IF k <= m - 1 THEN before[k] ELSE behind[k - (m - 1)]
      BY <2>7, <2>8, <2>d, <2>e, <2>10
    <3>2. CASE k < m
      <4>1. k \in 1 .. (m - 1) /\ k <= m - 1
        BY <1>0, <2>1, <2>9, <2>10, <3>2
      <4>. QED BY <2>7, <3>1, <3>2, <4>1
    <3>3. CASE ~(k < m)
      <4>1. k - (m - 1) \in 1 .. (Len(list) - m) /\ ~(k <= m - 1) /\ m + (k - (m - 1)) = k + 1
        BY <1>0, <2>1, <2>9, <2>10, <3>3
      <4>. QED BY <2>8, <3>1, <3>3, <4>1
    <3>. QED BY <3>2, <3>3
  <2>. QED BY <1>2, <2>1, <2>9, <2>10
<1>. QED BY <1>1, <1>2

(* What a removal leaves is what was there but the removed channel, once.     *)
LEMMA LeftChannels ==
  ASSUME NEW S, NEW list \in Seq(S), NoneTwice(list), NEW c
  PROVE  /\ ToSet(RemoveFirst(list, c)) = ToSet(list) \ {c}
         /\ NoneTwice(RemoveFirst(list, c))
<1>. DEFINE left == RemoveFirst(list, c)
<1>0. /\ Len(list) \in Nat /\ DOMAIN list = 1..Len(list)
      /\ left \in Seq(S) /\ Len(left) \in Nat /\ DOMAIN left = 1..Len(left)
  BY RemovedChannel
<1>1. CASE c \notin ToSet(list)
  <2>1. left = list
    BY <1>1, RemovedChannel
  <2>. QED BY <1>1, <2>1
<1>2. CASE c \in ToSet(list)
  <2>1. PICK m \in 1..Len(list) :
          /\ list[m] = c /\ Len(left) = Len(list) - 1
          /\ \A k \in 1..Len(left) : left[k] = IF k < m THEN list[k] ELSE list[k + 1]
    BY <1>2, RemovedChannel
  <2>2. ASSUME NEW k \in 1..Len(left)
        PROVE  \E i \in 1..Len(list) : i # m /\ left[k] = list[i] /\ k = IF i < m THEN i ELSE i - 1
    <3>1. CASE k < m
      BY <1>0, <2>1, <2>2, <3>1
    <3>2. CASE ~(k < m)
      <4>1. k + 1 \in 1..Len(list) /\ k + 1 # m /\ ~(k + 1 < m) /\ left[k] = list[k + 1] /\ (k + 1) - 1 = k
        BY <1>0, <2>1, <2>2, <3>2
      <4>. QED BY <4>1
    <3>. QED BY <3>1, <3>2
  <2>3. ASSUME NEW i \in 1..Len(list), i # m
        PROVE  \E k \in 1..Len(left) : left[k] = list[i]
    <3>1. CASE i < m
      <4>1. i \in 1..Len(left) /\ left[i] = list[i]
        BY <1>0, <2>1, <2>3, <3>1
      <4>. QED BY <4>1
    <3>2. CASE ~(i < m)
      <4>1. i - 1 \in 1..Len(left) /\ ~(i - 1 < m) /\ (i - 1) + 1 = i
        BY <1>0, <2>1, <2>3, <3>2
      <4>2. left[i - 1] = list[i]
        BY <2>1, <4>1
      <4>. QED BY <4>1, <4>2
    <3>. QED BY <3>1, <3>2
  <2>4. \A i \in 1..Len(list) : list[i] = c => i = m
    BY <1>0, <2>1 DEF NoneTwice
  <2>5. ToSet(left) \subseteq ToSet(list) \ {c}
    BY <1>0, <2>2, <2>4 DEF ToSet
  <2>6. ToSet(list) \ {c} \subseteq ToSet(left)
    BY <1>0, <2>1, <2>3 DEF ToSet
  <2>7. ASSUME NEW j \in 1..Len(left), NEW k \in 1..Len(left), left[j] = left[k] PROVE j = k
    <3>1. PICK a \in 1..Len(list) : a # m /\ left[j] = list[a] /\ j = IF a < m THEN a ELSE a - 1
      BY <2>2
    <3>2. PICK b \in 1..Len(list) : b # m /\ left[k] = list[b] /\ k = IF b < m THEN b ELSE b - 1
      BY <2>2
    <3>3. a = b
      BY <1>0, <2>7, <3>1, <3>2 DEF NoneTwice
    <3>. QED BY <3>1, <3>2, <3>3
  <2>8. NoneTwice(left)
    BY <1>0, <2>7 DEF NoneTwice
  <2>. QED BY <2>5, <2>6, <2>8
<1>. QED BY <1>1, <1>2
(* The rest keeps its order, so it still reads its firsts once the channels   *)
(* of the removed one's number share the value of the new first of them.      *)
LEMMA FirstsAfterRemoval ==
  ASSUME NEW S, NEW list \in Seq(S), NoneTwice(list), NEW c, NEW p, NEW q,
         ReadFirsts(list, p),
         LET left == RemoveFirst(list, c)
         IN \A d \in ToSet(left) : q[d] = IF PinNumber[d] = PinNumber[c] THEN left[FirstOfNumber(left, PinNumber[c])] ELSE p[d]
  PROVE  ReadFirsts(RemoveFirst(list, c), q)
<1>. DEFINE left == RemoveFirst(list, c)
<1>0. /\ Len(list) \in Nat /\ DOMAIN list = 1..Len(list)
      /\ left \in Seq(S) /\ Len(left) \in Nat /\ DOMAIN left = 1..Len(left)
  BY RemovedChannel
<1>1. \A d \in ToSet(left) : q[d] = IF PinNumber[d] = PinNumber[c] THEN left[FirstOfNumber(left, PinNumber[c])] ELSE p[d]
  OBVIOUS
<1>. HIDE DEF left
<1>. SUFFICES ASSUME NEW i \in 1..Len(left)
              PROVE  \E j \in 1..i : FirstLike(left, i, j) /\ q[left[i]] = left[j]
  BY <1>0 DEF ReadFirsts, left
<1>2. left[i] \in ToSet(left)
  BY <1>0 DEF ToSet
<1>3. CASE PinNumber[left[i]] = PinNumber[c]
  <2>. DEFINE f == FirstOfNumber(left, PinNumber[c])
  <2>1. \/ f = 0 /\ \A k \in 1..Len(left) : PinNumber[left[k]] # PinNumber[c]
        \/ f \in 1..Len(left) /\ PinNumber[left[f]] = PinNumber[c] /\ \A k \in 1..(f - 1) : PinNumber[left[k]] # PinNumber[c]
    BY <1>0, FirstFound
  <2>2. q[left[i]] = left[f]
    BY <1>1, <1>2, <1>3
  <2>. HIDE DEF f
  <2>3. f \in 1..Len(left) /\ PinNumber[left[f]] = PinNumber[c] /\ \A k \in 1..(f - 1) : PinNumber[left[k]] # PinNumber[c]
    BY <1>3, <2>1
  <2>4. f \in 1..i
    BY <1>0, <1>3, <2>3
  <2>. QED BY <1>3, <2>2, <2>3, <2>4 DEF FirstLike
<1>4. CASE PinNumber[left[i]] # PinNumber[c]
  <2>0. q[left[i]] = p[left[i]]
    BY <1>1, <1>2, <1>4
  <2>1. CASE c \notin ToSet(list)
    <3>1. left = list
      BY <2>1, RemovedChannel DEF left
    <3>2. PICK j \in 1..i : FirstLike(list, i, j) /\ p[list[i]] = list[j]
      BY <1>0, <3>1 DEF ReadFirsts
    <3>. QED BY <2>0, <3>1, <3>2
  <2>2. CASE c \in ToSet(list)
    <3>1. PICK m \in 1..Len(list) :
            /\ list[m] = c /\ Len(left) = Len(list) - 1
            /\ \A k \in 1..Len(left) : left[k] = IF k < m THEN list[k] ELSE list[k + 1]
      BY <2>2, RemovedChannel, SMTT(30) DEF left
    <3>. DEFINE old == IF i < m THEN i ELSE i + 1
    <3>2. old \in 1..Len(list) /\ left[i] = list[old]
      BY <1>0, <3>1
    <3>3. PICK j \in 1..old : FirstLike(list, old, j) /\ p[list[old]] = list[j]
      BY <1>0, <3>2 DEF ReadFirsts
    <3>4. PinNumber[list[j]] = PinNumber[left[i]] /\ \A k \in 1..(j - 1) : PinNumber[list[k]] # PinNumber[left[i]]
      BY <3>2, <3>3 DEF FirstLike
    <3>5. j # m
      BY <1>4, <3>1, <3>4
    <3>. DEFINE new == IF j < m THEN j ELSE j - 1
    <3>6. new \in 1..i
      BY <1>0, <3>1, <3>2, <3>3, <3>5
    <3>7. left[new] = list[j]
      <4>1. new \in 1..Len(left)
        BY <1>0, <3>6
      <4>2. CASE j < m
        BY <3>1, <4>1, <4>2
      <4>3. CASE ~(j < m)
        <5>1. new = j - 1 /\ ~(new < m) /\ new + 1 = j
          BY <3>1, <3>2, <3>3, <3>5, <4>3
        <5>. QED BY <3>1, <4>1, <5>1
      <4>. QED BY <4>2, <4>3
    <3>8. ASSUME NEW k \in 1..(new - 1) PROVE PinNumber[left[k]] # PinNumber[left[i]]
      <4>1. k \in 1..Len(left) /\ k \in 1..(j - 1)
        BY <1>0, <3>2, <3>3, <3>6, <3>8
      <4>2. CASE k < m
        <5>1. left[k] = list[k]
          BY <3>1, <4>1, <4>2
        <5>. QED BY <3>4, <4>1, <5>1
      <4>3. CASE ~(k < m)
        <5>1. k + 1 \in 1..(j - 1)
          BY <3>1, <3>2, <3>3, <3>5, <3>8, <4>1, <4>3
        <5>2. left[k] = list[k + 1]
          BY <3>1, <4>1, <4>3
        <5>. QED BY <3>4, <5>1, <5>2
      <4>. QED BY <4>2, <4>3
    <3>9. q[left[i]] = left[new]
      BY <2>0, <3>2, <3>3, <3>7
    <3>10. FirstLike(left, i, new)
      BY <3>4, <3>6, <3>7, <3>8 DEF FirstLike
    <3>. HIDE DEF new
    <3>. QED BY <3>6, <3>9, <3>10
  <2>. QED BY <2>1, <2>2
<1>. QED BY <1>3, <1>4

(* The channels in front read what they read in the shorter list.             *)
LEMMA FirstsInFront ==
  ASSUME NEW list, NEW grown, NEW q, NEW n \in Nat, \A k \in 1..n : grown[k] = list[k],
         FrontReads(list, n, q)
  PROVE  FrontReads(grown, n, q)
<1>. SUFFICES ASSUME NEW i \in 1..n
              PROVE  \E j \in 1..i : FirstLike(grown, i, j) /\ q[grown[i]] = grown[j]
  BY DEF FrontReads
<1>1. PICK j \in 1..i : FirstLike(list, i, j) /\ q[list[i]] = list[j]
  BY DEF FrontReads
<1>2. i \in 1..n /\ j \in 1..n /\ \A k \in 1..(j - 1) : k \in 1..n
  BY <1>1
<1>3. grown[i] = list[i] /\ grown[j] = list[j] /\ \A k \in 1..(j - 1) : grown[k] = list[k]
  BY <1>2
<1>4. FirstLike(grown, i, j)
  BY <1>1, <1>3 DEF FirstLike
<1>5. q[grown[i]] = grown[j]
  BY <1>1, <1>3
<1>. QED BY <1>1, <1>4, <1>5

(* What an insertion leaves, and what the inserted channel reads.             *)
Grown(list, c) == IF c \in ToSet(list) THEN list ELSE Append(list, c)
FirstOr(list, c, own) == LET f == FirstOfNumber(list, PinNumber[c]) IN IF f = 0 THEN own ELSE list[f]

(* A list that takes a channel it does not have holds it once.                *)
LEMMA ListGrows ==
  ASSUME NEW S, NEW list \in Seq(S), NoneTwice(list), NEW c \in S
  PROVE  /\ Grown(list, c) \in Seq(S) /\ NoneTwice(Grown(list, c))
         /\ ToSet(Grown(list, c)) = ToSet(list) \cup {c}
<1>. DEFINE n == Len(list)
            grown == Grown(list, c)
<1>a. grown = IF c \in ToSet(list) THEN list ELSE Append(list, c)
  BY DEF Grown
<1>. HIDE DEF grown
<1>0. n \in Nat /\ DOMAIN list = 1..n
  OBVIOUS
<1>1. CASE c \in ToSet(list)
  BY <1>1, <1>a DEF grown
<1>2. CASE c \notin ToSet(list)
  <2>1. /\ grown \in Seq(S) /\ DOMAIN grown = 1..(n + 1)
        /\ grown[n + 1] = c /\ \A k \in 1..n : grown[k] = list[k]
    BY <1>2, <1>a
  <2>2. \A k \in 1..n : list[k] # c
    BY <1>0, <1>2 DEF ToSet
  <2>. HIDE DEF n
  <2>3. NoneTwice(grown)
    <3>. SUFFICES ASSUME NEW i \in 1..(n + 1), NEW j \in 1..(n + 1), grown[i] = grown[j] PROVE i = j
      BY <2>1 DEF NoneTwice
    <3>1. CASE i \in 1..n /\ j \in 1..n
      <4>1. list[i] = list[j]
        BY <2>1, <3>1
      <4>. QED BY <1>0, <3>1, <4>1 DEF NoneTwice
    <3>2. CASE i = n + 1 \/ j = n + 1
      BY <1>0, <2>1, <2>2, <3>2
    <3>. QED BY <1>0, <3>1, <3>2
  <2>4. ToSet(grown) \subseteq ToSet(list) \cup {c}
    BY <1>0, <2>1 DEF ToSet
  <2>5. ToSet(list) \cup {c} \subseteq ToSet(grown)
    BY <1>0, <2>1 DEF ToSet
  <2>. QED BY <2>1, <2>3, <2>4, <2>5 DEF grown
<1>. QED BY <1>1, <1>2

(* A channel that joins, or starts over, reads the first of its number.       *)
LEMMA FirstsAfterAdd ==
  ASSUME NEW S, NEW list \in Seq(S), NoneTwice(list), NEW c \in S, NEW p \in [S -> S], ReadFirsts(list, p),
         c \notin ToSet(list) => p[c] = c
  PROVE  /\ ReadFirsts(Grown(list, c), [p EXCEPT ![c] = FirstOr(list, c, p[c])])
         /\ FirstOr(list, c, p[c]) \in S
<1>. DEFINE grown == Grown(list, c)
            r == FirstOr(list, c, p[c])
            q == [p EXCEPT ![c] = r]
            f == FirstOfNumber(list, PinNumber[c])
<1>0. Len(list) \in Nat /\ DOMAIN list = 1..Len(list) /\ \A k \in 1..Len(list) : list[k] \in S
  OBVIOUS
<1>1. \/ f = 0 /\ \A k \in 1..Len(list) : PinNumber[list[k]] # PinNumber[c]
      \/ f \in 1..Len(list) /\ PinNumber[list[f]] = PinNumber[c] /\ \A k \in 1..(f - 1) : PinNumber[list[k]] # PinNumber[c]
  BY FirstFound
<1>2. r = IF f = 0 THEN p[c] ELSE list[f]
  BY DEF FirstOr
<1>a. grown = IF c \in ToSet(list) THEN list ELSE Append(list, c)
  BY DEF Grown
<1>. HIDE DEF f, r, grown
<1>3. r \in S
  BY <1>0, <1>1, <1>2
<1>4. q[c] = r /\ \A d \in S : d # c => q[d] = p[d]
  OBVIOUS
<1>. HIDE DEF q, r, grown
<1>5. ASSUME NEW i \in 1..Len(list), list[i] # c
      PROVE  \E j \in 1..i : FirstLike(list, i, j) /\ q[list[i]] = list[j]
  BY <1>0, <1>4, <1>5 DEF ReadFirsts
<1>6. ASSUME NEW i \in 1..Len(list), list[i] = c
      PROVE  \E j \in 1..i : FirstLike(list, i, j) /\ q[list[i]] = list[j]
  <2>1. f \in 1..Len(list) /\ PinNumber[list[f]] = PinNumber[c] /\ \A k \in 1..(f - 1) : PinNumber[list[k]] # PinNumber[c]
    BY <1>1, <1>6
  <2>2. f \in 1..i
    BY <1>0, <1>6, <2>1
  <2>3. q[list[i]] = list[f]
    BY <1>2, <1>4, <1>6, <2>1
  <2>. QED BY <1>6, <2>1, <2>2, <2>3 DEF FirstLike
<1>7. CASE c \in ToSet(list)
  <2>1. grown = list
    BY <1>7, <1>a
  <2>2. ReadFirsts(list, q)
    BY <1>0, <1>5, <1>6 DEF ReadFirsts
  <2>. QED BY <1>3, <2>1, <2>2 DEF q, r, grown
<1>8. CASE c \notin ToSet(list)
  <2>. DEFINE n == Len(list)
  <2>1. /\ grown \in Seq(S) /\ Len(grown) = n + 1 /\ DOMAIN grown = 1..(n + 1)
        /\ grown[n + 1] = c /\ \A k \in 1..n : grown[k] = list[k]
    BY <1>8, <1>a
  <2>2. \A k \in 1..n : list[k] # c
    BY <1>0, <1>8 DEF ToSet
  <2>3. n \in Nat
    BY <1>0
  <2>. HIDE DEF n
  <2>6. FrontReads(grown, n, q)
    <3>1. FrontReads(list, n, q)
      BY <1>5, <2>2 DEF FrontReads, n
    <3>2. \A k \in 1..n : grown[k] = list[k]
      BY <2>1
    <3>. QED BY <2>3, <3>1, <3>2, FirstsInFront
  <2>7. \E j \in 1..(n + 1) : FirstLike(grown, n + 1, j) /\ q[grown[n + 1]] = grown[j]
    <3>. DEFINE j == IF f = 0 THEN n + 1 ELSE f
    <3>1. /\ j \in 1..(n + 1) /\ PinNumber[grown[j]] = PinNumber[grown[n + 1]]
          /\ \A k \in 1..(j - 1) : PinNumber[grown[k]] # PinNumber[grown[n + 1]]
      BY <1>1, <2>1, <2>3 DEF n
    <3>2. q[grown[n + 1]] = grown[j]
      <4>1. CASE f = 0
        BY <1>2, <1>4, <1>8, <2>1, <4>1
      <4>2. CASE f # 0
        BY <1>1, <1>2, <1>4, <2>1, <4>2 DEF n
      <4>. QED BY <4>1, <4>2
    <3>. HIDE DEF j
    <3>3. FirstLike(grown, n + 1, j)
      BY <3>1 DEF FirstLike
    <3>. QED BY <3>1, <3>2, <3>3, Zenon
  <2>8. ReadFirsts(grown, q)
    <3>1. \A i \in 1..(n + 1) : i \in 1..n \/ i = n + 1
      BY <2>3
    <3>. QED BY <2>1, <2>6, <2>7, <3>1 DEF ReadFirsts, FrontReads
  <2>. QED BY <1>3, <2>8 DEF q, r, grown
<1>. QED BY <1>3, <1>7, <1>8 DEF q, r, grown
(* The inductive invariant: a channel of the watcher is in the list of its    *)
(* kind, an analog one once; a channel outside the analog list reads its own  *)
(* value, so that it needs no other when it joins.                            *)
InputInv ==
  /\ \A c \in Channel : "type" \in DOMAIN conf[c]
  /\ digitalChannels \in Seq(Channel) /\ \A c \in ToSet(digitalChannels) : IsDigital(c)
  /\ analogChannels \in Seq(Channel) /\ \A c \in ToSet(analogChannels) : ~IsDigital(c)
  /\ NoneTwice(digitalChannels) /\ NoneTwice(analogChannels)
  /\ ptrValue \in [Channel -> Channel]
  /\ \A c \in Channel : c \notin ToSet(analogChannels) => ptrValue[c] = c
  /\ SharedReadsFirst

LEMMA FirstsAreShared == SharedReadsFirst <=> ReadFirsts(analogChannels, ptrValue)
BY DEF SharedReadsFirst, ReadFirsts, FirstLike

LEMMA InputStarts == InputInit => InputInv
<1>. SUFFICES ASSUME InputInit PROVE InputInv
  OBVIOUS
<1>1. PICK k \in Configs : conf = [c \in DOMAIN k |-> Constructed(k[c])]
  BY DEF InputInit
<1>2. \A c \in Channel : "type" \in DOMAIN conf[c]
  BY <1>1 DEF Channel, Constructed, Digital, Analog
<1>3. digitalChannels = <<>> /\ analogChannels = <<>> /\ ToSet(digitalChannels) = {} /\ ToSet(analogChannels) = {}
  BY DEF InputInit, ToSet
<1>4. ptrValue \in [Channel -> Channel] /\ \A c \in Channel : ptrValue[c] = c
  BY DEF InputInit
<1>. QED BY <1>2, <1>3, <1>4 DEF InputInv, NoneTwice, SharedReadsFirst

(* A step that changes neither the lists nor what is read through, nor the    *)
(* kind of a channel.                                                         *)
LEMMA InputUnmoved ==
  ASSUME InputInv, UNCHANGED <<digitalChannels, analogChannels, ptrValue>>, Channel' = Channel,
         \A c \in Channel : "type" \in DOMAIN conf'[c] /\ conf'[c].type = conf[c].type
  PROVE  InputInv'
<1>1. SharedReadsFirst'
  BY DEF InputInv, SharedReadsFirst
<1>2. /\ \A c \in ToSet(digitalChannels) : IsDigital(c)'
      /\ \A c \in ToSet(analogChannels) : ~IsDigital(c)'
  BY DEF InputInv, IsDigital, ToSet
<1>. QED BY <1>1, <1>2 DEF InputInv, ToSet, NoneTwice

LEMMA SettingsKeep ==
  ASSUME InputInv, NEW c \in Channel, NEW e, NEW t, setTime(c, e, t) \/ setParameter(c, e, t)
  PROVE  InputInv'
<1>1. UNCHANGED <<digitalChannels, analogChannels, ptrValue>>
  BY DEF setTime, setParameter
<1>. SUFFICES /\ DOMAIN conf' = DOMAIN conf
              /\ \A d \in DOMAIN conf : "type" \in DOMAIN conf'[d] /\ conf'[d].type = conf[d].type
  BY <1>1, InputUnmoved DEF Channel
<1>2. \A d \in DOMAIN conf : "type" \in DOMAIN conf[d]
  BY DEF InputInv, Channel
<1>3. CASE setTime(c, e, t)
  <2>1. \/ conf' = [conf EXCEPT ![c].steady[ZoneNamed(e)] = t]
        \/ conf' = [conf EXCEPT ![c].pulsationInterval = t]
    BY <1>3 DEF setTime
  <2>. QED BY <1>2, <2>1
<1>4. CASE setParameter(c, e, t)
  <2>1. e \in DOMAIN Parameter /\ conf' = [conf EXCEPT ![c][Parameter[e]] = t]
    BY <1>4 DEF setParameter
  <2>2. Parameter[e] # "type"
    BY <2>1 DEF Parameter
  <2>. QED BY <1>2, <2>1, <2>2
<1>. QED BY <1>3, <1>4

LEMMA AddKeeps ==
  ASSUME InputInv, NEW c \in Channel, Add(c)
  PROVE  InputInv'
<1>. USE DEF Channel
<1>1. conf' = conf /\ Channel' = Channel
  BY DEF Add
<1>2. CASE IsDigital(c)
  <2>1. UNCHANGED <<analogChannels, ptrValue>>
    BY <1>2 DEF Add
  <2>2. c \notin ToSet(analogChannels)
    BY <1>2 DEF InputInv
  <2>3. digitalChannels' = Grown(digitalChannels, c)
    BY <1>2, <2>2 DEF Add, Watched, Grown
  <2>4. /\ digitalChannels' \in Seq(Channel) /\ NoneTwice(digitalChannels')
        /\ ToSet(digitalChannels') = ToSet(digitalChannels) \cup {c}
    BY <2>3, ListGrows DEF InputInv
  <2>5. \A d \in ToSet(digitalChannels') : IsDigital(d)'
    BY <1>1, <1>2, <2>4 DEF InputInv, IsDigital
  <2>6. SharedReadsFirst'
    BY <2>1 DEF InputInv, SharedReadsFirst
  <2>. QED BY <1>1, <2>1, <2>4, <2>5, <2>6 DEF InputInv, IsDigital
<1>3. CASE ~IsDigital(c)
  <2>1. /\ digitalChannels' = digitalChannels
        /\ ptrValue' = [ptrValue EXCEPT ![c] = Sharer(c)]
    BY <1>3 DEF Add
  <2>2. c \notin ToSet(digitalChannels)
    BY <1>3 DEF InputInv
  <2>3. analogChannels' = Grown(analogChannels, c) /\ Sharer(c) = FirstOr(analogChannels, c, ptrValue[c])
    BY <1>3, <2>2 DEF Add, Watched, Grown, Sharer, FirstOr
  <2>4. /\ ReadFirsts(analogChannels', [ptrValue EXCEPT ![c] = Sharer(c)])
        /\ analogChannels' \in Seq(Channel) /\ NoneTwice(analogChannels')
        /\ ToSet(analogChannels') = ToSet(analogChannels) \cup {c} /\ Sharer(c) \in Channel
    <3>1. /\ analogChannels \in Seq(Channel) /\ NoneTwice(analogChannels) /\ ptrValue \in [Channel -> Channel]
          /\ ReadFirsts(analogChannels, ptrValue) /\ (c \notin ToSet(analogChannels) => ptrValue[c] = c)
      BY FirstsAreShared DEF InputInv
    <3>2. /\ ReadFirsts(Grown(analogChannels, c), [ptrValue EXCEPT ![c] = FirstOr(analogChannels, c, ptrValue[c])])
          /\ FirstOr(analogChannels, c, ptrValue[c]) \in Channel
      BY <3>1, FirstsAfterAdd
    <3>3. /\ Grown(analogChannels, c) \in Seq(Channel) /\ NoneTwice(Grown(analogChannels, c))
          /\ ToSet(Grown(analogChannels, c)) = ToSet(analogChannels) \cup {c}
      BY <3>1, ListGrows
    <3>. QED BY <2>3, <3>2, <3>3
  <2>5. SharedReadsFirst'
    BY <2>1, <2>4 DEF SharedReadsFirst, ReadFirsts, FirstLike
  <2>6. \A d \in ToSet(analogChannels') : ~IsDigital(d)'
    BY <1>1, <1>3, <2>4 DEF InputInv, IsDigital
  <2>7. /\ ptrValue' \in [Channel -> Channel]
        /\ \A d \in Channel : d \notin ToSet(analogChannels') => ptrValue'[d] = d
    BY <2>1, <2>4 DEF InputInv
  <2>. QED BY <1>1, <2>1, <2>4, <2>5, <2>6, <2>7 DEF InputInv, IsDigital
<1>. QED BY <1>2, <1>3

LEMMA RemoveKeeps ==
  ASSUME InputInv, NEW c \in Channel, RemoveChannel(c)
  PROVE  InputInv'
<1>. USE DEF Channel
<1>1. conf' = conf /\ Channel' = Channel
  BY DEF RemoveChannel
<1>2. /\ digitalChannels' = RemoveFirst(digitalChannels, c)
      /\ analogChannels' = RemoveFirst(analogChannels, c)
  BY DEF RemoveChannel
<1>3. /\ digitalChannels' \in Seq(Channel) /\ analogChannels' \in Seq(Channel)
      /\ c \notin ToSet(analogChannels) => analogChannels' = analogChannels
  BY <1>2, RemovedChannel DEF InputInv
<1>4. /\ ToSet(digitalChannels') = ToSet(digitalChannels) \ {c} /\ NoneTwice(digitalChannels')
      /\ ToSet(analogChannels') = ToSet(analogChannels) \ {c} /\ NoneTwice(analogChannels')
  BY <1>2, LeftChannels DEF InputInv
<1>5. /\ \A d \in ToSet(digitalChannels') : IsDigital(d)'
      /\ \A d \in ToSet(analogChannels') : ~IsDigital(d)'
  BY <1>1, <1>4 DEF InputInv, IsDigital
<1>6. CASE IsDigital(c)
  <2>1. c \notin ToSet(analogChannels)
    BY <1>6 DEF InputInv
  <2>2. UNCHANGED <<analogChannels, ptrValue>>
    BY <1>3, <1>6, <2>1 DEF RemoveChannel, InputInv
  <2>3. SharedReadsFirst'
    BY <2>2 DEF InputInv, SharedReadsFirst
  <2>. QED BY <1>1, <1>3, <1>4, <1>5, <2>2, <2>3 DEF InputInv
<1>7. CASE ~IsDigital(c)
  <2>1. ptrValue' = reshare(c, analogChannels')
    BY <1>7 DEF RemoveChannel
  <2>2. \A d \in Channel :
          ptrValue'[d] = IF d = c THEN c
                         ELSE IF d \in ToSet(analogChannels') /\ PinNumber[d] = PinNumber[c]
                              THEN analogChannels'[FirstOfNumber(analogChannels', PinNumber[c])]
                         ELSE ptrValue[d]
    BY <2>1 DEF reshare
  <2>3. \A d \in ToSet(analogChannels') : d \in Channel /\ d # c
    <3>. SUFFICES ASSUME NEW d \in ToSet(analogChannels') PROVE d \in Channel
      BY <1>4
    <3>. QED BY <1>3 DEF ToSet
  <2>4. \A d \in ToSet(analogChannels') :
          ptrValue'[d] = IF PinNumber[d] = PinNumber[c] THEN analogChannels'[FirstOfNumber(analogChannels', PinNumber[c])]
                         ELSE ptrValue[d]
    BY <2>2, <2>3
  <2>5. ReadFirsts(analogChannels', ptrValue')
    BY <1>2, <2>4, FirstsAreShared, FirstsAfterRemoval DEF InputInv
  <2>6. SharedReadsFirst'
    BY <2>5 DEF SharedReadsFirst, ReadFirsts, FirstLike
  <2>7. \A d \in Channel : d \notin ToSet(analogChannels') => ptrValue'[d] = d
    BY <1>4, <2>2 DEF InputInv
  <2>8. ptrValue' \in [Channel -> Channel]
    <3>1. \A d \in Channel : ptrValue'[d] \in Channel
      <4>. SUFFICES ASSUME NEW d \in Channel, d \in ToSet(analogChannels') PROVE ptrValue'[d] \in Channel
        BY <2>7
      <4>1. PICK i \in DOMAIN analogChannels' : d = analogChannels'[i]
        BY DEF ToSet
      <4>2. PICK j \in 1..i : ptrValue'[d] = analogChannels'[j]
        BY <2>5, <4>1 DEF ReadFirsts
      <4>. QED BY <1>3, <4>1, <4>2
    <3>. QED BY <2>1, <3>1 DEF reshare
  <2>. QED BY <1>1, <1>3, <1>4, <1>5, <2>6, <2>7, <2>8 DEF InputInv
<1>. QED BY <1>6, <1>7

LEMMA InputStep == InputInv /\ [InputNext]_inputVars => InputInv'
<1>. SUFFICES ASSUME InputInv, [InputNext]_inputVars PROVE InputInv'
  OBVIOUS
<1>1. ASSUME UNCHANGED <<conf, ptrValue, digitalChannels, analogChannels>> PROVE InputInv'
  BY <1>1, InputUnmoved DEF InputInv, Channel
<1>2. CASE Watch \/ Tick \/ (\E n \in DOMAIN pins : \E v \in PinValues[n] : PinChanges(n, v)) \/ UNCHANGED inputVars
  BY <1>1, <1>2 DEF Watch, Tick, PinChanges, inputVars
<1>3. ASSUME NEW c \in Channel, Add(c) \/ RemoveChannel(c) PROVE InputInv'
  BY <1>3, AddKeeps, RemoveKeeps
<1>4. ASSUME NEW s \in Settings, s[1] \in Channel, setTime(s[1], s[2], s[3]) \/ setParameter(s[1], s[2], s[3])
      PROVE  InputInv'
  BY <1>4, SettingsKeep
<1>. QED BY <1>2, <1>3, <1>4 DEF InputNext

(* Whatever channels are added, added again and removed, in any order: every  *)
(* analog channel takes its reading from the first channel of its number, one *)
(* that is polled no later than itself (input.cpp 340-398).                   *)
THEOREM ChannelsReadTheFirst == InputSpec => []SharedReadsFirst
<1>1. InputInv /\ [InputNext]_inputVars => InputInv'
  BY InputStep
<1>2. InputInv => SharedReadsFirst
  BY DEF InputInv
<1>. QED BY <1>1, <1>2, InputStarts, PTL DEF InputSpec

-----------------------------------------------------------------------------
(* Input: what is told.                                                       *)

(* One turn of n values.                                                      *)
LEMMA Turn ==
  ASSUME NEW n \in Nat \ {0}, NEW a \in 0..(2 * n - 1)
  PROVE  a % n = IF a < n THEN a ELSE a - n
OBVIOUS

LEMMA LessIs ==
  ASSUME NEW n \in Nat \ {0}, NEW a \in 0..(n - 1), NEW b \in 0..(n - 1)
  PROVE  Less(a, b, n) = IF a >= b THEN a - b ELSE a - b + n
<1>. DEFINE x == a + n - b
<1>1. x \in 0..(2 * n - 1)
  OBVIOUS
<1>2. Less(a, b, n) = x % n
  BY DEF Less
<1>3. x % n = IF x < n THEN x ELSE x - n
  <2>. HIDE DEF x
  <2>. QED BY <1>1, Turn
<1>. QED BY <1>2, <1>3

LEMMA NextTick ==
  ASSUME NEW n \in Nat \ {0}, NEW a \in 0..(n - 1), NEW b \in 0..(n - 1)
  PROVE  /\ (a + 1) % n \in 0..(n - 1)
         /\ Less(a, a, n) = 0
         /\ Less(a, b, n) \in 0..(n - 1)
         /\ Less(a, b, n) + 1 < n => Less((a + 1) % n, b, n) = Less(a, b, n) + 1
<1>1. (a + 1) % n = IF a + 1 < n THEN a + 1 ELSE 0
  <2>. DEFINE x == a + 1
  <2>1. x \in 0..(2 * n - 1)
    OBVIOUS
  <2>2. x % n = IF x < n THEN x ELSE x - n
    <3>. HIDE DEF x
    <3>. QED BY <2>1, Turn
  <2>. QED BY <2>2
<1>2. (a + 1) % n \in 0..(n - 1)
  BY <1>1
<1>3. Less((a + 1) % n, b, n) = IF ((a + 1) % n) >= b THEN ((a + 1) % n) - b ELSE ((a + 1) % n) - b + n
  BY <1>2, LessIs
<1>4. Less(a, b, n) = (IF a >= b THEN a - b ELSE a - b + n) /\ Less(a, a, n) = 0
  BY LessIs
<1>. QED BY <1>1, <1>2, <1>3, <1>4

Readings == 0..(Width - 1)
Fits(c, z, v) ==
  /\ z = "high" => v + conf[c].hysteresis >= conf[c].high
  /\ z = "low" => v <= conf[c].low + conf[c].hysteresis
  /\ z = "band" => v \in conf[c].low .. conf[c].high

LEMMA ZoneFits ==
  ASSUME NEW c, ~IsDigital(c), NEW z \in Zones, NEW v \in Readings,
         conf[c].low \in Readings, conf[c].high \in Readings, conf[c].hysteresis \in Readings,
         conf[c].low < conf[c].high, isValidConfig(c)
  PROVE  Fits(c, NextZone(c, z, v), v)
<1>. DEFINE low == conf[c].low
            high == conf[c].high
            hyst == conf[c].hysteresis
<1>1. /\ NextZone(c, z, v) = CASE v > high /\ z # "high" -> "high"
                              [] v < low /\ (z = "high" \/ (z = "band" /\ v <= high)) -> "low"
                              [] z = "low" /\ v <= high /\ v > (low + hyst) % Width -> "band"
                              [] z = "high" /\ v >= low /\ v < Less(high, hyst, Width) -> "band"
                              [] OTHER -> z
      /\ Less(high, low, Width) > hyst
  BY DEF NextZone, isValidConfig
<1>2. /\ low \in Readings /\ high \in Readings /\ hyst \in Readings /\ low < high
      /\ Width \in Nat \ {0}
  BY InputAssumption
<1>. HIDE DEF low, high, hyst
<1>3. Less(high, low, Width) = high - low /\ high - low > hyst
  BY <1>1, <1>2, LessIs DEF Readings
<1>4. Less(high, hyst, Width) = high - hyst
  BY <1>2, <1>3, LessIs DEF Readings
<1>5. (low + hyst) % Width = low + hyst
  <2>1. low + hyst \in 0..(2 * Width - 1) /\ low + hyst < Width
    BY <1>2, <1>3 DEF Readings
  <2>. QED BY <1>2, <2>1, Turn
<1>6. low \in Int /\ high \in Int /\ hyst \in Int /\ v \in Int
  BY <1>2 DEF Readings
<1>. DEFINE next == NextZone(c, z, v)
<1>7. /\ next = CASE v > high /\ z # "high" -> "high"
                   [] v < low /\ (z = "high" \/ (z = "band" /\ v <= high)) -> "low"
                   [] z = "low" /\ v <= high /\ v > low + hyst -> "band"
                   [] z = "high" /\ v >= low /\ v < high - hyst -> "band"
                   [] OTHER -> z
  BY <1>1, <1>4, <1>5
<1>8. hyst >= 0
  BY <1>2 DEF Readings
<1>. SUFFICES /\ next = "high" => v + hyst >= high
              /\ next = "low" => v <= low + hyst
              /\ next = "band" => v \in low .. high
  BY DEF Fits, next, low, high, hyst
<1>. HIDE DEF next
<1>9. CASE z = "low"
  BY <1>2, <1>6, <1>7, <1>8, <1>9
<1>10. CASE z = "high"
  BY <1>2, <1>6, <1>7, <1>8, <1>10
<1>11. CASE z = "band"
  BY <1>2, <1>6, <1>7, <1>8, <1>11
<1>. QED BY <1>9, <1>10, <1>11 DEF Zones, next

Records == [value : Int, zone : Zones, steady : BOOLEAN, tChange : 0..(Clocks - 1),
            count : Int, lastStep : Int, lastSampled : Int]
Reads(c, d) == ~IsDigital(c) => d.value \in Readings
Sane(c) ==
  ~IsDigital(c) => /\ {"low", "high", "hysteresis", "delta", "step"} \subseteq DOMAIN conf[c]
                   /\ conf[c].low \in Readings /\ conf[c].high \in Readings
                   /\ conf[c].hysteresis \in Readings /\ conf[c].step \in Readings \ {0}
                   /\ conf[c].delta \in Readings

Steadies == {"STEADY_IN_HIGH", "STEADY_IN_LOW", "STEADY_IN_BAND"}
Pulsations == {"PULSATION_DOUBLE", "PULSATION_TRIPLE", "PULSATION_MULTI"}
Reports == {"RISING_EDGE", "FALLING_EDGE", "HIGH_THRESHOLD", "LOW_THRESHOLD", "IN_BAND", "ON_CHANGE"}
             \cup Pulsations \cup Steadies
ZoneEvents(c) == IF IsDigital(c) THEN {"RISING_EDGE", "FALLING_EDGE"} ELSE {"HIGH_THRESHOLD", "LOW_THRESHOLD", "IN_BAND"}
Moves == {"STEP_UP", "STEP_DOWN", "DELTA"}

(* What the state function tells of a channel that was in zone y and is in    *)
(* zone z; ripened says whether its steady state was due.                     *)
ZoneTold(c, y, z, ripened, T) ==
  /\ T \subseteq {"ON_CHANGE"} \cup ZoneEvents(c) \cup Pulsations \cup Steadies
  /\ "ON_CHANGE" \in T <=> z # y
  /\ \A x \in Zones : EventOf(c, x) \in T <=> (z # y /\ z = x)
  /\ \A x \in Zones : SteadyEvent(x) \in T <=> (z = y /\ z = x /\ ripened)

(* What a reading tells of a channel whose record was d and is e.             *)
Apart(a, b) == IF a > b THEN a - b ELSE b - a
MovesTold(c, d, e, T) ==
  /\ IsDigital(c) => \A x \in Moves : x \notin T
  /\ ~IsDigital(c) =>
       /\ e.lastStep = e.value \div conf[c].step
       /\ "STEP_UP" \in T <=> e.lastStep > d.lastStep
       /\ "STEP_DOWN" \in T <=> e.lastStep < d.lastStep
       /\ e.lastSampled # d.lastSampled => e.lastSampled = e.value
       /\ conf[c].delta > 0 => ("DELTA" \in T <=> Apart(e.lastSampled, d.lastSampled) >= conf[c].delta)

(* Zone z is the one the value asks for, and was entered for it.              *)
Entered(c, y, z, v) ==
  /\ IsDigital(c) => (z = "high") = (v # 0) /\ z \in {"low", "high"}
  /\ ~IsDigital(c) /\ z # y /\ z = "high" => v > conf[c].high
  /\ ~IsDigital(c) /\ z # y /\ z = "low" => v < conf[c].low

Judged(c, d, e, T) ==
  /\ (e.zone # d.zone) => (~e.steady /\ e.tChange = watchTick)
  /\ (e.zone = d.zone /\ ~e.steady) => (~d.steady /\ e.tChange = d.tChange)
  /\ "EXCEPTION" \notin T =>
       /\ ZoneTold(c, d.zone, e.zone, ripe(d, c), T \ Moves)
       /\ MovesTold(c, d, e, T)
       /\ Entered(c, d.zone, e.zone, e.value)
       /\ (~IsDigital(c) /\ conf[c].low < conf[c].high) => Fits(c, e.zone, e.value)

(* Only c's record changes.                                                   *)
Touches(s, r, c) == \A d \in Channel : d # c => r[d] = s[d]

LEMMA SetOfSeq ==
  ASSUME NEW S, NEW s \in Seq(S)
  PROVE  ToSet(s) \subseteq S
BY DEF ToSet

LEMMA SetOfBoth ==
  ASSUME NEW S, NEW s \in Seq(S), NEW T, NEW t \in Seq(T)
  PROVE  s \o t \in Seq(S \cup T) /\ ToSet(s \o t) = ToSet(s) \cup ToSet(t)
<1>1. s \in Seq(S \cup T) /\ t \in Seq(S \cup T)
  OBVIOUS
<1>2. s \o t \in Seq(S \cup T)
  BY <1>1
<1>3. ASSUME NEW i \in DOMAIN (s \o t) PROVE (s \o t)[i] \in ToSet(s) \cup ToSet(t)
  <2>1. Len(s) \in Nat /\ Len(t) \in Nat /\ DOMAIN s = 1..Len(s) /\ DOMAIN t = 1..Len(t)
    OBVIOUS
  <2>2. i \in 1..(Len(s) + Len(t)) /\ (s \o t)[i] = IF i <= Len(s) THEN s[i] ELSE t[i - Len(s)]
    BY <1>1
  <2>3. CASE i <= Len(s)
    <3>1. i \in DOMAIN s
      BY <2>1, <2>2, <2>3
    <3>. QED BY <2>2, <2>3, <3>1 DEF ToSet
  <2>4. CASE ~(i <= Len(s))
    <3>1. i - Len(s) \in DOMAIN t
      BY <2>1, <2>2, <2>4
    <3>. QED BY <2>2, <2>4, <3>1 DEF ToSet
  <2>. QED BY <2>3, <2>4
<1>4. ASSUME NEW x \in ToSet(s \o t) PROVE x \in ToSet(s) \cup ToSet(t)
  <2>1. PICK i \in DOMAIN (s \o t) : x = (s \o t)[i]
    BY DEF ToSet
  <2>. QED BY <1>3, <2>1
<1>5. ASSUME NEW x \in ToSet(s) PROVE x \in ToSet(s \o t)
  <2>1. PICK i \in 1..Len(s) : x = s[i]
    BY <1>5 DEF ToSet
  <2>2. i \in DOMAIN (s \o t) /\ (s \o t)[i] = s[i]
    BY <1>1
  <2>. QED BY <2>1, <2>2 DEF ToSet
<1>6. ASSUME NEW x \in ToSet(t) PROVE x \in ToSet(s \o t)
  <2>1. PICK i \in 1..Len(t) : x = t[i]
    BY <1>6 DEF ToSet
  <2>2. Len(s) + i \in DOMAIN (s \o t) /\ (s \o t)[Len(s) + i] = t[i]
    BY <1>1
  <2>. QED BY <2>1, <2>2 DEF ToSet
<1>. QED BY <1>2, <1>4, <1>5, <1>6

LEMMA NextZoneIsZone ==
  ASSUME NEW c, NEW z \in Zones, NEW v
  PROVE  NextZone(c, z, v) \in Zones /\ Entered(c, z, NextZone(c, z, v), v)
<1>1. CASE IsDigital(c)
  BY <1>1 DEF NextZone, Zones, Entered
<1>2. CASE ~IsDigital(c)
  BY <1>2 DEF NextZone, Zones, Entered
<1>. QED BY <1>1, <1>2

(* The names of events are all different.                                     *)
LEMMA EventNames ==
  ASSUME NEW c, NEW x \in Zones, NEW y \in Zones
  PROVE  /\ EventOf(c, x) \notin {"ON_CHANGE"} \cup Pulsations \cup Steadies
         /\ EventOf(c, x) = EventOf(c, y) => x = y
         /\ (IsDigital(c) => x # "band") => EventOf(c, x) \in ZoneEvents(c)
         /\ SteadyEvent(x) \in Steadies /\ (SteadyEvent(x) = SteadyEvent(y) => x = y)
         /\ SteadyEvent(x) \notin {"ON_CHANGE"} \cup Pulsations
<1>1. CASE IsDigital(c)
  BY <1>1 DEF EventOf, SteadyEvent, Zones, Pulsations, Steadies, ZoneEvents
<1>2. CASE ~IsDigital(c)
  BY <1>2 DEF EventOf, SteadyEvent, Zones, Pulsations, Steadies, ZoneEvents
<1>. QED BY <1>1, <1>2

LEMMA ToldOfChange ==
  ASSUME NEW c, NEW d, NEW y \in Zones, NEW z \in Zones, z # y, IsDigital(c) => z # "band", NEW n, NEW r
  PROVE  LET t == <<EventOf(c, z), "ON_CHANGE">> \o (IF IsDigital(c) THEN Pulsation(d, z, n) ELSE <<>>)
         IN t \in Seq(Reports) /\ ZoneTold(c, y, z, r, ToSet(t))
<1>. DEFINE p == IF IsDigital(c) THEN Pulsation(d, z, n) ELSE <<>>
            q == <<EventOf(c, z), "ON_CHANGE">>
<1>1. EventOf(c, z) \in Reports /\ "ON_CHANGE" \in Reports
  BY DEF EventOf, Zones, Reports
<1>2. q \in Seq(Reports) /\ ToSet(q) = {EventOf(c, z), "ON_CHANGE"}
  BY <1>1 DEF ToSet
<1>3. p \in Seq(Reports) /\ p \in Seq(Pulsations)
  <2>. DEFINE e == IF n = 2 THEN "PULSATION_DOUBLE" ELSE IF n = 3 THEN "PULSATION_TRIPLE" ELSE "PULSATION_MULTI"
  <2>1. e \in Pulsations /\ e \in Reports
    BY DEF Pulsations, Reports
  <2>2. p = <<>> \/ p = <<e>>
    BY DEF Pulsation
  <2>. HIDE DEF e, p
  <2>3. /\ <<>> \in Seq(Pulsations) /\ <<e>> \in Seq(Pulsations)
        /\ <<>> \in Seq(Reports) /\ <<e>> \in Seq(Reports)
    BY <2>1
  <2>. QED BY <2>2, <2>3
<1>. HIDE DEF p, q
<1>4. q \o p \in Seq(Reports) /\ ToSet(q \o p) = {EventOf(c, z), "ON_CHANGE"} \cup ToSet(p)
  BY <1>2, <1>3, SetOfBoth, Reports \cup Reports = Reports
<1>5. ToSet(p) \subseteq Pulsations
  BY <1>3, SetOfSeq
<1>. DEFINE T == ToSet(q \o p)
<1>6. ZoneTold(c, y, z, r, T)
  <2>. HIDE DEF T
  <2>0. T = {EventOf(c, z), "ON_CHANGE"} \cup ToSet(p)
    BY <1>4 DEF T
  <2>1. T \subseteq {"ON_CHANGE"} \cup ZoneEvents(c) \cup Pulsations \cup Steadies
    BY <1>5, <2>0, EventNames
  <2>2. \A x \in Zones : EventOf(c, x) \in T <=> (z # y /\ z = x)
    BY <1>5, <2>0, EventNames
  <2>3. \A x \in Zones : SteadyEvent(x) \notin T
    <3>1. \A x \in Zones : SteadyEvent(x) \in Steadies /\ SteadyEvent(x) \notin {"ON_CHANGE"} \cup Pulsations
      BY EventNames
    <3>2. EventOf(c, z) \notin Steadies
      BY EventNames
    <3>. QED BY <1>5, <2>0, <3>1, <3>2
  <2>. QED BY <2>0, <2>1, <2>2, <2>3 DEF ZoneTold
<1>. QED BY <1>4, <1>6 DEF p, q

LEMMA ToldOfStay ==
  ASSUME NEW c, NEW z \in Zones
  PROVE  ZoneTold(c, z, z, FALSE, {}) /\ ZoneTold(c, z, z, TRUE, {SteadyEvent(z)})
<1>1. SteadyEvent(z) \in Steadies /\ SteadyEvent(z) # "ON_CHANGE"
  BY EventNames
<1>2. ASSUME NEW x \in Zones PROVE EventOf(c, x) # SteadyEvent(z) /\ (SteadyEvent(x) = SteadyEvent(z) <=> z = x)
  BY <1>1, EventNames
<1>3. ZoneTold(c, z, z, FALSE, {})
  BY DEF ZoneTold
<1>4. ZoneTold(c, z, z, TRUE, {SteadyEvent(z)})
  <2>. DEFINE s == SteadyEvent(z)
              T == {s}
  <2>0. \A x : x \in T <=> x = s
    OBVIOUS
  <2>. HIDE DEF s, T
  <2>1. T \subseteq {"ON_CHANGE"} \cup ZoneEvents(c) \cup Pulsations \cup Steadies
    BY <1>1, <2>0 DEF s
  <2>2. "ON_CHANGE" \notin T
    BY <1>1, <2>0 DEF s
  <2>3. \A x \in Zones : EventOf(c, x) \notin T
    BY <1>2, <2>0 DEF s
  <2>4. \A x \in Zones : SteadyEvent(x) \in T <=> z = x
    BY <1>2, <2>0 DEF s
  <2>5. ZoneTold(c, z, z, TRUE, T)
    BY <2>1, <2>2, <2>3, <2>4 DEF ZoneTold
  <2>. QED BY <2>5 DEF s, T
<1>. QED BY <1>3, <1>4

(* The state function moves to the next zone, or to its steady state, or does *)
(* nothing.                                                                   *)
LEMMA Evaluated ==
  ASSUME NEW s \in [Channel -> Records], NEW c \in Channel, watchTick \in 0..(Clocks - 1), Reads(c, s[c])
  PROVE  LET r == evaluateState(s, c)
             e == r.ch[c]
         IN /\ r.ch \in [Channel -> Records] /\ Touches(s, r.ch, c)
            /\ e.zone = NextZone(c, s[c].zone, s[c].value) /\ e.value = s[c].value
            /\ e.lastStep = s[c].lastStep /\ e.lastSampled = s[c].lastSampled
            /\ (e.zone # s[c].zone) => (~e.steady /\ e.tChange = watchTick)
            /\ (e.zone = s[c].zone /\ ~e.steady) => (~s[c].steady /\ e.tChange = s[c].tChange)
            /\ r.told \in Seq(Reports) /\ ZoneTold(c, s[c].zone, e.zone, ripe(s[c], c), ToSet(r.told))
<1>. DEFINE d == s[c]
            z == NextZone(c, d.zone, d.value)
            n == IF IsDigital(c) THEN Counted(d, z, Less(watchTick, d.tChange, Clocks) <= conf[c].pulsationInterval)
                                 ELSE 0
            r == evaluateState(s, c)
<1>1. d \in Records /\ z \in Zones /\ d.zone \in Zones /\ (IsDigital(c) => z # "band")
  BY NextZoneIsZone DEF Records, Entered
<1>2. n \in Int
  <2>1. (d.count + 1) % CountLimit \in Int
    BY <1>1, InputAssumption DEF Records
  <2>. QED BY <1>1, <2>1 DEF Counted, Records
<1>3. r = CASE z # d.zone ->
            [ch |-> [s EXCEPT ![c].zone = z, ![c].steady = FALSE, ![c].tChange = watchTick, ![c].count = n],
             told |-> <<EventOf(c, z), "ON_CHANGE">> \o (IF IsDigital(c) THEN Pulsation(d, z, n) ELSE <<>>)]
       [] z = d.zone /\ ripe(d, c) ->
            [ch |-> [s EXCEPT ![c].steady = TRUE, ![c].tChange = watchTick], told |-> <<SteadyEvent(z)>>]
       [] OTHER -> [ch |-> s, told |-> <<>>]
  BY DEF evaluateState
<1>. HIDE DEF n, z, r
<1>4. CASE z # d.zone
  <2>. DEFINE g == [s EXCEPT ![c].zone = z, ![c].steady = FALSE, ![c].tChange = watchTick, ![c].count = n]
              t == <<EventOf(c, z), "ON_CHANGE">> \o (IF IsDigital(c) THEN Pulsation(d, z, n) ELSE <<>>)
  <2>1. r.ch = g /\ r.told = t
    BY <1>3, <1>4
  <2>2. t \in Seq(Reports) /\ ZoneTold(c, d.zone, z, ripe(d, c), ToSet(t))
    BY <1>1, <1>4, ToldOfChange
  <2>. HIDE DEF t
  <2>3. /\ g \in [Channel -> Records] /\ Touches(s, g, c)
        /\ g[c].zone = z /\ g[c].value = s[c].value /\ g[c].steady = FALSE /\ g[c].tChange = watchTick
        /\ g[c].lastStep = s[c].lastStep /\ g[c].lastSampled = s[c].lastSampled
    BY <1>1, <1>2 DEF Records, Touches
  <2>. HIDE DEF g
  <2>. QED BY <1>4, <2>1, <2>2, <2>3 DEF z, r
<1>5. CASE z = d.zone /\ ripe(d, c)
  <2>. DEFINE g == [s EXCEPT ![c].steady = TRUE, ![c].tChange = watchTick]
              t == <<SteadyEvent(z)>>
  <2>1. r.ch = g /\ r.told = t
    BY <1>3, <1>5
  <2>2. t \in Seq(Reports) /\ ToSet(t) = {SteadyEvent(z)}
    <3>1. SteadyEvent(z) \in Reports
      BY <1>1 DEF SteadyEvent, Zones, Reports, Steadies
    <3>. QED BY <3>1 DEF ToSet
  <2>3. ZoneTold(c, d.zone, z, ripe(d, c), ToSet(t))
    <3>1. ripe(d, c) = TRUE
      BY <1>5 DEF ripe
    <3>. QED BY <1>1, <1>5, <2>2, <3>1, ToldOfStay
  <2>. HIDE DEF t
  <2>4. /\ g \in [Channel -> Records] /\ Touches(s, g, c)
        /\ g[c].zone = z /\ g[c].value = s[c].value /\ g[c].steady = TRUE
        /\ g[c].lastStep = s[c].lastStep /\ g[c].lastSampled = s[c].lastSampled
    BY <1>1, <1>5 DEF Records, Touches
  <2>. HIDE DEF g
  <2>. QED BY <1>5, <2>1, <2>2, <2>3, <2>4 DEF z, r
<1>6. CASE z = d.zone /\ ~ripe(d, c)
  <2>1. r.ch = s /\ r.told = <<>>
    BY <1>3, <1>6
  <2>2. <<>> \in Seq(Reports) /\ ToSet(<<>>) = {}
    BY DEF ToSet
  <2>3. ZoneTold(c, d.zone, z, ripe(d, c), ToSet(<<>>))
    <3>1. ripe(d, c) = FALSE
      BY <1>6 DEF ripe
    <3>. QED BY <1>1, <1>6, <2>2, <3>1, ToldOfStay
  <2>. QED BY <1>6, <2>1, <2>2, <2>3 DEF z, r, Touches
<1>. QED BY <1>4, <1>5, <1>6

(* A reading changes neither zone nor steadiness, and tells of the moves.     *)
Read(c, act, s) ==
  IF IsDigital(c) THEN [ch |-> DigitalReading(s, c), told |-> <<>>]
                  ELSE updateReading(AnalogReading(s, c), c, act)

LEMMA ReadingsAre ==
  ASSUME NEW s \in [Channel -> Records], NEW c \in Channel, NEW act,
         ~IsDigital(c) => s[ptrValue[c]].value \in Readings, Sane(c),
         pins[PinNumber[c]] \in Readings
  PROVE  LET r == Read(c, act, s)
             e == r.ch[c]
         IN /\ r.ch \in [Channel -> Records] /\ Touches(s, r.ch, c) /\ Reads(c, e)
            /\ e.zone = s[c].zone /\ e.steady = s[c].steady /\ e.tChange = s[c].tChange
            /\ r.told \in Seq(Moves) /\ MovesTold(c, s[c], e, ToSet(r.told))
<1>. DEFINE r == Read(c, act, s)
<1>0. Width \in Nat /\ Width > 1 /\ Readings \subseteq Nat
  BY InputAssumption DEF Readings
<1>1. CASE IsDigital(c)
  <2>1. r.ch = [s EXCEPT ![c].value = Sample(c)] /\ r.told = <<>>
    BY <1>1 DEF Read, DigitalReading
  <2>2. Sample(c) \in Int
    <3>1. pins[PinNumber[c]] \in Int
      <4>1. pins[PinNumber[c]] \in Readings
        OBVIOUS
      <4>. QED BY ONLY <1>0, <4>1 DEF Readings
    <3>2. Sample(c) = pins[PinNumber[c]] \/ Sample(c) = 1 - pins[PinNumber[c]]
      BY DEF Sample
    <3>. QED BY ONLY <3>1, <3>2
  <2>3. <<>> \in Seq(Moves) /\ ToSet(<<>>) = {}
    BY DEF ToSet
  <2>. HIDE DEF r
  <2>4. /\ r.ch \in [Channel -> Records] /\ Touches(s, r.ch, c)
        /\ r.ch[c].zone = s[c].zone /\ r.ch[c].steady = s[c].steady /\ r.ch[c].tChange = s[c].tChange
    BY <2>1, <2>2 DEF Records, Touches
  <2>5. MovesTold(c, s[c], r.ch[c], ToSet(r.told))
    BY <1>1, <2>1, <2>3 DEF MovesTold
  <2>. QED BY <1>1, <2>1, <2>3, <2>4, <2>5 DEF Reads, r
<1>2. CASE ~IsDigital(c)
  <2>. DEFINE v == IF isShared(c) THEN s[ptrValue[c]].value ELSE pins[PinNumber[c]]
              g == [s EXCEPT ![c].value = v]
  <2>1. v \in Readings
    BY <1>2
  <2>a. AnalogReading(s, c) = g
    BY DEF AnalogReading
  <2>. HIDE DEF v
  <2>2. g \in [Channel -> Records] /\ Touches(s, g, c) /\ g[c].value = v
        /\ g[c].zone = s[c].zone /\ g[c].steady = s[c].steady /\ g[c].tChange = s[c].tChange
        /\ g[c].lastStep = s[c].lastStep /\ g[c].lastSampled = s[c].lastSampled
    BY <1>0, <2>1 DEF Records, Touches
  <2>. HIDE DEF g
  <2>. DEFINE now == v \div conf[c].step
              last == g[c].lastStep
              Distance(a, b) == IF a > b THEN a - b ELSE b - a
              crossed == Distance(now, last)
              dir == IF now > last THEN "STEP_UP" ELSE "STEP_DOWN"
              steps == [i \in 1..crossed |-> dir]
              far == act /\ Distance(v, g[c].lastSampled) >= conf[c].delta
              delta == IF far THEN <<"DELTA">> ELSE <<>>
              h == [g EXCEPT ![c].lastStep = now, ![c].lastSampled = IF act THEN v ELSE @]
  <2>3. r.ch = h /\ r.told = steps \o delta
    BY <1>2, <2>2, <2>a DEF Read, updateReading
  <2>4. now \in Int
    <3>1. conf[c].step \in Nat /\ conf[c].step > 0 /\ v \in Int
      BY <1>0, <1>2, <2>1 DEF Sane, Readings
    <3>. QED BY <3>1
  <2>5. g[c] \in Records /\ v \in Int /\ last \in Int /\ g[c].lastSampled \in Int
    BY <1>0, <2>1, <2>2 DEF Records
  <2>6. crossed \in Nat /\ (crossed = 0 <=> now = last)
    BY <2>4, <2>5
  <2>7. /\ steps \in Seq(Moves)
        /\ "DELTA" \notin ToSet(steps)
        /\ "STEP_UP" \in ToSet(steps) <=> now > last
        /\ "STEP_DOWN" \in ToSet(steps) <=> now < last
    <3>1. dir \in Moves /\ dir # "DELTA"
      BY DEF Moves
    <3>. HIDE DEF crossed, dir
    <3>2. steps \in Seq(Moves)
      BY <2>6, <3>1
    <3>3. ToSet(steps) = IF now = last THEN {} ELSE {dir}
      <4>0. Len(steps) = crossed /\ DOMAIN steps = 1..crossed
        BY <2>6
      <4>1. CASE now = last
        BY <2>6, <4>0, <4>1 DEF ToSet
      <4>2. CASE now # last
        <5>1. 1 \in 1..crossed
          BY <2>6, <4>2
        <5>. QED BY <4>0, <4>2, <5>1 DEF ToSet
      <4>. QED BY <4>1, <4>2
    <3>4. dir = IF now > last THEN "STEP_UP" ELSE "STEP_DOWN"
      BY DEF dir
    <3>. HIDE DEF steps, now, last
    <3>. QED BY <2>4, <2>5, <3>1, <3>2, <3>3, <3>4
  <2>8. delta \in Seq(Moves) /\ ToSet(delta) = IF far THEN {"DELTA"} ELSE {}
    <3>1. delta = IF far THEN <<"DELTA">> ELSE <<>>
      OBVIOUS
    <3>2. /\ <<>> \in Seq(Moves) /\ <<"DELTA">> \in Seq(Moves)
          /\ ToSet(<<>>) = {} /\ ToSet(<<"DELTA">>) = {"DELTA"}
      BY DEF ToSet, Moves
    <3>. HIDE DEF delta, far
    <3>. QED BY <3>1, <3>2
  <2>. HIDE DEF now, steps, delta, crossed, last
  <2>9. /\ h \in [Channel -> Records] /\ Touches(g, h, c) /\ h[c].value = v
        /\ h[c].zone = g[c].zone /\ h[c].steady = g[c].steady /\ h[c].tChange = g[c].tChange
        /\ h[c].lastStep = now /\ h[c].lastSampled = IF act THEN v ELSE g[c].lastSampled
    BY <2>2, <2>4, <2>5 DEF Records, Touches
  <2>. HIDE DEF h, r
  <2>10. /\ steps \o delta \in Seq(Moves)
         /\ ToSet(steps \o delta) = ToSet(steps) \cup (IF far THEN {"DELTA"} ELSE {})
    BY <2>7, <2>8, SetOfBoth, Moves \cup Moves = Moves
  <2>11. MovesTold(c, s[c], h[c], ToSet(steps \o delta))
    <3>. DEFINE T == ToSet(steps \o delta)
    <3>1. /\ "STEP_UP" \in T <=> now > last
          /\ "STEP_DOWN" \in T <=> now < last
          /\ "DELTA" \in T <=> far
      BY <2>7, <2>10
    <3>2. h[c].lastStep = h[c].value \div conf[c].step
      BY <2>9 DEF now
    <3>3. last = s[c].lastStep /\ g[c].lastSampled = s[c].lastSampled
      BY <2>2 DEF last
    <3>4. ASSUME conf[c].delta > 0
          PROVE  far <=> Apart(h[c].lastSampled, s[c].lastSampled) >= conf[c].delta
      <4>1. conf[c].delta \in Int
        BY <1>0, <1>2 DEF Sane, Readings
      <4>2. CASE act
        BY <2>9, <3>3, <4>2 DEF Apart
      <4>3. CASE ~act
        <5>1. Apart(h[c].lastSampled, s[c].lastSampled) = 0
          BY <2>5, <2>9, <3>3, <4>3 DEF Apart
        <5>. QED BY <3>4, <4>1, <4>3, <5>1
      <4>. QED BY <4>2, <4>3
    <3>5. h[c].lastSampled # s[c].lastSampled => h[c].lastSampled = h[c].value
      BY <2>9, <3>3
    <3>. HIDE DEF T, far
    <3>. QED BY <1>2, <2>9, <3>1, <3>2, <3>3, <3>4, <3>5 DEF MovesTold, T
  <2>. HIDE DEF far
  <2>. QED BY <2>1, <2>2, <2>3, <2>9, <2>10, <2>11 DEF Reads, Touches, r
<1>. QED BY <1>1, <1>2

(* What one channel is told is true of it.                                    *)
LEMMA ChannelJudged ==
  ASSUME NEW w, NEW c \in Channel, NEW act, w.ch \in [Channel -> Records], DOMAIN w.told = Channel,
         ~IsDigital(c) => w.ch[ptrValue[c]].value \in Readings, Sane(c),
         Reads(c, w.ch[c]), pins[PinNumber[c]] \in Readings, watchTick \in 0..(Clocks - 1)
  PROVE  LET r == watchChannel(w, c, act)
         IN /\ r.ch \in [Channel -> Records] /\ DOMAIN r.told = Channel
            /\ Touches(w.ch, r.ch, c) /\ Touches(w.told, r.told, c)
            /\ Reads(c, r.ch[c]) /\ Judged(c, w.ch[c], r.ch[c], ToSet(r.told[c]))
<1>. DEFINE r == watchChannel(w, c, act)
            d == w.ch[c]
            read == Read(c, act, w.ch)
            done == evaluateState(read.ch, c)
            e == done.ch[c]
            t == read.told \o done.told
<1>1. r = IF CanRead(c) THEN [ch |-> done.ch, told |-> [w.told EXCEPT ![c] = t]]
                        ELSE [w EXCEPT !.told[c] = <<"EXCEPTION">>]
  BY DEF watchChannel, Read
<1>. HIDE DEF r
<1>2. CASE CanRead(c)
  <2>1. r.ch = done.ch /\ r.told = [w.told EXCEPT ![c] = t]
    BY <1>1, <1>2
  <2>2. /\ read.ch \in [Channel -> Records] /\ Touches(w.ch, read.ch, c) /\ Reads(c, read.ch[c])
        /\ read.ch[c].zone = d.zone /\ read.ch[c].steady = d.steady /\ read.ch[c].tChange = d.tChange
        /\ read.told \in Seq(Moves) /\ MovesTold(c, d, read.ch[c], ToSet(read.told))
    BY ReadingsAre
  <2>. HIDE DEF read
  <2>. DEFINE z == NextZone(c, d.zone, read.ch[c].value)
  <2>3. /\ done.ch \in [Channel -> Records] /\ Touches(read.ch, done.ch, c)
        /\ e.zone = z /\ e.value = read.ch[c].value
        /\ e.lastStep = read.ch[c].lastStep /\ e.lastSampled = read.ch[c].lastSampled
        /\ (e.zone # d.zone) => (~e.steady /\ e.tChange = watchTick)
        /\ (e.zone = d.zone /\ ~e.steady) => (~d.steady /\ e.tChange = d.tChange)
        /\ done.told \in Seq(Reports) /\ ZoneTold(c, d.zone, e.zone, ripe(read.ch[c], c), ToSet(done.told))
    BY <2>2, Evaluated
  <2>. HIDE DEF done
  <2>4. d.zone \in Zones
    BY DEF Records
  <2>5. ToSet(t) = ToSet(read.told) \cup ToSet(done.told) /\ ToSet(read.told) \subseteq Moves
    <3>1. ToSet(t) = ToSet(read.told) \cup ToSet(done.told)
      <4>. DEFINE p == read.told
                  q == done.told
      <4>1. p \in Seq(Moves) /\ q \in Seq(Reports)
        BY <2>2, <2>3
      <4>. HIDE DEF p, q
      <4>2. ToSet(p \o q) = ToSet(p) \cup ToSet(q)
        BY ZenonT(60), <4>1, SetOfBoth
      <4>. QED BY <4>2 DEF p, q
    <3>2. ToSet(read.told) \subseteq Moves
      BY <2>2, SetOfSeq
    <3>. QED BY <3>1, <3>2
  <2>6. ToSet(done.told) \cap Moves = {}
    BY <2>3 DEF ZoneTold, ZoneEvents, Pulsations, Steadies, Moves
  <2>7. ZoneTold(c, d.zone, e.zone, ripe(d, c), ToSet(t) \ Moves)
    <3>1. ToSet(t) \ Moves = ToSet(done.told)
      BY <2>5, <2>6
    <3>2. ripe(read.ch[c], c) = ripe(d, c)
      BY <2>2 DEF ripe
    <3>. QED BY <2>3, <3>1, <3>2
  <2>8. MovesTold(c, d, e, ToSet(t))
    <3>1. \A x \in Moves : x \in ToSet(t) <=> x \in ToSet(read.told)
      BY <2>5, <2>6
    <3>2. "STEP_UP" \in Moves /\ "STEP_DOWN" \in Moves /\ "DELTA" \in Moves
      BY DEF Moves
    <3>. HIDE DEF e, t
    <3>. QED BY <2>2, <2>3, <3>1, <3>2 DEF MovesTold
  <2>9. ASSUME ~IsDigital(c), conf[c].low < conf[c].high PROVE Fits(c, e.zone, e.value)
    <3>1. read.ch[c].value \in Readings /\ isValidConfig(c)
      BY <1>2, <2>2, <2>9 DEF Reads, CanRead
    <3>. QED BY <2>3, <2>4, <2>9, <3>1, ZoneFits DEF Sane
  <2>10. Entered(c, d.zone, e.zone, e.value)
    BY <2>3, <2>4, NextZoneIsZone
  <2>11. Judged(c, d, e, ToSet(t))
    <3>. HIDE DEF e, t
    <3>. QED BY <2>3, <2>7, <2>8, <2>9, <2>10 DEF Judged
  <2>12. Reads(c, e) /\ Touches(w.ch, done.ch, c)
    BY <2>2, <2>3 DEF Reads, Touches
  <2>13. DOMAIN r.told = Channel /\ Touches(w.told, r.told, c) /\ r.told[c] = t
    BY <2>1 DEF Touches
  <2>. HIDE DEF e, t
  <2>. QED BY <2>1, <2>3, <2>11, <2>12, <2>13 DEF e, r
<1>3. CASE ~CanRead(c)
  <2>1. r.ch = w.ch /\ r.told = [w.told EXCEPT ![c] = <<"EXCEPTION">>]
    BY <1>1, <1>3
  <2>2. DOMAIN r.told = Channel /\ Touches(w.told, r.told, c) /\ r.told[c] = <<"EXCEPTION">>
    BY <2>1 DEF Touches
  <2>3. ToSet(<<"EXCEPTION">>) = {"EXCEPTION"}
    BY DEF ToSet
  <2>4. Judged(c, d, d, ToSet(<<"EXCEPTION">>))
    BY <2>3 DEF Judged
  <2>. QED BY <2>1, <2>2, <2>4 DEF Touches, r
<1>. QED BY <1>2, <1>3 DEF r

(* f[i] is what a watch has done after i of the polled channels.              *)
Unheard == [ch |-> chan, told |-> [c \in Channel |-> <<>>]]
Polls(polled, act, n, f) ==
  f = [i \in 0..n |-> IF i = 0 THEN Unheard ELSE watchChannel(f[i - 1], polled[i], act)]

LEMMA PollsExist ==
  ASSUME NEW polled, NEW act, NEW n \in Nat
  PROVE  \E f : Polls(polled, act, n, f)
<1>. DEFINE Missing == {k \in Nat : ~ \E f : Polls(polled, act, k, f)}
<1>1. SUFFICES ASSUME Missing # {} PROVE FALSE
  OBVIOUS
<1>2. PICK k \in Missing : \A j \in Missing : k <= j
  BY <1>1, LeastNumber, Missing \in SUBSET Nat
<1>3. CASE k = 0
  <2>1. Polls(polled, act, 0, [i \in 0..0 |-> Unheard])
    BY DEF Polls
  <2>. QED BY <1>2, <1>3, <2>1
<1>4. CASE k > 0
  <2>1. PICK f : Polls(polled, act, k - 1, f)
    BY <1>2, <1>4
  <2>. DEFINE g == [i \in 0..k |-> IF i = 0 THEN Unheard ELSE watchChannel(f[i - 1], polled[i], act)]
  <2>2. \A i \in 0 .. k - 1 : g[i] = f[i]
    BY <1>4, <2>1 DEF Polls
  <2>3. \A i \in 0 .. k : i # 0 => i - 1 \in 0 .. k - 1
    BY <1>2, <1>4
  <2>4. Polls(polled, act, k, g)
    BY <2>2, <2>3 DEF Polls
  <2>. QED BY <1>2, <2>4
<1>. QED BY <1>2, <1>3, <1>4

(* The types of the records, and the stopwatch: while a channel is watched,   *)
(* not steady, and the clock has not gone round, the wrapped difference of    *)
(* the ticks is the time it has spent in its zone.                            *)
InputTypes ==
  /\ \E k \in Configs : Channel = DOMAIN k
  /\ chan \in [Channel -> Records] /\ \A c \in Channel : Reads(c, chan[c]) /\ Sane(c)
  /\ \A c \in Channel : pins[PinNumber[c]] \in Readings
  /\ watchTick \in 0..(Clocks - 1) /\ stay \in [Channel -> 0..Clocks]

Timed(c) ==
  (c \in Watched /\ ~chan[c].steady /\ stay[c] < Clocks) => Less(watchTick, chan[c].tChange, Clocks) = stay[c]

WatchInv == InputInv /\ InputTypes /\ \A c \in Channel : Timed(c)

(* What a watch has done to the channels of done, and not to the others.      *)
ToldTruly(w, done) ==
  /\ w.ch \in [Channel -> Records] /\ DOMAIN w.told = Channel
  /\ \A c \in Channel : Reads(c, w.ch[c])
  /\ \A c \in done : Judged(c, chan[c], w.ch[c], ToSet(w.told[c]))
  /\ \A c \in Channel \ done : w.ch[c] = chan[c] /\ w.told[c] = <<>>

LEMMA OneMoreTold ==
  ASSUME WatchInv, NEW w, NEW done \in SUBSET Channel, ToldTruly(w, done), NEW act,
         NEW c \in Watched, c \notin done
  PROVE  ToldTruly(watchChannel(w, c, act), done \cup {c})
<1>. DEFINE r == watchChannel(w, c, act)
<1>1. c \in Channel /\ (~IsDigital(c) => c \in ToSet(analogChannels))
  BY DEF WatchInv, InputInv, Watched, ToSet
<1>2. ASSUME ~IsDigital(c) PROVE w.ch[ptrValue[c]].value \in Readings
  <2>1. PICK i \in DOMAIN analogChannels : c = analogChannels[i]
    BY <1>1, <1>2 DEF ToSet
  <2>2. PICK j \in 1..i : ptrValue[c] = analogChannels[j]
    BY <2>1 DEF WatchInv, InputInv, SharedReadsFirst
  <2>3. j \in DOMAIN analogChannels
    BY <2>1, <2>2 DEF WatchInv, InputInv
  <2>4. ptrValue[c] \in ToSet(analogChannels) /\ ptrValue[c] \in Channel
    BY <2>2, <2>3 DEF ToSet, WatchInv, InputInv
  <2>5. ~IsDigital(ptrValue[c])
    BY <2>4 DEF WatchInv, InputInv
  <2>. QED BY <2>4, <2>5 DEF ToldTruly, Reads
<1>3. w.ch[c] = chan[c] /\ Reads(c, w.ch[c]) /\ w.ch \in [Channel -> Records] /\ DOMAIN w.told = Channel
  BY <1>1 DEF ToldTruly
<1>4. Sane(c) /\ pins[PinNumber[c]] \in Readings /\ watchTick \in 0..(Clocks - 1)
  BY <1>1 DEF WatchInv, InputTypes
<1>5. /\ r.ch \in [Channel -> Records] /\ DOMAIN r.told = Channel
      /\ Touches(w.ch, r.ch, c) /\ Touches(w.told, r.told, c)
      /\ Reads(c, r.ch[c]) /\ Judged(c, w.ch[c], r.ch[c], ToSet(r.told[c]))
  BY <1>1, <1>2, <1>3, <1>4, ChannelJudged
<1>. HIDE DEF r
<1>6. \A d \in Channel : d # c => r.ch[d] = w.ch[d] /\ r.told[d] = w.told[d]
  BY <1>5 DEF Touches
<1>7. \A d \in Channel : Reads(d, r.ch[d])
  BY <1>5, <1>6 DEF ToldTruly
<1>8. \A d \in done \cup {c} : Judged(d, chan[d], r.ch[d], ToSet(r.told[d]))
  <2>. SUFFICES ASSUME NEW d \in done, d # c PROVE Judged(d, chan[d], r.ch[d], ToSet(r.told[d]))
    BY <1>3, <1>5
  <2>1. d \in Channel /\ Judged(d, chan[d], w.ch[d], ToSet(w.told[d]))
    BY DEF ToldTruly
  <2>. QED BY <1>6, <2>1
<1>9. \A d \in Channel \ (done \cup {c}) : r.ch[d] = chan[d] /\ r.told[d] = <<>>
  BY <1>6 DEF ToldTruly
<1>10. ToldTruly(r, done \cup {c})
  BY <1>5, <1>7, <1>8, <1>9 DEF ToldTruly
<1>. QED BY <1>10 DEF r

(* A watch polls watched channels, each once.                                 *)
LEMMA PolledOnce ==
  ASSUME InputInv, NEW act
  PROVE  LET polled == (IF act THEN digitalChannels ELSE <<>>) \o analogChannels
         IN polled \in Seq(Channel) /\ NoneTwice(polled) /\ ToSet(polled) \subseteq Watched
<1>. DEFINE s == IF act THEN digitalChannels ELSE <<>>
            t == analogChannels
<1>1. /\ s \in Seq(Channel) /\ t \in Seq(Channel) /\ NoneTwice(s) /\ NoneTwice(t)
      /\ ToSet(s) \subseteq ToSet(digitalChannels) /\ \A c \in ToSet(s) : IsDigital(c)
      /\ \A c \in ToSet(t) : ~IsDigital(c)
  <2>1. CASE act
    BY <2>1 DEF InputInv
  <2>2. CASE ~act
    BY <2>2 DEF InputInv, NoneTwice, ToSet
  <2>. QED BY <2>1, <2>2
<1>. HIDE DEF s, t
<1>2. s \o t \in Seq(Channel) /\ ToSet(s \o t) \subseteq ToSet(s) \cup ToSet(t)
  BY <1>1, SetOfBoth
<1>3. /\ Len(s) \in Nat /\ Len(t) \in Nat /\ DOMAIN s = 1..Len(s) /\ DOMAIN t = 1..Len(t)
      /\ DOMAIN (s \o t) = 1..(Len(s) + Len(t))
      /\ \A i \in 1..(Len(s) + Len(t)) : (s \o t)[i] = IF i <= Len(s) THEN s[i] ELSE t[i - Len(s)]
  BY <1>1
<1>4. ASSUME NEW i \in DOMAIN (s \o t), NEW j \in DOMAIN (s \o t), (s \o t)[i] = (s \o t)[j]
      PROVE  i = j
  <2>1. CASE i <= Len(s) /\ j <= Len(s)
    <3>1. i \in DOMAIN s /\ j \in DOMAIN s /\ s[i] = s[j]
      BY <1>3, <1>4, <2>1
    <3>. QED BY <1>1, <3>1 DEF NoneTwice
  <2>2. CASE ~(i <= Len(s)) /\ ~(j <= Len(s))
    <3>1. i - Len(s) \in DOMAIN t /\ j - Len(s) \in DOMAIN t /\ t[i - Len(s)] = t[j - Len(s)]
      BY <1>3, <1>4, <2>2
    <3>2. i - Len(s) = j - Len(s)
      BY <1>1, <3>1 DEF NoneTwice
    <3>. QED BY <1>3, <3>2
  <2>3. ASSUME NEW a \in DOMAIN (s \o t), NEW b \in DOMAIN (s \o t), a <= Len(s), ~(b <= Len(s)),
               (s \o t)[a] = (s \o t)[b]
        PROVE  FALSE
    <3>1. a \in DOMAIN s /\ b - Len(s) \in DOMAIN t /\ s[a] = t[b - Len(s)]
      BY <1>3, <2>3
    <3>. QED BY <1>1, <3>1 DEF ToSet
  <2>. QED BY <1>4, <2>1, <2>2, <2>3
<1>5. NoneTwice(s \o t)
  BY <1>4 DEF NoneTwice
<1>6. ToSet(s \o t) \subseteq Watched
  BY <1>1, <1>2 DEF Watched, t
<1>. QED BY <1>2, <1>5, <1>6 DEF s, t

(* What a watch does to all channels, and tells those it polls.               *)
LEMMA WatchHears ==
  ASSUME WatchInv, Watch
  PROVE  \E w : /\ w.ch = chan' /\ DOMAIN events' \subseteq Watched /\ DOMAIN events' \subseteq Channel
               /\ ToldTruly(w, DOMAIN events') /\ \A c \in DOMAIN events' : events'[c] = w.told[c]
<1>. DEFINE act == debounceStart >= 0 /\ Less(watchTick, debounceStart, Clocks) >= DebounceTime
            polled == (IF act THEN digitalChannels ELSE <<>>) \o analogChannels
            n == Len(polled)
            u == CHOOSE f : Polls(polled, act, n, f)
<1>1. polled \in Seq(Channel) /\ NoneTwice(polled) /\ ToSet(polled) \subseteq Watched /\ n \in Nat
  <2>1. InputInv
    BY DEF WatchInv
  <2>. HIDE DEF act
  <2>2. polled \in Seq(Channel) /\ NoneTwice(polled) /\ ToSet(polled) \subseteq Watched
    BY <2>1, PolledOnce
  <2>. HIDE DEF polled
  <2>. QED BY <2>2
<1>2. chan' = u[n].ch /\ events' = [c \in ToSet(polled) |-> u[n].told[c]]
  BY DEF Watch, Polls, Unheard
<1>. HIDE DEF polled, act
<1>3. Polls(polled, act, n, u)
  BY <1>1, PollsExist
<1>. HIDE DEF u
<1>4. u[0] = Unheard /\ \A i \in 0..n : i # 0 => u[i] = watchChannel(u[i - 1], polled[i], act)
  BY <1>1, <1>3 DEF Polls
<1>. DEFINE First(i) == {polled[j] : j \in 1..i}
            Bad == {i \in 0..n : ~ToldTruly(u[i], First(i))}
<1>5. \A i \in 0..n : First(i) \subseteq Channel /\ First(i) \subseteq Watched
  BY <1>1 DEF ToSet
<1>6. Bad = {}
  <2>. SUFFICES ASSUME Bad # {} PROVE FALSE
    OBVIOUS
  <2>1. PICK k \in Bad : \A j \in Bad : k <= j
    BY <1>1, LeastNumber, Bad \in SUBSET Nat
  <2>2. k # 0
    <3>1. First(0) = {}
      OBVIOUS
    <3>2. ToldTruly(Unheard, {})
      BY DEF WatchInv, InputTypes, ToldTruly, Unheard
    <3>. QED BY <1>4, <2>1, <3>1, <3>2
  <2>3. k \in 1..n /\ k - 1 \in 0..n
    BY <1>1, <2>1, <2>2
  <2>4. ToldTruly(u[k - 1], First(k - 1))
    <3>1. ASSUME k - 1 \in Bad PROVE FALSE
      <4>1. k <= k - 1
        BY <2>1, <3>1
      <4>. QED BY <1>1, <2>3, <4>1
    <3>. QED BY <2>3, <3>1
  <2>5. polled[k] \in Watched /\ polled[k] \notin First(k - 1)
    BY <1>1, <2>3 DEF ToSet, NoneTwice
  <2>6. First(k) = First(k - 1) \cup {polled[k]}
    BY <1>1, <2>3
  <2>7. First(k - 1) \in SUBSET Channel
    BY <1>5, <2>3
  <2>. HIDE DEF First
  <2>8. ToldTruly(watchChannel(u[k - 1], polled[k], act), First(k - 1) \cup {polled[k]})
    BY <2>4, <2>5, <2>7, OneMoreTold
  <2>. QED BY <1>4, <2>1, <2>2, <2>3, <2>6, <2>8
<1>7. ToldTruly(u[n], First(n))
  <2>1. n \in 0..n
    BY <1>1
  <2>. HIDE DEF First
  <2>. QED BY <1>6, <2>1
<1>8. First(n) = ToSet(polled)
  BY <1>1 DEF ToSet
<1>9. DOMAIN events' = First(n) /\ \A c \in First(n) : events'[c] = u[n].told[c]
  <2>. HIDE DEF First
  <2>. QED BY <1>2, <1>8
<1>10. First(n) \subseteq Channel /\ First(n) \subseteq Watched
  BY <1>1, <1>5
<1>. HIDE DEF First, Bad
<1>. QED BY <1>2, <1>7, <1>9, <1>10

LEMMA WatchStarts == InputInit => WatchInv
<1>. SUFFICES ASSUME InputInit PROVE WatchInv
  OBVIOUS
<1>1. PICK k \in Configs : conf = [c \in DOMAIN k |-> Constructed(k[c])]
  BY DEF InputInit
<1>2. Channel = DOMAIN k
  BY <1>1 DEF Channel
<1>3. 0 \in Readings /\ Width - 1 \in Readings \ {0} /\ 0 \in 0..(Clocks - 1) /\ 0 \in 0..Clocks
  BY InputAssumption DEF Readings
<1>4. chan \in [Channel -> Records] /\ \A c \in Channel : chan[c].value = 0
  BY <1>3 DEF InputInit, Records, Zones
<1>5. \A c \in Channel : pins[PinNumber[c]] \in Readings
  BY <1>3 DEF InputInit
<1>6. ASSUME NEW c \in Channel PROVE Sane(c)
  <2>1. conf[c] = Constructed(k[c])
    BY <1>1, <1>2
  <2>2. CASE Len(k[c]) = 1
    BY <2>1, <2>2 DEF Sane, IsDigital, Constructed, Digital
  <2>3. CASE Len(k[c]) # 1
    <3>1. conf[c] = Analog(k[c][1], k[c][2], k[c][3])
      BY <2>1, <2>3 DEF Constructed
    <3>2. k[c][1] \in Readings /\ k[c][2] \in Readings /\ k[c][3] \in Readings
      BY <1>2, <2>3, InputAssumption DEF Readings
    <3>. QED BY <1>3, <3>1, <3>2 DEF Sane, Analog
  <2>. QED BY <2>2, <2>3
<1>7. watchTick \in 0..(Clocks - 1) /\ stay \in [Channel -> 0..Clocks]
  BY <1>3 DEF InputInit
<1>8. \A c \in Channel : c \notin Watched
  BY DEF InputInit, Watched, ToSet
<1>9. InputTypes
  BY <1>2, <1>3, <1>4, <1>5, <1>6, <1>7 DEF InputTypes, Reads
<1>. QED BY <1>8, <1>9, InputStarts DEF WatchInv, Timed

(* A step that leaves the configuration alone leaves what depends on it.      *)
LEMMA SameConf ==
  ASSUME InputTypes, conf' = conf
  PROVE  /\ Channel' = Channel /\ \A c \in Channel : Sane(c)' /\ IsDigital(c)' = IsDigital(c)
         /\ \E k \in Configs : Channel' = DOMAIN k
BY DEF InputTypes, Sane, IsDigital, Channel

LEMMA WatchKeeps ==
  ASSUME WatchInv, InputInv', Watch
  PROVE  WatchInv'
<1>1. /\ UNCHANGED <<watchTick, pins, conf, ptrValue, digitalChannels, analogChannels>>
      /\ InputTypes /\ Watched' = Watched
  BY DEF Watch, WatchInv, Watched
<1>2. stay' = [c \in Channel |-> IF chan'[c].zone # chan[c].zone THEN 0 ELSE stay[c]]
  BY DEF Watch
<1>3. PICK w : w.ch = chan' /\ ToldTruly(w, DOMAIN events')
  BY WatchHears
<1>4. /\ chan' \in [Channel -> Records] /\ \A c \in Channel : Reads(c, chan'[c])
      /\ \A c \in Channel : Judged(c, chan[c], chan'[c], ToSet(w.told[c])) \/ chan'[c] = chan[c]
  BY <1>3 DEF ToldTruly
<1>5. stay' \in [Channel -> 0..Clocks]
  BY <1>1, <1>2, InputAssumption DEF InputTypes
<1>6. ASSUME NEW c \in Channel PROVE Reads(c, chan[c])' /\ pins'[PinNumber[c]] \in Readings
  BY <1>1, <1>4, SameConf DEF Reads, InputTypes
<1>7. ASSUME NEW c \in Channel PROVE Timed(c)'
  <2>. SUFFICES ASSUME c \in Watched, ~chan'[c].steady, stay'[c] < Clocks
                PROVE  Less(watchTick, chan'[c].tChange, Clocks) = stay'[c]
    BY <1>1 DEF Timed, Less
  <2>0. Timed(c) /\ watchTick \in 0..(Clocks - 1) /\ Clocks \in Nat \ {0}
    BY <1>1, InputAssumption DEF WatchInv, InputTypes
  <2>1. CASE chan'[c].zone # chan[c].zone
    <3>1. chan'[c].tChange = watchTick /\ stay'[c] = 0
      BY <1>2, <1>4, <2>1 DEF Judged
    <3>. QED BY <2>0, <3>1, NextTick
  <2>2. CASE chan'[c].zone = chan[c].zone
    <3>1. ~chan[c].steady /\ chan'[c].tChange = chan[c].tChange /\ stay'[c] = stay[c]
      BY <1>2, <1>4, <2>2 DEF Judged
    <3>. QED BY <2>0, <3>1 DEF Timed
  <2>. QED BY <2>1, <2>2
<1>8. InputTypes'
  <2>1. watchTick' \in 0..(Clocks - 1)
    BY <1>1 DEF InputTypes
  <2>. QED BY <1>1, <1>4, <1>5, <1>6, <2>1, SameConf DEF InputTypes
<1>. QED BY <1>1, <1>7, <1>8, SameConf DEF WatchInv

LEMMA TickKeeps ==
  ASSUME WatchInv, InputInv', Tick
  PROVE  WatchInv'
<1>1. /\ UNCHANGED <<pins, conf, chan, digitalChannels, analogChannels>> /\ InputTypes /\ Watched' = Watched
      /\ watchTick' = (watchTick + 1) % Clocks
      /\ stay' = [c \in Channel |-> IF c \in Watched /\ stay[c] < Clocks THEN stay[c] + 1 ELSE stay[c]]
  BY DEF Tick, WatchInv, Watched
<1>2. watchTick \in 0..(Clocks - 1) /\ Clocks \in Nat \ {0} /\ stay \in [Channel -> 0..Clocks]
  BY <1>1, InputAssumption DEF InputTypes
<1>3. watchTick' \in 0..(Clocks - 1)
  BY <1>1, <1>2, NextTick
<1>4. stay' \in [Channel -> 0..Clocks]
  <2>1. \A c \in Channel : stay[c] \in 0..Clocks /\ (stay[c] < Clocks => stay[c] + 1 \in 0..Clocks)
    BY <1>2
  <2>. QED BY <1>1, <2>1
<1>5. ASSUME NEW c \in Channel PROVE Timed(c)'
  <2>. SUFFICES ASSUME c \in Watched, ~chan[c].steady, stay'[c] < Clocks
                PROVE  Less(watchTick', chan[c].tChange, Clocks) = stay'[c]
    BY <1>1 DEF Timed, Less
  <2>1. stay'[c] = stay[c] + 1 /\ stay[c] + 1 < Clocks /\ stay[c] < Clocks
    BY <1>1, <1>2
  <2>2. Less(watchTick, chan[c].tChange, Clocks) = stay[c]
    BY <2>1 DEF WatchInv, Timed
  <2>3. chan[c].tChange \in 0..(Clocks - 1)
    BY <1>1 DEF InputTypes, Records
  <2>. QED BY <1>1, <1>2, <2>1, <2>2, <2>3, NextTick
<1>6. InputTypes'
  <2>1. \A c \in Channel : Reads(c, chan[c])'
    BY <1>1, SameConf DEF Reads, InputTypes
  <2>. QED BY <1>1, <1>3, <1>4, <2>1, SameConf DEF InputTypes
<1>. QED BY <1>1, <1>5, <1>6, SameConf DEF WatchInv

LEMMA PinKeeps ==
  ASSUME WatchInv, InputInv', NEW n \in DOMAIN pins, NEW v \in PinValues[n], PinChanges(n, v)
  PROVE  WatchInv'
<1>1. /\ UNCHANGED <<watchTick, conf, chan, digitalChannels, analogChannels, stay>> /\ InputTypes
      /\ Watched' = Watched /\ pins' = [pins EXCEPT ![n] = v]
  BY DEF PinChanges, WatchInv, Watched
<1>2. ASSUME NEW c \in Channel PROVE pins'[PinNumber[c]] \in Readings
  <2>1. PinValues[PinNumber[c]] \subseteq Readings
    BY <1>1, InputAssumption DEF InputTypes, Readings
  <2>2. CASE PinNumber[c] = n
    BY <1>1, <2>1, <2>2
  <2>3. CASE PinNumber[c] # n
    BY <1>1, <2>3 DEF InputTypes
  <2>. QED BY <2>2, <2>3
<1>3. InputTypes'
  <2>1. \A c \in Channel : Reads(c, chan[c])'
    BY <1>1, SameConf DEF Reads, InputTypes
  <2>. QED BY <1>1, <1>2, <2>1, SameConf DEF InputTypes
<1>4. ASSUME NEW c \in Channel PROVE Timed(c)'
  BY <1>1 DEF WatchInv, Timed, Less
<1>. QED BY <1>1, <1>3, <1>4, SameConf DEF WatchInv

LEMMA AddTimes ==
  ASSUME WatchInv, InputInv', NEW c \in Channel, Add(c)
  PROVE  WatchInv'
<1>1. /\ UNCHANGED <<watchTick, pins, conf>> /\ stay' = [stay EXCEPT ![c] = 0] /\ InputTypes
  BY DEF Add, WatchInv
<1>2. watchTick \in 0..(Clocks - 1) /\ Clocks \in Nat \ {0} /\ Width \in Nat \ {0, 1} /\ Readings \subseteq Nat
  BY <1>1, InputAssumption DEF InputTypes, Readings
<1>. DEFINE v == IF AnalogReader THEN pins[PinNumber[c]] ELSE 0
            started == [chan[c] EXCEPT !.zone = StartZone(c), !.steady = FALSE, !.tChange = watchTick]
            begun == [started EXCEPT !.lastSampled = v, !.lastStep = v \div conf[c].step]
<1>3. chan' = [chan EXCEPT ![c] = IF IsDigital(c) THEN started ELSE begun]
  BY DEF Add
<1>4. chan[c] \in Records /\ StartZone(c) \in Zones
  BY <1>1 DEF InputTypes, StartZone, Zones
<1>5. started \in Records /\ started.steady = FALSE /\ started.tChange = watchTick /\ started.value = chan[c].value
  BY <1>2, <1>4 DEF Records
<1>6. v \in Int
  <2>1. pins[PinNumber[c]] \in Readings
    BY <1>1 DEF InputTypes
  <2>2. pins[PinNumber[c]] \in Int
    BY ONLY <2>1, InputAssumption DEF Readings
  <2>. QED BY ONLY <2>2
<1>. HIDE DEF v, started
<1>7. ASSUME ~IsDigital(c)
      PROVE  begun \in Records /\ begun.steady = FALSE /\ begun.tChange = watchTick /\ begun.value = chan[c].value
  <2>1. conf[c].step \in Nat /\ conf[c].step > 0
    <3>1. conf[c].step \in Readings \ {0}
      BY <1>1, <1>7 DEF InputTypes, Sane
    <3>. QED BY ONLY <3>1, InputAssumption DEF Readings
  <2>2. v \div conf[c].step \in Int
    BY <1>6, <2>1
  <2>. QED BY <1>5, <1>6, <2>2 DEF Records
<1>. HIDE DEF begun
<1>8. /\ chan'[c] \in Records /\ chan'[c].steady = FALSE /\ chan'[c].tChange = watchTick
      /\ chan'[c].value = chan[c].value /\ \A d \in Channel : d # c => chan'[d] = chan[d]
  BY <1>1, <1>3, <1>5, <1>7 DEF InputTypes
<1>9. chan' \in [Channel -> Records]
  BY <1>1, <1>3, <1>8 DEF InputTypes
<1>10. Watched' \subseteq Watched \cup {c}
  <2>1. digitalChannels' = Grown(digitalChannels, c) \/ digitalChannels' = digitalChannels
    BY DEF Add, Grown, Watched
  <2>2. analogChannels' = Grown(analogChannels, c) \/ analogChannels' = analogChannels
    BY DEF Add, Grown, Watched
  <2>3. /\ ToSet(Grown(digitalChannels, c)) = ToSet(digitalChannels) \cup {c}
        /\ ToSet(Grown(analogChannels, c)) = ToSet(analogChannels) \cup {c}
    BY ListGrows DEF WatchInv, InputInv
  <2>. QED BY <2>1, <2>2, <2>3 DEF Watched
<1>11. ASSUME NEW d \in Channel PROVE Timed(d)'
  <2>1. CASE d = c
    <3>1. stay'[c] = 0
      BY <1>1 DEF InputTypes
    <3>2. Less(watchTick, watchTick, Clocks) = 0
      BY <1>2, NextTick
    <3>. QED BY <1>1, <1>8, <2>1, <3>1, <3>2 DEF Timed, Less
  <2>2. CASE d # c
    <3>1. stay'[d] = stay[d] /\ chan'[d] = chan[d] /\ (d \in Watched' => d \in Watched)
      BY <1>1, <1>8, <1>10, <2>2 DEF InputTypes
    <3>. QED BY <1>1, <3>1 DEF WatchInv, Timed, Less
  <2>. QED BY <2>1, <2>2
<1>12. InputTypes'
  <2>1. \A d \in Channel : Reads(d, chan[d])'
    BY <1>1, <1>8, SameConf DEF Reads, InputTypes
  <2>2. stay' \in [Channel -> 0..Clocks]
    BY <1>1, <1>2 DEF InputTypes
  <2>3. watchTick' \in 0..(Clocks - 1)
    BY <1>1, <1>2
  <2>. QED BY <1>1, <1>9, <2>1, <2>2, <2>3, SameConf DEF InputTypes
<1>. QED BY <1>1, <1>11, <1>12, SameConf DEF WatchInv

LEMMA RemoveTimes ==
  ASSUME WatchInv, InputInv', NEW c \in Channel, RemoveChannel(c)
  PROVE  WatchInv'
<1>1. UNCHANGED <<watchTick, pins, conf, chan, stay>> /\ InputTypes
  BY DEF RemoveChannel, WatchInv
<1>2. Watched' \subseteq Watched
  <2>1. /\ ToSet(RemoveFirst(digitalChannels, c)) \subseteq ToSet(digitalChannels)
        /\ ToSet(RemoveFirst(analogChannels, c)) \subseteq ToSet(analogChannels)
    BY LeftChannels DEF WatchInv, InputInv
  <2>. QED BY <2>1 DEF RemoveChannel, Watched
<1>3. InputTypes'
  <2>1. \A d \in Channel : Reads(d, chan[d])'
    BY <1>1, SameConf DEF Reads, InputTypes
  <2>. QED BY <1>1, <2>1, SameConf DEF InputTypes
<1>4. ASSUME NEW d \in Channel PROVE Timed(d)'
  BY <1>1, <1>2 DEF WatchInv, Timed, Less
<1>. QED BY <1>1, <1>3, <1>4, SameConf DEF WatchInv

LEMMA SettingsTimes ==
  ASSUME WatchInv, InputInv', NEW s \in Settings, s[1] \in Channel,
         setTime(s[1], s[2], s[3]) \/ setParameter(s[1], s[2], s[3])
  PROVE  WatchInv'
<1>. DEFINE c == s[1]
            e == s[2]
            t == s[3]
<1>1. UNCHANGED <<watchTick, pins, chan, digitalChannels, analogChannels, stay>> /\ InputTypes /\ Watched' = Watched
  BY DEF setTime, setParameter, WatchInv, Watched
<1>2. \A d \in Channel : "type" \in DOMAIN conf[d]
  BY DEF WatchInv, InputInv
<1>3. /\ DOMAIN conf' = DOMAIN conf
      /\ \A d \in Channel : conf'[d].type = conf[d].type /\ (d # c => conf'[d] = conf[d])
  <2>1. CASE setTime(c, e, t)
    <3>1. \/ conf' = [conf EXCEPT ![c].steady[ZoneNamed(e)] = t]
          \/ conf' = [conf EXCEPT ![c].pulsationInterval = t]
      BY <2>1 DEF setTime
    <3>. QED BY <1>2, <3>1 DEF Channel
  <2>2. CASE setParameter(c, e, t)
    <3>1. e \in DOMAIN Parameter /\ conf' = [conf EXCEPT ![c][Parameter[e]] = t]
      BY <2>2 DEF setParameter
    <3>2. Parameter[e] # "type"
      BY <3>1 DEF Parameter
    <3>. QED BY <1>2, <3>1, <3>2 DEF Channel
  <2>. QED BY <2>1, <2>2
<1>4. Channel' = Channel /\ \A d \in Channel : IsDigital(d)' = IsDigital(d)
  BY <1>3 DEF Channel, IsDigital
<1>5. Sane(c) /\ c \in DOMAIN conf
  BY <1>1 DEF InputTypes, Channel
<1>6. ASSUME ~IsDigital(c)
      PROVE  Sane(c)'
  <2>1. /\ {"low", "high", "hysteresis", "delta", "step"} \subseteq DOMAIN conf[c]
        /\ conf[c].low \in Readings /\ conf[c].high \in Readings
        /\ conf[c].hysteresis \in Readings /\ conf[c].step \in Readings \ {0}
        /\ conf[c].delta \in Readings
    BY <1>5, <1>6 DEF Sane
  <2>2. CASE setTime(c, e, t)
    <3>1. \/ conf'[c] = [conf[c] EXCEPT !.steady[ZoneNamed(e)] = t]
          \/ conf'[c] = [conf[c] EXCEPT !.pulsationInterval = t]
      BY <1>5, <2>2 DEF setTime
    <3>. QED BY <2>1, <3>1 DEF Sane
  <2>3. CASE setParameter(c, e, t)
    <3>1. e \in DOMAIN Parameter /\ conf'[c] = [conf[c] EXCEPT ![Parameter[e]] = t]
      BY <1>5, <2>3 DEF setParameter
    <3>2. \/ e \in {"HIGH_THRESHOLD", "LOW_THRESHOLD", "IN_BAND", "DELTA"} /\ t \in Readings
             /\ Parameter[e] \in {"high", "low", "hysteresis", "delta"}
          \/ e \in {"STEP_UP", "STEP_DOWN"} /\ t \in Readings \ {0} /\ Parameter[e] = "step"
      <4>1. e \in {"HIGH_THRESHOLD", "LOW_THRESHOLD", "IN_BAND", "DELTA", "STEP_UP", "STEP_DOWN"}
        BY <3>1 DEF Parameter
      <4>2. CASE e \in {"HIGH_THRESHOLD", "LOW_THRESHOLD", "IN_BAND", "DELTA"}
        BY <4>2, InputAssumption DEF Parameter, Readings
      <4>3. CASE e \in {"STEP_UP", "STEP_DOWN"}
        <5>1. t \in 1..(Width - 1)
          BY <4>3, InputAssumption
        <5>. QED BY <4>3, <5>1, InputAssumption DEF Parameter, Readings
      <4>. QED BY <4>1, <4>2, <4>3
    <3>. HIDE DEF c, e, t
    <3>. QED BY <2>1, <3>1, <3>2 DEF Sane
  <2>. QED BY <2>2, <2>3
<1>7. ASSUME NEW d \in Channel PROVE Sane(d)'
  <2>1. CASE d = c
    <3>1. CASE ~IsDigital(c)
      BY <1>6, <2>1, <3>1
    <3>2. CASE IsDigital(c)
      BY <1>4, <2>1, <3>2 DEF Sane
    <3>. QED BY <3>1, <3>2
  <2>2. CASE d # c
    BY <1>1, <1>3, <1>4, <2>2 DEF Sane, InputTypes
  <2>. QED BY <2>1, <2>2
<1>8. InputTypes'
  <2>1. \A d \in Channel : Reads(d, chan[d])'
    BY <1>1, <1>4 DEF Reads, InputTypes
  <2>. QED BY <1>1, <1>4, <1>7, <2>1 DEF InputTypes
<1>9. ASSUME NEW d \in Channel PROVE Timed(d)'
  BY <1>1 DEF WatchInv, Timed, Less
<1>. QED BY <1>4, <1>8, <1>9 DEF WatchInv

LEMMA WatchStep == WatchInv /\ [InputNext]_inputVars => WatchInv'
<1>. SUFFICES ASSUME WatchInv, [InputNext]_inputVars PROVE WatchInv'
  OBVIOUS
<1>0. InputInv'
  BY InputStep DEF WatchInv
<1>1. CASE Watch
  BY <1>0, <1>1, WatchKeeps
<1>2. CASE Tick
  BY <1>0, <1>2, TickKeeps
<1>3. ASSUME NEW n \in DOMAIN pins, NEW v \in PinValues[n], PinChanges(n, v) PROVE WatchInv'
  BY <1>0, <1>3, PinKeeps
<1>4. ASSUME NEW c \in Channel, Add(c) \/ RemoveChannel(c) PROVE WatchInv'
  BY <1>0, <1>4, AddTimes, RemoveTimes
<1>5. ASSUME NEW s \in Settings, s[1] \in Channel, setTime(s[1], s[2], s[3]) \/ setParameter(s[1], s[2], s[3])
      PROVE  WatchInv'
  BY <1>0, <1>5, SettingsTimes
<1>6. CASE UNCHANGED inputVars
  BY <1>0, <1>6 DEF inputVars, WatchInv, InputTypes, Channel, Reads, Sane, IsDigital, Timed, Watched, Less
<1>. QED BY <1>1, <1>2, <1>3, <1>4, <1>5, <1>6 DEF InputNext

(* What a watch tells.                                                        *)
LEMMA WatchIsTruthful ==
  ASSUME WatchInv, Watch, NEW c \in DOMAIN events', ~Hears(c, "EXCEPTION")
  PROVE  Truthful(c)
<1>1. PICK w : /\ w.ch = chan' /\ DOMAIN events' \subseteq Watched /\ DOMAIN events' \subseteq Channel
              /\ ToldTruly(w, DOMAIN events') /\ \A x \in DOMAIN events' : events'[x] = w.told[x]
  BY WatchHears
<1>. DEFINE T == ToSet(events'[c])
            d == chan[c]
            e == chan'[c]
<1>2. c \in Watched /\ c \in Channel /\ Judged(c, d, e, T)
  BY <1>1 DEF ToldTruly
<1>3. Timed(c) /\ stay[c] \in 0..Clocks /\ Clocks \in Nat /\ Sane(c)
  BY <1>2, InputAssumption DEF WatchInv, InputTypes
<1>4. \A x : Hears(c, x) <=> x \in T
  BY DEF Hears
<1>. HIDE DEF T, d, e
<1>5. /\ ZoneTold(c, d.zone, e.zone, ripe(d, c), T \ Moves)
      /\ MovesTold(c, d, e, T)
      /\ Entered(c, d.zone, e.zone, e.value)
      /\ (~IsDigital(c) /\ conf[c].low < conf[c].high) => Fits(c, e.zone, e.value)
  BY <1>2, <1>4 DEF Judged
<1>6. \A x : x \notin Moves => (Hears(c, x) <=> x \in T \ Moves)
  BY <1>4
<1>7. SteadyAfterStay(c)
  <2>. SUFFICES ASSUME NEW z \in Zones
                PROVE  LET stays == e.zone = z /\ d.zone = z /\ ~d.steady
                       IN /\ Hears(c, SteadyEvent(z)) => stays /\ (stay[c] >= Clocks \/ stay[c] > conf[c].steady[z])
                          /\ (stays /\ stay[c] < Clocks /\ stay[c] > conf[c].steady[z]) => Hears(c, SteadyEvent(z))
    BY DEF SteadyAfterStay, d, e
  <2>1. SteadyEvent(z) \notin Moves
    BY DEF SteadyEvent, Zones, Moves
  <2>2. Hears(c, SteadyEvent(z)) <=> (e.zone = d.zone /\ e.zone = z /\ ripe(d, c))
    BY <1>5, <1>6, <2>1 DEF ZoneTold
  <2>3. d.zone = z => (ripe(d, c) <=> (~d.steady /\ Less(watchTick, d.tChange, Clocks) > conf[c].steady[z]))
    BY DEF ripe
  <2>4. ~d.steady /\ stay[c] < Clocks => Less(watchTick, d.tChange, Clocks) = stay[c]
    BY <1>2, <1>3 DEF Timed, d
  <2>5. stay[c] < Clocks \/ stay[c] >= Clocks
    BY <1>3
  <2>. QED BY <2>2, <2>3, <2>4, <2>5
<1>8. ZoneFitsValue(c)
  BY <1>5 DEF ZoneFitsValue, Entered, Fits, e
<1>9. CrossingTold(c)
  <2>1. "ON_CHANGE" \notin Moves /\ \A z \in Zones : EventOf(c, z) \notin Moves
    BY DEF EventOf, Zones, Moves
  <2>2. Hears(c, "ON_CHANGE") <=> e.zone # d.zone
    BY <1>5, <1>6, <2>1 DEF ZoneTold
  <2>3. \A z \in Zones : Hears(c, EventOf(c, z)) <=> (e.zone # d.zone /\ e.zone = z)
    BY <1>5, <1>6, <2>1 DEF ZoneTold
  <2>4. \A x : Hears(c, x) => x \in Moves \cup {"ON_CHANGE"} \cup ZoneEvents(c) \cup Pulsations \cup Steadies
    BY <1>4, <1>5 DEF ZoneTold
  <2>5. /\ Hears(c, "HIGH_THRESHOLD") => e.value > conf[c].high
        /\ Hears(c, "LOW_THRESHOLD") => e.value < conf[c].low
        /\ Hears(c, "RISING_EDGE") => e.value # 0
        /\ Hears(c, "FALLING_EDGE") => e.value = 0
    <3>1. CASE IsDigital(c)
      <4>1. ~Hears(c, "HIGH_THRESHOLD") /\ ~Hears(c, "LOW_THRESHOLD")
        BY <2>4, <3>1 DEF ZoneEvents, Moves, Pulsations, Steadies
      <4>2. EventOf(c, "high") = "RISING_EDGE" /\ EventOf(c, "low") = "FALLING_EDGE"
        BY <3>1 DEF EventOf
      <4>3. "high" \in Zones /\ "low" \in Zones
        BY DEF Zones
      <4>. QED BY <1>5, <2>3, <3>1, <4>1, <4>2, <4>3 DEF Entered
    <3>2. CASE ~IsDigital(c)
      <4>1. ~Hears(c, "RISING_EDGE") /\ ~Hears(c, "FALLING_EDGE")
        BY <2>4, <3>2 DEF ZoneEvents, Moves, Pulsations, Steadies
      <4>2. EventOf(c, "high") = "HIGH_THRESHOLD" /\ EventOf(c, "low") = "LOW_THRESHOLD"
        BY <3>2 DEF EventOf
      <4>3. "high" \in Zones /\ "low" \in Zones
        BY DEF Zones
      <4>. QED BY <1>5, <2>3, <3>2, <4>1, <4>2, <4>3 DEF Entered
    <3>. QED BY <3>1, <3>2
  <2>. QED BY <2>2, <2>3, <2>5 DEF CrossingTold, d, e
<1>10. MoveTold(c)
  <2>1. CASE IsDigital(c)
    BY <1>4, <1>5, <2>1 DEF MoveTold, MovesTold, Moves
  <2>2. CASE ~IsDigital(c)
    BY <1>4, <1>5, <2>2 DEF MoveTold, MovesTold, Apart, d, e
  <2>. QED BY <2>1, <2>2
<1>. QED BY <1>7, <1>8, <1>9, <1>10 DEF Truthful

(* What every watch tells the channels it polls is true, and nothing of the   *)
(* kind is kept from them, for any channels, readers, pins and settings: a    *)
(* steady event comes after the first stay in the zone longer than the time   *)
(* set, wherever the tick wraps; an edge or a threshold with the crossing,    *)
(* which no watch misses; a step or a delta with the move (input.cpp 19-298). *)
(* That the zone of an analog channel agrees with its value is claimed for    *)
(* thresholds in order.                                                       *)
THEOREM EventsAreTruthful == InputSpec => EventsTruthful
<1>1. WatchInv /\ [InputNext]_inputVars =>
        [\A c \in DOMAIN events' : ~Hears(c, "EXCEPTION") => Truthful(c)]_inputVars
  <2>. SUFFICES ASSUME WatchInv, InputNext, NEW c \in DOMAIN events', ~Hears(c, "EXCEPTION")
                PROVE  Truthful(c)
    BY DEF Hears
  <2>1. CASE Watch
    BY <2>1, WatchIsTruthful
  <2>2. ASSUME ~Watch PROVE events' = <<>>
    BY <2>2 DEF InputNext, Add, RemoveChannel, Tick, PinChanges, setTime, setParameter
  <2>3. DOMAIN <<>> = {}
    OBVIOUS
  <2>. QED BY <2>1, <2>2, <2>3
<1>2. WatchInv /\ [InputNext]_inputVars => WatchInv'
  BY WatchStep
<1>. QED BY <1>1, <1>2, WatchStarts, PTL DEF InputSpec, EventsTruthful
-----------------------------------------------------------------------------
(* Command line: what is executed.                                            *)

(* The recursion of Graphic, as a property of the function it chooses.        *)
Collects(s, i, n, f) ==
  f = [k \in (i - 1)..n |-> IF k = i - 1 THEN <<>>
                            ELSE IF s[k] \in Graph THEN Append(f[k - 1], s[k]) ELSE f[k - 1]]

LEMMA CollectsStep ==
  ASSUME NEW s, NEW i \in Nat, i > 0, NEW n \in Nat, n >= i - 1, NEW f, Collects(s, i, n, f)
  PROVE  /\ f[i - 1] = <<>>
         /\ \A k \in (i - 1)..n : k # i - 1 =>
              f[k] = IF s[k] \in Graph THEN Append(f[k - 1], s[k]) ELSE f[k - 1]
<1>1. \A k \in (i - 1)..n : f[k] = IF k = i - 1 THEN <<>>
                                 ELSE IF s[k] \in Graph THEN Append(f[k - 1], s[k]) ELSE f[k - 1]
  BY Zenon DEF Collects
<1>2. i - 1 \in (i - 1)..n
  OBVIOUS
<1>. QED BY <1>1, <1>2

LEMMA CollectsExist ==
  ASSUME NEW s, NEW i \in Nat, i > 0, NEW n \in Nat, n >= i - 1
  PROVE  \E f : Collects(s, i, n, f)
<1>. DEFINE Missing == {m \in Nat : m >= i - 1 /\ ~ \E f : Collects(s, i, m, f)}
<1>1. SUFFICES ASSUME Missing # {} PROVE FALSE
  OBVIOUS
<1>2. PICK m \in Missing : \A j \in Missing : m <= j
  BY <1>1, LeastNumber, Missing \in SUBSET Nat
<1>3. CASE m = i - 1
  <2>1. Collects(s, i, i - 1, [k \in (i - 1)..(i - 1) |-> <<>>])
    BY DEF Collects
  <2>. QED BY <1>2, <1>3, <2>1
<1>4. CASE m > i - 1
  <2>1. PICK f : Collects(s, i, m - 1, f)
    <3>1. m - 1 \in Nat /\ m - 1 >= i - 1 /\ ~(m <= m - 1)
      BY <1>2, <1>4
    <3>. QED BY <1>2, <3>1
  <2>. DEFINE g == [k \in (i - 1)..m |-> IF k = i - 1 THEN <<>>
                      ELSE IF s[k] \in Graph THEN Append(f[k - 1], s[k]) ELSE f[k - 1]]
  <2>2. \A k \in (i - 1)..(m - 1) : g[k] = f[k]
    <3>1. m - 1 \in Nat /\ m - 1 >= i - 1 /\ \A k \in (i - 1)..(m - 1) : k \in (i - 1)..m
      BY <1>2, <1>4
    <3>. QED BY <2>1, <3>1, CollectsStep
  <2>3. \A k \in (i - 1)..m : k # i - 1 => k - 1 \in (i - 1)..(m - 1)
    BY <1>2, <1>4
  <2>4. Collects(s, i, m, g)
    <3>1. g = [k \in (i - 1)..m |-> IF k = i - 1 THEN <<>>
                ELSE IF s[k] \in Graph THEN Append(g[k - 1], s[k]) ELSE g[k - 1]]
      <4>1. \A k \in (i - 1)..m : k # i - 1 => g[k - 1] = f[k - 1]
        BY <2>2, <2>3
      <4>. QED BY <4>1, Zenon
    <3>. QED BY <3>1 DEF Collects
  <2>. QED BY <1>2, <2>4
<1>. QED BY <1>2, <1>3, <1>4

(* Two of them, of different lengths, agree as far as both go.                *)
LEMMA CollectsAgree ==
  ASSUME NEW s, NEW i \in Nat, i > 0, NEW m \in Nat, NEW n \in Nat, i - 1 <= m, m <= n,
         NEW f, NEW g, Collects(s, i, m, f), Collects(s, i, n, g)
  PROVE  f[m] = g[m]
<1>. DEFINE Bad == {k \in (i - 1)..m : f[k] # g[k]}
<1>1. SUFFICES ASSUME Bad # {} PROVE FALSE
  OBVIOUS
<1>2. PICK k \in Bad : \A j \in Bad : k <= j
  BY <1>1, LeastNumber, Bad \in SUBSET Nat
<1>3. k # i - 1 /\ k - 1 \in (i - 1)..m /\ ~(k <= k - 1)
  <2>0. m >= i - 1 /\ n >= i - 1
    OBVIOUS
  <2>1. f[i - 1] = <<>> /\ g[i - 1] = <<>>
    BY <2>0, CollectsStep
  <2>. QED BY <1>2, <2>1
<1>4. f[k - 1] = g[k - 1]
  BY <1>2, <1>3
<1>5. k \in (i - 1)..m /\ k \in (i - 1)..n /\ f[k] # g[k]
  BY <1>2
<1>6. f[k] = IF s[k] \in Graph THEN Append(f[k - 1], s[k]) ELSE f[k - 1]
  BY <1>3, <1>5, CollectsStep
<1>7. g[k] = IF s[k] \in Graph THEN Append(g[k - 1], s[k]) ELSE g[k - 1]
  BY <1>3, <1>5, CollectsStep
<1>. QED BY <1>4, <1>5, <1>6, <1>7

LEMMA GraphicIs ==
  ASSUME NEW s, NEW i \in Nat, i > 0, NEW n \in Nat, n >= i - 1
  PROVE  \E f : Collects(s, i, n, f) /\ Graphic(s, i, n) = f[n]
<1>. DEFINE f == CHOOSE g : Collects(s, i, n, g)
<1>1. Collects(s, i, n, f)
  BY CollectsExist
<1>2. Graphic(s, i, n) = f[n]
  BY DEF Graphic, Collects
<1>. QED BY <1>1, <1>2

(* Nothing, and one character more.                                           *)
LEMMA GraphicEmpty ==
  ASSUME NEW s, NEW i \in Nat, i > 0
  PROVE  Graphic(s, i, i - 1) = <<>>
<1>1. PICK f : Collects(s, i, i - 1, f) /\ Graphic(s, i, i - 1) = f[i - 1]
  BY GraphicIs
<1>. QED BY <1>1 DEF Collects

LEMMA GraphicNext ==
  ASSUME NEW s, NEW i \in Nat, i > 0, NEW n \in Nat, n >= i - 1
  PROVE  Graphic(s, i, n + 1) = IF s[n + 1] \in Graph THEN Append(Graphic(s, i, n), s[n + 1])
                                ELSE Graphic(s, i, n)
<1>1. PICK f : Collects(s, i, n, f) /\ Graphic(s, i, n) = f[n]
  BY GraphicIs
<1>2. PICK g : Collects(s, i, n + 1, g) /\ Graphic(s, i, n + 1) = g[n + 1]
  BY GraphicIs
<1>3. f[n] = g[n]
  BY <1>1, <1>2, CollectsAgree
<1>4. n + 1 \in (i - 1)..(n + 1) /\ n + 1 # i - 1 /\ (n + 1) - 1 = n
  OBVIOUS
<1>. QED BY <1>1, <1>2, <1>3, <1>4 DEF Collects

(* It is a text, no longer than the line.                                     *)
LEMMA GraphicIsText ==
  ASSUME NEW s, NEW i \in Nat, i > 0, NEW n \in Nat, n >= i - 1
  PROVE  Graphic(s, i, n) \in Seq(Graph) /\ Len(Graphic(s, i, n)) <= (n + 1) - i
<1>. DEFINE IsText(m) == Graphic(s, i, m) \in Seq(Graph) /\ Len(Graphic(s, i, m)) <= (m + 1) - i
            Bad == {m \in Nat : m >= i - 1 /\ ~IsText(m)}
<1>1. SUFFICES ASSUME Bad # {} PROVE FALSE
  OBVIOUS
<1>2. PICK m \in Bad : \A j \in Bad : m <= j
  BY <1>1, LeastNumber, Bad \in SUBSET Nat
<1>3. CASE m = i - 1
  <2>1. Graphic(s, i, m) = <<>>
    BY <1>3, GraphicEmpty
  <2>2. <<>> \in Seq(Graph) /\ Len(<<>>) = 0
    OBVIOUS
  <2>3. m \in Nat /\ (m + 1) - i = 0
    BY <1>2, <1>3
  <2>4. Graphic(s, i, m) \in Seq(Graph) /\ Len(Graphic(s, i, m)) = 0
    BY <2>1, <2>2
  <2>5. IsText(m)
    BY <2>3, <2>4
  <2>. QED BY <1>2, <2>5
<1>4. CASE m > i - 1
  <2>1. m - 1 \in Nat /\ m - 1 >= i - 1 /\ ~(m <= m - 1) /\ (m - 1) + 1 = m
    BY <1>2, <1>4
  <2>2. IsText(m - 1)
    BY <1>2, <2>1
  <2>3. Graphic(s, i, m) = IF s[m] \in Graph THEN Append(Graphic(s, i, m - 1), s[m]) ELSE Graphic(s, i, m - 1)
    <3>1. Graphic(s, i, (m - 1) + 1) = IF s[(m - 1) + 1] \in Graph THEN Append(Graphic(s, i, m - 1), s[(m - 1) + 1])
                                       ELSE Graphic(s, i, m - 1)
      BY <2>1, GraphicNext
    <3>. QED BY <2>1, <3>1
  <2>4. IsText(m)
    <3>. DEFINE t == Graphic(s, i, m - 1)
    <3>1. t \in Seq(Graph) /\ Len(t) \in Nat /\ Len(t) <= ((m - 1) + 1) - i
      BY <2>2
    <3>2. Graphic(s, i, m) = IF s[m] \in Graph THEN Append(t, s[m]) ELSE t
      BY <2>3
    <3>. HIDE DEF t
    <3>3. CASE s[m] \in Graph
      <4>1. Append(t, s[m]) \in Seq(Graph) /\ Len(Append(t, s[m])) = Len(t) + 1
        BY <3>1, <3>3
      <4>. QED BY <1>2, <3>1, <3>2, <3>3, <4>1
    <3>4. CASE s[m] \notin Graph
      BY <1>2, <3>1, <3>2, <3>4
    <3>. QED BY <3>3, <3>4
  <2>. QED BY <1>2, <2>4
<1>. QED BY <1>2, <1>3, <1>4

(* An empty buffer is an empty line.                                          *)
LEMMA NothingIsNothing == inputFix(<<>>) = <<>>
<1>. DEFINE last == SelectInSeq(<<>>, LAMBDA c : c = CR)
            line == IF last = 0 THEN <<>> ELSE SubSeq(<<>>, 1, last - 1)
            args == SelectInSeq(line, LAMBDA c : c \in {"=", "?"})
            lowered == [i \in DOMAIN line |->
                    IF (args = 0 \/ i < args) /\ line[i] \in DOMAIN Lower THEN Lower[line[i]] ELSE line[i]]
<1>1. last = 0
  BY DEF SelectInSeq
<1>2. line = <<>>
  BY <1>1
<1>3. lowered = <<>>
  <2>. HIDE DEF line, args
  <2>1. DOMAIN line = {}
    BY <1>2
  <2>. QED BY <2>1
<1>4. Len(lowered) = 0
  BY <1>3
<1>5. inputFix(<<>>) = Graphic(lowered, 1, Len(lowered))
  BY DEF inputFix
<1>. HIDE DEF lowered
<1>6. Graphic(lowered, 1, 1 - 1) = <<>>
  BY GraphicEmpty
<1>. QED BY <1>4, <1>5, <1>6

(* What a buffer may hold when a line is taken out of it.                     *)
OneLine(t) ==
  \/ t = <<>>
  \/ \E b \in Blocks : t \in Whole(b)
  \/ \E s \in Lines : \E i \in 1..Len(s) : t = Graphic(s, i, Len(s))

(* A line is between two characters, or none is being sent.                   *)
CliTypes ==
  /\ index \in Nat /\ position \in Nat /\ raced \in BOOLEAN
  /\ IF position = 0 THEN sending = <<>> /\ index = 0
     ELSE sending \in Lines /\ position <= Len(sending)

(* A free buffer holds the end of what was sent of the line, and the next     *)
(* character goes to its end, to its beginning, or where nobody sees it.      *)
Collected ==
  \E i \in 1..(position + 1) :
    text = Graphic(sending, i, position) /\ (index = 0 \/ index = Len(text) \/ text = <<>>)

(* All of an intact line is in the buffer while there is room for it.         *)
Complete ==
  /\ position > 0 /\ ~ready /\ cliPc = "idle"
  /\ position <= MaxIndex =>
       /\ text = Graphic(sending, 1, position)
       /\ index = Len(text) \/ (index = 0 /\ Len(text) = MaxIndex)

(* What is expected goes with the buffer until it is released.                *)
Awaited ==
  /\ cliPc \in {"idle", "copy", "fix", "notify", "ready", "index", "storage"}
  /\ cliPc = "ready" => ready
  /\ Raising => raised \in Blocks /\ expected = Anything
  /\ cliPc \in {"index", "storage"} => expected = Anything
  /\ expected # Anything => ready

(* A command that is being raised is in the buffer from its copy on, unless   *)
(* the handler wrote there.                                                   *)
BeingRaised ==
  /\ cliPc = "fix" /\ ~raced => text = strcpy(raised, MaxIndex)
  /\ cliPc = "notify" /\ ~raced => text = inputFix(strcpy(raised, MaxIndex))

CliInv ==
  /\ CliTypes /\ Awaited /\ BeingRaised
  /\ (cliPc = "idle" /\ ready /\ ~raced) => OneLine(text)
  /\ (cliPc = "idle" /\ ~ready) => Collected
  /\ lineStart = "intact" => Complete
  /\ ExecutesWhatWasSent

LEMMA CliStarts == CliInit => CliInv
<1>. SUFFICES ASSUME CliInit PROVE CliInv
  OBVIOUS
<1>1. CliTypes /\ Awaited /\ BeingRaised
  BY DEF CliInit, CliTypes, Awaited, BeingRaised, Raising
<1>2. Collected
  <2>1. Graphic(sending, 1, 1 - 1) = <<>>
    BY GraphicEmpty
  <2>. QED BY <2>1 DEF CliInit, Collected
<1>. QED BY <1>1, <1>2 DEF CliInv, CliInit, ExecutesWhatWasSent, LinesNeverSpliced, IntactLineExecuted

(* Between two characters of a line: another line is not looked at.           *)
LEMMA NoneSent ==
  ASSUME CliTypes, NEW line, position = 0 \/ sending = line, NEW i \in 1..(position + 1)
  PROVE  Graphic(sending, i, position) = Graphic(line, i, position)
<1>1. CASE position = 0
  <2>1. i = 1 /\ position = 1 - 1
    BY <1>1
  <2>2. Graphic(sending, 1, 1 - 1) = <<>> /\ Graphic(line, 1, 1 - 1) = <<>>
    BY GraphicEmpty
  <2>. QED BY <2>1, <2>2
<1>2. CASE sending = line
  BY <1>2
<1>. QED BY <1>1, <1>2

(* What a character leaves that is written at the end, at the beginning, or   *)
(* behind the null.                                                           *)
LEMMA Written ==
  ASSUME NEW t \in Seq(Graph), NEW c \in Graph, NEW k \in Nat
  PROVE  /\ k = Len(t) => Stored(t, k, c) = Append(t, c) /\ Len(Stored(t, k, c)) = k + 1
         /\ k = 0 => Stored(t, k, c) = Append(<<>>, c) /\ Len(Stored(t, k, c)) = k + 1
         /\ (t = <<>> /\ k # 0) => Stored(t, k, c) = <<>>
<1>0. Len(t) \in Nat
  OBVIOUS
<1>1. ASSUME k = Len(t) PROVE Stored(t, k, c) = Append(t, c) /\ Len(Stored(t, k, c)) = k + 1
  <2>1. SubSeq(t, 1, Len(t)) = t
    BY SubSeqFull
  <2>2. t \o <<c>> = Append(t, c)
    OBVIOUS
  <2>3. Stored(t, k, c) = SubSeq(t, 1, k) \o <<c>>
    BY <1>0, <1>1 DEF Stored
  <2>4. Stored(t, k, c) = Append(t, c)
    BY <1>1, <2>1, <2>2, <2>3, Zenon
  <2>5. Len(Append(t, c)) = Len(t) + 1
    OBVIOUS
  <2>. QED BY <1>1, <2>4, <2>5, Zenon
<1>2. ASSUME k = 0 PROVE Stored(t, k, c) = Append(<<>>, c) /\ Len(Stored(t, k, c)) = k + 1
  <2>1. SubSeq(t, 1, 0) = <<>>
    BY SubSeqEmpty
  <2>2. <<>> \o <<c>> = Append(<<>>, c) /\ Len(Append(<<>>, c)) = 1
    OBVIOUS
  <2>3. Stored(t, k, c) = SubSeq(t, 1, k) \o <<c>>
    BY <1>0, <1>2 DEF Stored
  <2>4. Stored(t, k, c) = Append(<<>>, c)
    BY <1>2, <2>1, <2>2, <2>3, Zenon
  <2>5. k + 1 = 1
    BY <1>2
  <2>. QED BY <2>2, <2>4, <2>5, Zenon
<1>3. ASSUME t = <<>>, k # 0 PROVE Stored(t, k, c) = <<>>
  <2>1. Len(t) = 0
    BY <1>3
  <2>. QED BY <1>3, <2>1 DEF Stored
<1>. QED BY <1>1, <1>2, <1>3

LEMMA CharCollects ==
  ASSUME CliInv, NEW line \in Lines, isrChar(line), cliPc = "idle", ~ready
  PROVE  Collected'
<1>. DEFINE c == line[position + 1]
<1>1. PICK i \in 1..(position + 1) :
        text = Graphic(line, i, position) /\ (index = 0 \/ index = Len(text) \/ text = <<>>)
  BY NoneSent DEF CliInv, Collected, isrChar
<1>2. index \in Nat /\ position \in Nat /\ MaxIndex \in Nat /\ i \in Nat /\ i > 0 /\ position >= i - 1
      /\ i \in 1..((position + 1) + 1) /\ position + 1 \in 1..((position + 1) + 1)
      /\ (position + 1) + 1 \in 1..((position + 1) + 1)
  BY CliAssumption DEF CliInv, CliTypes
<1>3. text \in Seq(Graph) /\ Len(text) \in Nat
  BY <1>1, <1>2, GraphicIsText
<1>4. sending' = line /\ position' = position + 1
  BY DEF isrChar
<1>5. Graphic(line, i, position + 1) = IF c \in Graph THEN Append(text, c) ELSE text
  BY <1>1, <1>2, GraphicNext
<1>6. CASE c \notin Graph
  <2>1. text' = text /\ index' = index
    BY <1>6 DEF isrChar
  <2>. QED BY <1>1, <1>2, <1>4, <1>5, <1>6, <2>1 DEF Collected
<1>7. CASE c \in Graph
  <2>1. /\ text' = Stored(text, index, c)
        /\ index' = IF index + 1 >= MaxIndex THEN 0 ELSE index + 1
    BY <1>7 DEF isrChar
  <2>2. Graphic(line, i, position + 1) = Append(text, c)
    BY <1>5, <1>7
  <2>. HIDE DEF c
  <2>6. /\ index = Len(text) => text' = Append(text, c) /\ Len(text') = index + 1
        /\ index = 0 => text' = Append(<<>>, c) /\ Len(text') = index + 1
        /\ (text = <<>> /\ index # 0) => text' = <<>>
    BY <1>2, <1>3, <1>7, <2>1, Written DEF c
  <2>3. CASE index = Len(text)
    BY <1>2, <1>4, <2>1, <2>2, <2>3, <2>6 DEF Collected
  <2>4. CASE index = 0
    <3>1. position + 1 \in Nat /\ position + 1 > 0 /\ (position + 1) - 1 = position /\ position >= (position + 1) - 1
      BY <1>2
    <3>2. Graphic(line, position + 1, position) = <<>>
      BY <3>1, GraphicEmpty
    <3>3. Graphic(line, position + 1, position + 1) = Append(<<>>, c)
      BY <1>2, <1>7, <3>1, <3>2, GraphicNext DEF c
    <3>. QED BY <1>2, <1>4, <2>1, <2>4, <2>6, <3>3 DEF Collected
  <2>5. CASE text = <<>> /\ index # 0
    <3>1. (position + 1) + 1 \in Nat /\ (position + 1) + 1 > 0 /\ ((position + 1) + 1) - 1 = position + 1
      BY <1>2
    <3>2. Graphic(line, (position + 1) + 1, position + 1) = <<>>
      BY <3>1, GraphicEmpty
    <3>. QED BY <1>2, <1>4, <2>5, <2>6, <3>2 DEF Collected
  <2>. QED BY <1>1, <2>3, <2>4, <2>5
<1>. QED BY <1>6, <1>7

LEMMA CharCompletes ==
  ASSUME CliInv, NEW line \in Lines, isrChar(line), Intact
  PROVE  Complete'
<1>. DEFINE c == line[position + 1]
<1>1. /\ index \in Nat /\ position \in Nat /\ MaxIndex \in Nat /\ position' = position + 1 /\ sending' = line
      /\ ~ready' /\ cliPc' = "idle" /\ position' > 0
  BY CliAssumption DEF CliInv, CliTypes, isrChar, Intact
<1>2. SUFFICES ASSUME position + 1 <= MaxIndex
      PROVE  /\ text' = Graphic(line, 1, position + 1)
             /\ index' = Len(text') \/ (index' = 0 /\ Len(text') = MaxIndex)
  BY <1>1 DEF Complete
<1>3. text = Graphic(line, 1, position) /\ (index = Len(text) \/ (index = 0 /\ Len(text) = MaxIndex))
  <2>1. CASE position = 0
    <3>1. Graphic(sending, 1, 0) = <<>> /\ Graphic(line, 1, 0) = <<>>
      <4>1. 1 - 1 = 0
        OBVIOUS
      <4>. QED BY <4>1, GraphicEmpty
    <3>2. PICK i \in 1..(position + 1) : text = Graphic(sending, i, position)
      BY DEF CliInv, Collected, Intact
    <3>3. i = 1 /\ index = 0 /\ Len(<<>>) = 0
      BY <2>1 DEF CliInv, CliTypes
    <3>. QED BY <2>1, <3>1, <3>2, <3>3
  <2>2. CASE position > 0
    <3>1. sending = line /\ Complete /\ position <= MaxIndex
      BY <1>1, <1>2, <2>2 DEF CliInv, Intact, isrChar
    <3>. QED BY <3>1 DEF Complete
  <2>. QED BY <1>1, <2>1, <2>2
<1>4. text \in Seq(Graph) /\ Len(text) \in Nat /\ Len(text) <= position
  <2>1. position >= 1 - 1 /\ (position + 1) - 1 = position
    BY <1>1
  <2>. QED BY <1>1, <1>3, <2>1, GraphicIsText
<1>5. index = Len(text)
  BY <1>1, <1>2, <1>3, <1>4
<1>6. Graphic(line, 1, position + 1) = IF c \in Graph THEN Append(text, c) ELSE text
  BY <1>1, <1>3, GraphicNext
<1>7. CASE c \notin Graph
  <2>1. text' = text /\ index' = index
    BY <1>7 DEF isrChar
  <2>. QED BY <1>5, <1>6, <1>7, <2>1
<1>8. CASE c \in Graph
  <2>1. /\ text' = Stored(text, index, c)
        /\ index' = IF index + 1 >= MaxIndex THEN 0 ELSE index + 1
    BY <1>8 DEF isrChar, Intact
  <2>. HIDE DEF c
  <2>2. text' = Append(text, c) /\ Len(text') = index + 1
    BY <1>1, <1>4, <1>5, <1>8, <2>1, Written DEF c
  <2>3. Graphic(line, 1, position + 1) = Append(text, c)
    BY <1>6, <1>8 DEF c
  <2>4. index \in Nat /\ index <= position
    BY <1>1, <1>4, <1>5
  <2>5. text' = Graphic(line, 1, position + 1)
    BY <2>2, <2>3, Zenon
  <2>6. index' = index + 1 \/ (index' = 0 /\ index + 1 = MaxIndex)
    BY <1>1, <1>2, <2>1, <2>4
  <2>. QED BY <2>2, <2>5, <2>6, Zenon
<1>. QED BY <1>7, <1>8

(* A character never touches what has been taken or is expected.              *)
LEMMA CharKeeps ==
  ASSUME CliInv, NEW line \in Lines, isrChar(line)
  PROVE  CliInv'
<1>1. /\ ready' = ready /\ cliPc' = cliPc /\ expected' = expected /\ handled' = handled
      /\ sending' = line /\ position' = position + 1 /\ position < Len(line) /\ raised' = raised
  BY DEF isrChar
<1>a. /\ raced' \in BOOLEAN
      /\ raced => raced'
      /\ Raising /\ ~raced' => text' = text
  BY DEF isrChar, CliInv, CliTypes
<1>b. Raising' = Raising
  BY <1>1 DEF Raising
<1>2. CliTypes'
  <2>1. position \in Nat /\ index \in Nat /\ MaxIndex \in Nat /\ Len(line) \in Nat
    BY CliAssumption DEF CliInv, CliTypes
  <2>2. index' \in Nat
    BY <2>1 DEF isrChar
  <2>3. position' \in Nat /\ position' # 0 /\ position' <= Len(line)
    BY <1>1, <2>1
  <2>. QED BY <1>1, <1>a, <2>2, <2>3 DEF CliTypes
<1>3. Awaited' /\ LinesNeverSpliced'
  BY <1>1, <1>a, <1>b DEF CliInv, CliTypes, Awaited, ExecutesWhatWasSent, LinesNeverSpliced
<1>c. BeingRaised'
  BY <1>1, <1>a DEF CliInv, CliTypes, BeingRaised, Raising
<1>4. ready => text' = text
  BY DEF isrChar
<1>5. (cliPc' = "idle" /\ ready' /\ ~raced') => OneLine(text')
  BY <1>1, <1>4, <1>a DEF CliInv
<1>6. (cliPc' = "idle" /\ ~ready') => Collected'
  BY <1>1, CharCollects
<1>7. lineStart' = "intact" => Complete'
  <2>1. lineStart' = "intact" => Intact
    BY DEF isrChar
  <2>. QED BY <2>1, CharCompletes
<1>8. IntactLineExecuted'
  BY <1>1, <1>4 DEF CliInv, Awaited, ExecutesWhatWasSent, IntactLineExecuted
<1>. QED BY <1>2, <1>3, <1>5, <1>6, <1>7, <1>8, <1>c DEF CliInv, ExecutesWhatWasSent

(* The end of a line in a free buffer makes it the buffer's line.             *)
LEMMA EndKeeps ==
  ASSUME CliInv, isrEndOfLine
  PROVE  CliInv'
<1>1. /\ ready' /\ index' = 0 /\ text' = text /\ cliPc' = cliPc /\ handled' = handled
      /\ sending' = <<>> /\ position' = 0 /\ lineStart' = "none"
      /\ sending # <<>> /\ position = Len(sending) /\ raised' = raised /\ raced' = raced
  BY DEF isrEndOfLine, notify, raising
<1>a. Raising' = Raising /\ BeingRaised'
  BY <1>1 DEF CliInv, Raising, BeingRaised
<1>2. position \in Nat /\ position # 0 /\ sending \in Lines
  BY <1>1 DEF CliInv, CliTypes
<1>3. CliTypes'
  BY <1>1 DEF CliInv, CliTypes
<1>4. (cliPc = "idle" /\ ~ready) => OneLine(text)
  <2>. SUFFICES ASSUME Collected PROVE OneLine(text)
    BY DEF CliInv
  <2>1. PICK i \in 1..(position + 1) : text = Graphic(sending, i, position)
    BY DEF Collected
  <2>2. CASE i \in 1..position
    BY <1>1, <1>2, <2>1, <2>2 DEF OneLine
  <2>3. CASE i = position + 1
    <3>1. position + 1 \in Nat /\ position + 1 > 0 /\ (position + 1) - 1 = position
      BY <1>2
    <3>2. Graphic(sending, position + 1, position) = <<>>
      BY <3>1, GraphicEmpty
    <3>. QED BY <2>1, <2>3, <3>2 DEF OneLine
  <2>. QED BY <1>2, <2>1, <2>2, <2>3
<1>5. cliPc' = "idle" /\ ~raced' => OneLine(text')
  BY <1>1, <1>4 DEF CliInv
<1>6. expected' = IF Intact /\ Len(sending) <= MaxIndex THEN Graphic(sending, 1, Len(sending))
                  ELSE IF ready THEN expected ELSE Anything
  BY DEF isrEndOfLine
<1>7. CASE Intact /\ Len(sending) <= MaxIndex
  <2>1. cliPc = "idle" /\ ~ready /\ Complete
    BY <1>2, <1>7 DEF CliInv, Intact
  <2>2. text' = expected'
    BY <1>1, <1>6, <1>7, <2>1 DEF Complete
  <2>3. Awaited'
    BY <1>1, <1>a, <2>1 DEF Awaited, Raising
  <2>. QED BY <1>1, <1>3, <1>5, <1>a, <2>1, <2>2, <2>3 DEF CliInv, ExecutesWhatWasSent, LinesNeverSpliced, IntactLineExecuted
<1>8. CASE ~(Intact /\ Len(sending) <= MaxIndex)
  <2>1. expected' = IF ready THEN expected ELSE Anything
    BY <1>6, <1>8
  <2>2. Awaited'
    BY <1>1, <1>a, <2>1 DEF CliInv, Awaited
  <2>. QED BY <1>1, <1>3, <1>5, <1>a, <2>1, <2>2 DEF CliInv, Awaited, ExecutesWhatWasSent, LinesNeverSpliced, IntactLineExecuted
<1>. QED BY <1>7, <1>8

LEMMA BlockKeeps ==
  ASSUME CliInv, NEW b \in Blocks, isrBlock(b)
  PROVE  CliInv'
<1>1. PICK s \in Whole(b) : text' = s /\ ~ready /\ expected' = IF cliPc = "idle" THEN s ELSE Anything
  BY DEF isrBlock, Whole
<1>2. /\ ready' /\ index' = 0 /\ cliPc' = cliPc /\ handled' = handled
      /\ sending' = sending /\ position' = position /\ raised' = raised
      /\ raced' = (raced \/ Raising)
      /\ lineStart' = IF position = 0 THEN lineStart ELSE "broken"
  BY DEF isrBlock, notify
<1>3. CliTypes' /\ Awaited' /\ BeingRaised'
  BY <1>1, <1>2 DEF CliInv, CliTypes, Awaited, BeingRaised, Raising
<1>4. OneLine(text')
  BY <1>1, <1>2 DEF OneLine
<1>5. lineStart' # "intact"
  BY <1>2 DEF CliInv, CliTypes, Complete
<1>6. LinesNeverSpliced' /\ IntactLineExecuted'
  BY <1>1, <1>2 DEF CliInv, Awaited, ExecutesWhatWasSent, LinesNeverSpliced, IntactLineExecuted
<1>. QED BY <1>2, <1>3, <1>4, <1>5, <1>6 DEF CliInv, ExecutesWhatWasSent

(* raise(): the command is the buffer's line unless the handler wrote there.  *)
LEMMA RaiseBegins ==
  ASSUME CliInv, NEW b \in Blocks, raise(b)
  PROVE  CliInv'
<1>1. /\ ~ready /\ cliPc = "idle" /\ cliPc' = "copy" /\ raised' = b
      /\ lineStart' = IF position = 0 THEN lineStart ELSE "broken"
      /\ text' = text /\ index' = index /\ ready' = ready /\ sending' = sending /\ position' = position
      /\ expected' = expected /\ handled' = handled /\ raced' = raced
  BY DEF raise
<1>2. CliTypes' /\ Awaited' /\ BeingRaised'
  BY <1>1 DEF CliInv, CliTypes, Awaited, BeingRaised, Raising
<1>3. lineStart' # "intact"
  BY <1>1 DEF CliInv, CliTypes, Complete
<1>. QED BY <1>1, <1>2, <1>3 DEF CliInv, Awaited, ExecutesWhatWasSent, LinesNeverSpliced, IntactLineExecuted

LEMMA RaiseKeeps ==
  ASSUME CliInv, RaiseCopy \/ RaiseFix \/ RaiseNotify
  PROVE  CliInv'
<1>1. lineStart # "intact" /\ Raising
  BY DEF CliInv, Complete, RaiseCopy, RaiseFix, RaiseNotify, Raising
<1>2. raised \in Blocks /\ expected = Anything
  BY <1>1 DEF CliInv, Awaited
<1>3. CASE RaiseCopy \/ RaiseFix
  <2>1. /\ cliPc' \in {"fix", "notify"} /\ raised' = raised /\ raced' = raced /\ lineStart' = lineStart
        /\ index' = index /\ ready' = ready /\ sending' = sending /\ position' = position
        /\ expected' = expected /\ handled' = handled
    BY <1>3 DEF RaiseCopy, RaiseFix, raising
  <2>2. BeingRaised'
    BY <1>3 DEF CliInv, BeingRaised, RaiseCopy, RaiseFix, raising
  <2>3. CliTypes' /\ Awaited'
    BY <1>2, <2>1 DEF CliInv, CliTypes, Awaited, Raising
  <2>. QED BY <1>1, <1>2, <2>1, <2>2, <2>3 DEF CliInv, ExecutesWhatWasSent, LinesNeverSpliced, IntactLineExecuted
<1>4. CASE RaiseNotify
  <2>1. /\ cliPc = "notify" /\ cliPc' = "idle" /\ ready' /\ index' = 0
        /\ expected' = IF raced THEN Anything ELSE inputFix(strcpy(raised, MaxIndex))
        /\ text' = text /\ sending' = sending /\ position' = position /\ lineStart' = lineStart
        /\ handled' = handled /\ raced' = raced
    BY <1>4 DEF RaiseNotify, notify
  <2>2. ~raced => text = inputFix(strcpy(raised, MaxIndex)) /\ OneLine(text)
    BY <1>2, <2>1 DEF CliInv, BeingRaised, OneLine, Whole
  <2>3. CliTypes' /\ Awaited' /\ BeingRaised'
    BY <2>1 DEF CliInv, CliTypes, Awaited, BeingRaised, Raising
  <2>4. (cliPc' = "idle" /\ ready' /\ ~raced') => OneLine(text')
    BY <2>1, <2>2
  <2>5. IntactLineExecuted'
    BY <2>1, <2>2 DEF IntactLineExecuted
  <2>. QED BY <1>1, <2>1, <2>3, <2>4, <2>5 DEF CliInv, ExecutesWhatWasSent, LinesNeverSpliced
<1>. QED BY <1>3, <1>4

(* What is taken out of the buffer is its line, as inputFix leaves it.        *)
LEMMA LineRuns ==
  ASSUME CliInv, RunLine
  PROVE  CliInv'
<1>1. /\ cliPc = "idle" /\ ready /\ cliPc' = "ready" /\ ready' = ready /\ handled' = inputFix(text)
      /\ index' = index /\ sending' = sending /\ position' = position /\ lineStart' = lineStart
      /\ expected' = expected /\ raced' = raced
  BY DEF RunLine, raising
<1>2. CliTypes' /\ Awaited' /\ BeingRaised'
  BY <1>1 DEF CliInv, CliTypes, Awaited, BeingRaised, Raising
<1>3. lineStart' # "intact"
  BY <1>1 DEF CliInv, Complete
<1>4. LinesNeverSpliced'
  <2>. SUFFICES ASSUME ~raced PROVE LinesNeverSpliced'
    BY <1>1 DEF LinesNeverSpliced
  <2>1. OneLine(text)
    BY <1>1 DEF CliInv
  <2>2. CASE text = <<>>
    BY <1>1, <2>2, NothingIsNothing DEF LinesNeverSpliced
  <2>3. CASE text # <<>>
    BY <1>1, <2>1, <2>3 DEF LinesNeverSpliced, OneLine
  <2>. QED BY <2>2, <2>3
<1>5. IntactLineExecuted'
  BY <1>1 DEF CliInv, ExecutesWhatWasSent, IntactLineExecuted
<1>. QED BY <1>1, <1>2, <1>3, <1>4, <1>5 DEF CliInv, ExecutesWhatWasSent

(* A line that ends while the buffer is being released is an empty one.       *)
LEMMA StorageFlushes ==
  ASSUME CliInv, FlushStorage
  PROVE  CliInv'
<1>1. /\ cliPc = "storage" /\ cliPc' = "idle" /\ text' = <<>> /\ handled' = <<>> /\ index' = index
      /\ ready' = ready /\ sending' = sending /\ position' = position /\ lineStart' = lineStart
      /\ expected' = expected /\ raced' = FALSE
  BY DEF FlushStorage
<1>2. CliTypes' /\ Awaited' /\ BeingRaised' /\ expected' = Anything
  BY <1>1 DEF CliInv, CliTypes, Awaited, BeingRaised, Raising
<1>3. lineStart' # "intact"
  BY <1>1 DEF CliInv, Complete
<1>4. Collected'
  <2>1. position \in Nat /\ position + 1 \in Nat /\ position + 1 > 0 /\ (position + 1) - 1 = position
        /\ position + 1 \in 1..(position + 1)
    BY DEF CliInv, CliTypes
  <2>2. Graphic(sending, position + 1, position) = <<>>
    BY <2>1, GraphicEmpty
  <2>. QED BY <1>1, <2>1, <2>2 DEF Collected
<1>5. OneLine(text')
  BY <1>1 DEF OneLine
<1>. QED BY <1>1, <1>2, <1>3, <1>4, <1>5 DEF CliInv, ExecutesWhatWasSent, LinesNeverSpliced, IntactLineExecuted

LEMMA CliStep == CliInv /\ [CliNext]_cliVars => CliInv'
<1>. SUFFICES ASSUME CliInv, [CliNext]_cliVars PROVE CliInv'
  OBVIOUS
<1>1. ASSUME NEW line \in Lines, isrChar(line) PROVE CliInv'
  BY <1>1, CharKeeps
<1>2. ASSUME NEW b \in Blocks, isrBlock(b) \/ raise(b) PROVE CliInv'
  BY <1>2, BlockKeeps, RaiseBegins
<1>9. CASE RaiseCopy \/ RaiseFix \/ RaiseNotify
  BY <1>9, RaiseKeeps
<1>3. CASE isrEndOfLine
  BY <1>3, EndKeeps
<1>4. CASE RunLine
  BY <1>4, LineRuns
<1>5. CASE FlushReady
  <2>1. /\ cliPc = "ready" /\ cliPc' = "index" /\ ~ready' /\ expected' = Anything /\ text' = text /\ index' = index
        /\ sending' = sending /\ position' = position /\ lineStart' = lineStart /\ handled' = handled
        /\ raced' = raced
    BY <1>5 DEF FlushReady, raising
  <2>2. lineStart' # "intact"
    BY <2>1 DEF CliInv, Complete
  <2>. QED BY <2>1, <2>2 DEF CliInv, CliTypes, Awaited, BeingRaised, Raising, ExecutesWhatWasSent, LinesNeverSpliced, IntactLineExecuted
<1>6. CASE FlushIndex
  <2>1. /\ cliPc = "index" /\ cliPc' = "storage" /\ index' = 0 /\ ready' = ready /\ expected' = expected /\ text' = text
        /\ sending' = sending /\ position' = position /\ lineStart' = lineStart /\ handled' = handled
        /\ raced' = raced
    BY <1>6 DEF FlushIndex, raising
  <2>2. lineStart' # "intact"
    BY <2>1 DEF CliInv, Complete
  <2>. QED BY <2>1, <2>2 DEF CliInv, CliTypes, Awaited, BeingRaised, Raising, ExecutesWhatWasSent, LinesNeverSpliced, IntactLineExecuted
<1>7. CASE FlushStorage
  BY <1>7, StorageFlushes
<1>8. CASE RunNothing \/ UNCHANGED cliVars
  <2>1. UNCHANGED <<text, index, ready, cliPc, sending, position, lineStart, expected, handled, raised, raced>>
    BY <1>8 DEF RunNothing, cliVars, raising
  <2>. QED BY <2>1 DEF CliInv, CliTypes, Awaited, BeingRaised, Raising, Collected, Complete, OneLine, Whole,
                       ExecutesWhatWasSent, LinesNeverSpliced, IntactLineExecuted
<1>. QED BY <1>1, <1>2, <1>3, <1>4, <1>5, <1>6, <1>7, <1>8, <1>9 DEF CliNext, CliTask

(* What is executed is what the peer sent: one block, or the end of a single  *)
(* line, and the whole of a line that found the buffer free, however the      *)
(* characters, the task and the release of the buffer interleave, but for a   *)
(* raise() during which the handler wrote to the buffer; for any lines,       *)
(* blocks and size of the buffer (cli.cpp 110-161, 234-252, 283-379).         *)
THEOREM ExecutesOnlyWhatWasSent == CliSpec => []ExecutesWhatWasSent
<1>1. CliInv => ExecutesWhatWasSent
  BY DEF CliInv
<1>. QED BY <1>1, CliStarts, CliStep, PTL DEF CliSpec
==============================================================================
