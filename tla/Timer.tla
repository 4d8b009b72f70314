-------------------------------- MODULE Timer --------------------------------
(***************************************************************************)
(* qOS::timer (src/src/timer.cpp) over the system tick (src/src/clock.cpp):*)
(* a start time and an interval, compared in unsigned arithmetic of W      *)
(* values.  The tick wraps round while timers run.  age is what a          *)
(* stopwatch would show: the ticks since the timer was last armed, counted *)
(* up to W, where the code can no longer tell them apart.                  *)
(***************************************************************************)
EXTENDS Integers

CONSTANT W              \* clock_t holds 0 .. W - 1

ASSUME ClockAssumption == W \in Nat /\ W > 1

VARIABLES tick,         \* clock::getTick()
          tStart, tv,   \* the timer; tv is 0 when it is disarmed
          call, ret,    \* the last call and what it returned
          age           \* history: ticks since it was armed

vars == <<tick, tStart, tv, call, ret, age>>

Clock == 0 .. W - 1

(* Unsigned subtraction of two clock values.                               *)
Minus(a, b) == IF a >= b THEN a - b ELSE a - b + W

armed == tv # 0

(* Mutant: start plus interval against the tick, which overflows.          *)
deadLineAbsolute == tick >= tStart + tv

deadLineCheck == Minus(tick, tStart) >= tv

expired == armed /\ deadLineCheck

elapsed == IF armed THEN Minus(tick, tStart) ELSE 0

(* REMAINING_IN_DISARMED_STATE is the largest clock value.                 *)
remaining == IF armed THEN Minus(tv, elapsed) ELSE W - 1

-----------------------------------------------------------------------------
Init ==
  /\ tick \in Clock
  /\ tStart = 0 /\ tv = 0 /\ call = "none" /\ ret = FALSE /\ age = 0

(* Mutant: the start time is not taken.                                    *)
RestartedLate == UNCHANGED tStart /\ age' = 0

(* reload(): the interval starts over now.                                 *)
Restarted == tStart' = tick /\ age' = 0

SysTick ==
  /\ tick' = (IF tick = W - 1 THEN 0 ELSE tick + 1)
  /\ age' = (IF age < W THEN age + 1 ELSE age)
  /\ UNCHANGED <<tStart, tv, call, ret>>

Returns(c, r) == call' = c /\ ret' = r

(* set(): a time of zero is refused and leaves the timer as it is.         *)
Set(t) ==
  /\ Returns("set", t > 0)
  /\ \/ t > 0 /\ Restarted /\ tv' = t
     \/ t = 0 /\ UNCHANGED <<tStart, tv, age>>
  /\ UNCHANGED tick

Disarmed ==
  /\ tv' = 0 /\ tStart' = 0 /\ Returns("disarm", FALSE)
  /\ UNCHANGED <<tick, age>>

(* operator=( t ): zero disarms.                                           *)
Assign(t) ==
  \/ t > 0 /\ Set(t)
  \/ t = 0 /\ Disarmed

Reload == Restarted /\ Returns("reload", FALSE) /\ UNCHANGED <<tick, tv>>

(* The check shared by both forms of reloadIfExpired().                    *)
CheckArmed ==
  /\ armed
  /\ Returns("poll", expired)
  /\ IF expired THEN Restarted ELSE UNCHANGED <<tStart, age>>
  /\ UNCHANGED <<tick, tv>>

ReloadIfExpired ==
  \/ CheckArmed
  \/ ~armed /\ Returns("poll", FALSE) /\ UNCHANGED <<tick, tStart, tv, age>>

ReloadIfExpiredOrArm(t) ==
  \/ CheckArmed
  \/ /\ ~armed /\ Returns("pollOrArm", FALSE)
     /\ IF t > 0 THEN Restarted /\ tv' = t ELSE UNCHANGED <<tStart, tv, age>>
     /\ UNCHANGED tick

Next ==
  \/ SysTick
  \/ \E t \in Clock : Set(t) \/ Assign(t) \/ ReloadIfExpiredOrArm(t)
  \/ Reload \/ ReloadIfExpired \/ Disarmed

Spec == Init /\ [][Next]_vars

-----------------------------------------------------------------------------
TypeOK ==
  /\ tick \in Clock /\ tStart \in Clock /\ tv \in Clock
  /\ call \in {"none", "set", "disarm", "reload", "poll", "pollOrArm"}
  /\ ret \in BOOLEAN /\ age \in 0 .. W

(* While the timer is armed the two clock values hold the stopwatch,       *)
(* wherever the tick has wrapped meanwhile.                                *)
ElapsedIsAge == armed /\ age < W => elapsed = age

(* A timer that is looked at within one turn of the clock expires exactly  *)
(* at its time, never early because the tick wrapped, never late, and      *)
(* until then remaining() is exactly what is left.                         *)
ExpiresOnTime ==
  armed /\ age < W => /\ expired <=> age >= tv
                      /\ age <= tv => remaining = tv - age

(* A poll answers yes exactly when a full interval has passed since the    *)
(* last time it did (or since the timer was armed), so no interval is      *)
(* reported twice and none that was polled in time is missed.              *)
FiresOncePerInterval ==
  [][call' = "poll" /\ armed /\ age < W /\ UNCHANGED tick
       => (ret' <=> age >= tv) /\ (ret' => age' = 0)]_vars
=============================================================================
