------------------------------- MODULE Input --------------------------------
(* Input watcher (input.hpp, input.cpp): each call of watch() reads the       *)
(* watched channels and tells their callbacks what happened.  The state       *)
(* function of a channel is the zone it names (low, high and, for an analog   *)
(* channel, band) and whether it is the steady one of that zone.  Channels    *)
(* with the same number share the value the first of them reads.              *)
EXTENDS Integers, Sequences, SequencesExt, FiniteSets

CONSTANTS Configs,            \* applications: channel -> the arguments of its constructor
          PinNumber,             \* channel -> the number (pin) it reads
          PinValues,          \* number -> what its reader may return
          DigitalReader, AnalogReader,   \* whether the watcher was given them
          Clocks, Width,      \* values of clock_t and of analogValue_t
          CountLimit,         \* values of the pulsation counter
          DebounceTime,
          Settings            \* <<channel, event, value>>: calls the application makes

(* Clocks and readings have more than one value; thresholds and hystereses    *)
(* are readings.  The code divides by the step: no program asks for 0.        *)
ASSUME InputAssumption ==
  /\ Clocks \in Nat \ {0} /\ Width \in Nat \ {0, 1} /\ CountLimit \in Nat \ {0}
  /\ \A k \in Configs : \A c \in DOMAIN k :
       /\ \/ Len(k[c]) = 1
          \/ \A i \in 1..3 : k[c][i] \in 0..(Width - 1)
       /\ PinValues[PinNumber[c]] \subseteq 0..(Width - 1)
  /\ \A s \in Settings :
       /\ s[2] \in {"HIGH_THRESHOLD", "LOW_THRESHOLD", "IN_BAND", "DELTA"} => s[3] \in 0..(Width - 1)
       /\ s[2] \in {"STEP_UP", "STEP_DOWN"} => s[3] \in 1..(Width - 1)

VARIABLES watchTick,          \* the system clock
          pins, conf, chan,
          ptrValue,           \* the channel whose value a channel reads: itself unless shared
          digitalChannels, analogChannels, debounceStart,
          events,             \* after a watch: what each polled channel was told; else empty
          stay                \* ticks since the zone was entered
inputVars == <<watchTick, pins, conf, chan, ptrValue, digitalChannels, analogChannels, debounceStart, events, stay>>

Less(a, b, n) == (a + n - b) % n     \* unsigned subtraction of n values
IsDigital(c) == conf[c].type = "digital"
Channel == DOMAIN conf
Watched == ToSet(digitalChannels) \cup ToSet(analogChannels)
isShared(c) == ptrValue[c] # c

(* The constructors: everything the application did not set is out of reach.  *)
Digital(negate) ==
  [type |-> "digital", negate |-> negate, pulsationInterval |-> 1,
   steady |-> [z \in {"low", "high"} |-> Clocks - 1]]
Analog(low, high, hysteresis) ==
  [type |-> "analog", low |-> low, high |-> high, hysteresis |-> hysteresis,
   delta |-> Width - 1, step |-> Width - 1,
   steady |-> [z \in {"low", "high", "band"} |-> Clocks - 1]]
Constructed(args) == IF Len(args) = 1 THEN Digital(args[1]) ELSE Analog(args[1], args[2], args[3])

InputInit ==
  /\ watchTick = 0 /\ (\E k \in Configs : conf = [c \in DOMAIN k |-> Constructed(k[c])])
  /\ pins = [n \in {PinNumber[c] : c \in Channel} |-> 0]
  /\ chan = [c \in Channel |-> [value |-> 0, zone |-> "low", steady |-> FALSE, tChange |-> 0,
                                count |-> 0, lastStep |-> 0, lastSampled |-> 0]]
  /\ ptrValue = [c \in Channel |-> c]
  /\ digitalChannels = <<>> /\ analogChannels = <<>> /\ debounceStart = -1
  /\ events = <<>> /\ stay = [c \in Channel |-> 0]

(* What a digital reader returns, through the negation of the channel.        *)
Sample(c) == IF conf[c].negate THEN 1 - pins[PinNumber[c]] ELSE pins[PinNumber[c]]

DigitalReading(s, c) == [s EXCEPT ![c].value = Sample(c)]

AnalogReading(s, c) ==
  [s EXCEPT ![c].value = IF isShared(c) THEN s[ptrValue[c]].value ELSE pins[PinNumber[c]]]

(* updateReading of an analog channel: one event for each step crossed, and   *)
(* on a sampling instant one for a difference of delta since the last one.    *)
updateReading(s, c, act) ==
  LET v == s[c].value
      now == v \div conf[c].step
      Distance(a, b) == IF a > b THEN a - b ELSE b - a
      crossed == Distance(now, s[c].lastStep)
  IN [ch |-> [s EXCEPT ![c].lastStep = now, ![c].lastSampled = IF act THEN v ELSE @],
      told |-> [i \in 1..crossed |-> IF now > s[c].lastStep THEN "STEP_UP" ELSE "STEP_DOWN"]
               \o (IF act /\ Distance(v, s[c].lastSampled) >= conf[c].delta THEN <<"DELTA">> ELSE <<>>)]

(* The zone of the next state function: the conditions on the value.          *)
NextZone(c, z, v) ==
  IF IsDigital(c) THEN IF v = 0 THEN "low" ELSE "high"
  ELSE CASE v > conf[c].high /\ z # "high" -> "high"
         [] v < conf[c].low /\ (z = "high" \/ (z = "band" /\ v <= conf[c].high)) -> "low"
         [] z = "low" /\ v <= conf[c].high /\ v > (conf[c].low + conf[c].hysteresis) % Width -> "band"
         [] z = "high" /\ v >= conf[c].low /\ v < Less(conf[c].high, conf[c].hysteresis, Width) -> "band"
         [] OTHER -> z

EventOf(c, z) ==
  CASE z = "high" -> IF IsDigital(c) THEN "RISING_EDGE" ELSE "HIGH_THRESHOLD"
    [] z = "low" -> IF IsDigital(c) THEN "FALLING_EDGE" ELSE "LOW_THRESHOLD"
    [] z = "band" -> "IN_BAND"
SteadyEvent(z) == CASE z = "high" -> "STEADY_IN_HIGH" [] z = "low" -> "STEADY_IN_LOW" [] z = "band" -> "STEADY_IN_BAND"

(* Pulsations: a short high counts when it ends, a long low clears; an edge   *)
(* out of a steady state does neither.                                        *)
Counted(d, z, short) ==
  CASE z = "low" /\ ~d.steady /\ short -> (d.count + 1) % CountLimit
    [] z = "high" /\ ~d.steady /\ ~short -> 0
    [] OTHER -> d.count
Pulsation(d, z, n) ==
  IF d.steady \/ z = "high" \/ n < 2 THEN <<>>
  ELSE <<IF n = 2 THEN "PULSATION_DOUBLE" ELSE IF n = 3 THEN "PULSATION_TRIPLE" ELSE "PULSATION_MULTI">>

(* Mutant: the steady state is entered as soon as the time is reached.        *)
ripeEarly(d, c) == ~d.steady /\ Less(watchTick, d.tChange, Clocks) >= conf[c].steady[d.zone]
ripe(d, c) == ~d.steady /\ Less(watchTick, d.tChange, Clocks) > conf[c].steady[d.zone]

(* One call of the state function of channel c.                               *)
evaluateState(s, c) ==
  LET d == s[c]
      z == NextZone(c, d.zone, d.value)
      n == IF IsDigital(c) THEN Counted(d, z, Less(watchTick, d.tChange, Clocks) <= conf[c].pulsationInterval)
                           ELSE 0
  IN CASE z # d.zone ->
            [ch |-> [s EXCEPT ![c].zone = z, ![c].steady = FALSE, ![c].tChange = watchTick, ![c].count = n],
             told |-> <<EventOf(c, z), "ON_CHANGE">> \o (IF IsDigital(c) THEN Pulsation(d, z, n) ELSE <<>>)]
       [] z = d.zone /\ ripe(d, c) ->
            [ch |-> [s EXCEPT ![c].steady = TRUE, ![c].tChange = watchTick], told |-> <<SteadyEvent(z)>>]
       [] OTHER -> [ch |-> s, told |-> <<>>]

isValidConfig(c) == IsDigital(c) \/ Less(conf[c].high, conf[c].low, Width) > conf[c].hysteresis
CanRead(c) == IF IsDigital(c) THEN DigitalReader ELSE AnalogReader /\ isValidConfig(c)

watchChannel(w, c, act) ==
  LET read == IF IsDigital(c) THEN [ch |-> DigitalReading(w.ch, c), told |-> <<>>]
                              ELSE updateReading(AnalogReading(w.ch, c), c, act)
      done == evaluateState(read.ch, c)
  IN IF CanRead(c) THEN [ch |-> done.ch, told |-> [w.told EXCEPT ![c] = read.told \o done.told]]
                   ELSE [w EXCEPT !.told[c] = <<"EXCEPTION">>]
-----------------------------------------------------------------------------
(* watch(): digital channels at the debounce instants, analog ones each time. *)
Watch ==
  LET act == debounceStart >= 0 /\ Less(watchTick, debounceStart, Clocks) >= DebounceTime
      polled == (IF act THEN digitalChannels ELSE <<>>) \o analogChannels
      after[i \in 0..Len(polled)] ==
        IF i = 0 THEN [ch |-> chan, told |-> [c \in Channel |-> <<>>]]
                 ELSE watchChannel(after[i - 1], polled[i], act)
      w == after[Len(polled)]
  IN /\ debounceStart' = IF act \/ debounceStart < 0 THEN watchTick ELSE debounceStart
     /\ chan' = w.ch /\ events' = [c \in ToSet(polled) |-> w.told[c]]
     /\ stay' = [c \in Channel |-> IF w.ch[c].zone # chan[c].zone THEN 0 ELSE stay[c]]
     /\ UNCHANGED <<watchTick, pins, conf, ptrValue, digitalChannels, analogChannels>>

(* Where the first channel of a list with that number is: 0 for nowhere.      *)
FirstOfNumber(list, n) == SelectInSeq(list, LAMBDA d : PinNumber[d] = n)

(* The first analog channel of the watcher that has c's number, if any.       *)
Sharer(c) ==
  LET i == FirstOfNumber(analogChannels, PinNumber[c])
  IN IF i = 0 THEN ptrValue[c] ELSE analogChannels[i]

StartZone(c) ==
  LET v == IF AnalogReader THEN pins[PinNumber[c]] ELSE 0
  IN CASE IsDigital(c) -> IF DigitalReader THEN IF Sample(c) = 0 THEN "low" ELSE "high"
                          ELSE IF conf[c].negate THEN "low" ELSE "high"
       [] ~IsDigital(c) /\ v > conf[c].high -> "high"
       [] ~IsDigital(c) /\ v <= conf[c].high /\ v < conf[c].low -> "low"
       [] OTHER -> "band"

(* add( c, callback ): an already watched channel starts over but is not      *)
(* inserted again.                                                            *)
Add(c) ==
  LET v == IF AnalogReader THEN pins[PinNumber[c]] ELSE 0
      started == [chan[c] EXCEPT !.zone = StartZone(c), !.steady = FALSE, !.tChange = watchTick]
  IN /\ IF IsDigital(c)
        THEN /\ chan' = [chan EXCEPT ![c] = started]
             /\ digitalChannels' = IF c \in Watched THEN digitalChannels ELSE Append(digitalChannels, c)
             /\ UNCHANGED <<analogChannels, ptrValue>>
        ELSE /\ chan' = [chan EXCEPT ![c] = [started EXCEPT !.lastSampled = v, !.lastStep = v \div conf[c].step]]
             /\ ptrValue' = [ptrValue EXCEPT ![c] = Sharer(c)]
             /\ analogChannels' = IF c \in Watched THEN analogChannels ELSE Append(analogChannels, c)
             /\ UNCHANGED digitalChannels
     /\ stay' = [stay EXCEPT ![c] = 0] /\ events' = <<>>
     /\ UNCHANGED <<watchTick, pins, conf, debounceStart>>

(* Mutant: the channels that shared the value of the removed one keep it.     *)
reshareNone(c, left) == [ptrValue EXCEPT ![c] = c]

(* The removed channel c reads its own value again, the other channels of     *)
(* that number the value of the first of them.                                *)
reshare(c, left) ==
  [d \in Channel |->
     IF d = c THEN c
     ELSE IF d \in ToSet(left) /\ PinNumber[d] = PinNumber[c] THEN left[FirstOfNumber(left, PinNumber[c])]
     ELSE ptrValue[d]]

RemoveChannel(c) ==
  /\ c \in Watched
  /\ digitalChannels' = RemoveFirst(digitalChannels, c)
  /\ analogChannels' = RemoveFirst(analogChannels, c)
  /\ ptrValue' = IF IsDigital(c) THEN [ptrValue EXCEPT ![c] = c] ELSE reshare(c, analogChannels')
  /\ events' = <<>>
  /\ UNCHANGED <<watchTick, pins, conf, chan, debounceStart, stay>>

ZoneNamed(e) == CASE e = "STEADY_IN_HIGH" -> "high" [] e = "STEADY_IN_LOW" -> "low" [] e = "STEADY_IN_BAND" -> "band"
                  [] OTHER -> "none"

(* setTime( e, t ): refused for 0 and for an event without a time.            *)
setTime(c, e, t) ==
  /\ t > 0
  /\ \/ /\ ZoneNamed(e) \in DOMAIN conf[c].steady
        /\ conf' = [conf EXCEPT ![c].steady[ZoneNamed(e)] = t]
     \/ /\ IsDigital(c) /\ e \in {"PULSATION_DOUBLE", "PULSATION_TRIPLE", "PULSATION_MULTI"}
        /\ conf' = [conf EXCEPT ![c].pulsationInterval = t]
  /\ events' = <<>>
  /\ UNCHANGED <<watchTick, pins, chan, ptrValue, digitalChannels, analogChannels, debounceStart, stay>>

Parameter == [HIGH_THRESHOLD |-> "high", LOW_THRESHOLD |-> "low", IN_BAND |-> "hysteresis",
              DELTA |-> "delta", STEP_UP |-> "step", STEP_DOWN |-> "step"]
setParameter(c, e, p) ==
  /\ ~IsDigital(c) /\ e \in DOMAIN Parameter
  /\ conf' = [conf EXCEPT ![c][Parameter[e]] = p] /\ events' = <<>>
  /\ UNCHANGED <<watchTick, pins, chan, ptrValue, digitalChannels, analogChannels, debounceStart, stay>>

(* The world: time passes, a pin changes.                                     *)
Tick ==
  /\ watchTick' = (watchTick + 1) % Clocks
  /\ stay' = [c \in Channel |-> IF c \in Watched /\ stay[c] < Clocks THEN stay[c] + 1 ELSE stay[c]]
  /\ events' = <<>>
  /\ UNCHANGED <<pins, conf, chan, ptrValue, digitalChannels, analogChannels, debounceStart>>
PinChanges(n, v) ==
  /\ v # pins[n]
  /\ pins' = [pins EXCEPT ![n] = v] /\ events' = <<>>
  /\ UNCHANGED <<watchTick, conf, chan, ptrValue, digitalChannels, analogChannels, debounceStart, stay>>

InputNext ==
  \/ Watch \/ Tick
  \/ \E n \in DOMAIN pins : \E v \in PinValues[n] : PinChanges(n, v)
  \/ \E c \in Channel : Add(c) \/ RemoveChannel(c)
  \/ \E s \in Settings : s[1] \in Channel /\ (setTime(s[1], s[2], s[3]) \/ setParameter(s[1], s[2], s[3]))

InputSpec == InputInit /\ [][InputNext]_inputVars
-----------------------------------------------------------------------------
(* Analog channels of one number read through the first of them the watcher   *)
(* polls, whatever was added and removed in any order: none reads through a   *)
(* channel that was removed, or through one polled after it (input.cpp        *)
(* 353-394).                                                                  *)
SharedReadsFirst ==
  \A i \in DOMAIN analogChannels :
    \E j \in 1..i :
      /\ ptrValue[analogChannels[i]] = analogChannels[j]
      /\ PinNumber[analogChannels[j]] = PinNumber[analogChannels[i]]
      /\ \A k \in 1..(j - 1) : PinNumber[analogChannels[k]] # PinNumber[analogChannels[i]]

Hears(c, e) == e \in ToSet(events'[c])
Zones == {"low", "high", "band"}

(* STEADY_IN_x is told once for each stay in a zone: when a watch finds the   *)
(* channel still in the zone after more than the time set, and not before,    *)
(* wherever the tick has wrapped (input.cpp 52-261).                          *)
SteadyAfterStay(c) ==
  \A z \in Zones :
    LET stays == chan'[c].zone = z /\ chan[c].zone = z /\ ~chan[c].steady
    IN /\ Hears(c, SteadyEvent(z)) => stays /\ (stay[c] >= Clocks \/ stay[c] > conf[c].steady[z])
       /\ (stays /\ stay[c] < Clocks /\ stay[c] > conf[c].steady[z]) => Hears(c, SteadyEvent(z))

(* A polled channel is in the zone its value asks for, told or not: a         *)
(* crossing is missed by no watch, up to the hysteresis, when the low         *)
(* threshold of an analog channel is below the high one (input.cpp 52-261).   *)
ZoneFitsValue(c) ==
  LET v == chan'[c].value
      z == chan'[c].zone
  IN /\ IsDigital(c) => (z = "high") = (v # 0)
     /\ (~IsDigital(c) /\ conf[c].low < conf[c].high) =>
          /\ z = "high" => v + conf[c].hysteresis >= conf[c].high
          /\ z = "low" => v <= conf[c].low + conf[c].hysteresis
          /\ z = "band" => v \in conf[c].low .. conf[c].high

(* The event of a zone, and ON_CHANGE, are told in the watch that enters the  *)
(* zone and in no other, and name what the value did: went over the high      *)
(* threshold, under the low one, or to a level (input.cpp 52-261).            *)
CrossingTold(c) ==
  LET v == chan'[c].value
      entered == chan'[c].zone # chan[c].zone
  IN /\ Hears(c, "ON_CHANGE") <=> entered
     /\ \A z \in Zones : Hears(c, EventOf(c, z)) <=> entered /\ chan'[c].zone = z
     /\ Hears(c, "HIGH_THRESHOLD") => v > conf[c].high
     /\ Hears(c, "LOW_THRESHOLD") => v < conf[c].low
     /\ Hears(c, "RISING_EDGE") => v # 0
     /\ Hears(c, "FALLING_EDGE") => v = 0

(* An analog channel is told of a step when its reading is on another step    *)
(* than the one before, up or down as it moved, and of a DELTA when a sample  *)
(* is that far from the sample before it (input.cpp 19-49).                   *)
MoveTold(c) ==
  LET d == chan[c]
      e == chan'[c]
      Distance(a, b) == IF a > b THEN a - b ELSE b - a
  IN IF IsDigital(c) THEN \A x \in {"STEP_UP", "STEP_DOWN", "DELTA"} : ~Hears(c, x)
     ELSE /\ e.lastStep = e.value \div conf[c].step
          /\ Hears(c, "STEP_UP") <=> e.lastStep > d.lastStep
          /\ Hears(c, "STEP_DOWN") <=> e.lastStep < d.lastStep
          /\ e.lastSampled # d.lastSampled => e.lastSampled = e.value
          /\ conf[c].delta > 0 => (Hears(c, "DELTA") <=> Distance(e.lastSampled, d.lastSampled) >= conf[c].delta)

(* What a watch tells a channel it polls, and what it does not tell it, is    *)
(* true of the channel: the steady events of the time spent in the zone, the  *)
(* edges and thresholds of the value, the steps and the delta of its moves.   *)
(* Of the pulsations nothing is said: README, section 7.                      *)
Truthful(c) == SteadyAfterStay(c) /\ ZoneFitsValue(c) /\ CrossingTold(c) /\ MoveTold(c)
EventsTruthful == [][\A c \in DOMAIN events' : ~Hears(c, "EXCEPTION") => Truthful(c)]_inputVars
=============================================================================
