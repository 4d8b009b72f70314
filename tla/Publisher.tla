------------------------------ MODULE Publisher ------------------------------
(* Signal publisher (fsm.cpp 16-150): a table of the signals somebody         *)
(* subscribed to and, row for row, their subscribers; a signal sent to the    *)
(* publisher is sent to each of them, and each takes it or, its queue and its *)
(* exclusion variable full, does not (module SignalDelivery).  subscribed     *)
(* remembers what the calls that returned true promised; lastSend is the      *)
(* last call of sendSignal, until the next call.                              *)
EXTENDS Integers, Sequences, SequencesExt, FiniteSets

CONSTANTS Machine, Signal,
          Reserved,               \* identifiers the library keeps for itself
          Q_FSM_PS_SIGNALS_MAX, Q_FSM_PS_SUB_PER_SIGNAL_MAX,
          NONE,                   \* SIGNAL_NONE, and the null pointer
          LeavesAnyRow            \* the last subscriber of any signal may leave

ASSUME PublisherAssumption ==
  /\ Q_FSM_PS_SIGNALS_MAX \in Nat \ {0} /\ Q_FSM_PS_SUB_PER_SIGNAL_MAX \in Nat \ {0}
  /\ NONE \notin Signal /\ NONE \notin Machine

VARIABLES psSignals, psSubs, subscribed, lastSend
publisherVars == <<psSignals, psSubs, subscribed, lastSend>>

SignalSlots == 0 .. (Q_FSM_PS_SIGNALS_MAX - 1)
NoCall == [sig |-> NONE, told |-> {}, taken |-> {}, result |-> FALSE]
SubSlots == 0 .. (Q_FSM_PS_SUB_PER_SIGNAL_MAX - 1)

PublisherInit ==    \* the constructor calls unsubscribeAll
  /\ psSignals = [i \in SignalSlots |-> NONE]
  /\ psSubs = [i \in SignalSlots |-> [j \in SubSlots |-> NONE]]
  /\ subscribed = [s \in Signal |-> {}]
  /\ lastSend = NoCall

FirstFrom(row, size, stops) ==    \* a scan that stops at one of stops, or past the end
  LET hits == {k \in 0 .. (size - 1) : row[k] \in stops}
  IN IF hits = {} THEN size ELSE CHOOSE k \in hits : \A j \in hits : k <= j

(* The slots of a signal and of a subscriber, or those they could take.       *)
getSubscriptionStatus(m, s) ==
  LET i == FirstFrom(psSignals, Q_FSM_PS_SIGNALS_MAX, {NONE, s})
      known == i < Q_FSM_PS_SIGNALS_MAX /\ psSignals[i] = s
      j == IF known THEN FirstFrom(psSubs[i], Q_FSM_PS_SUB_PER_SIGNAL_MAX, {NONE, m}) ELSE 0
      status == CASE i >= Q_FSM_PS_SIGNALS_MAX -> "signalSlotsFull"
                  [] j >= Q_FSM_PS_SUB_PER_SIGNAL_MAX -> "subscriberSlotsFull"
                  [] OTHER -> IF ~known THEN "signalNotFound"
                              ELSE IF psSubs[i][j] = m THEN "subscriberFound" ELSE "subscriberNotFound"
  IN [status |-> status, sig |-> i, sub |-> j]

subscribeToSignal(m, s) ==
  LET r == getSubscriptionStatus(m, s) IN
  /\ IF s \in Reserved \/ r.status \in {"signalSlotsFull", "subscriberSlotsFull"}
     THEN UNCHANGED <<psSignals, psSubs, subscribed>>
     ELSE /\ psSignals' = IF r.status = "signalNotFound" THEN [psSignals EXCEPT ![r.sig] = s] ELSE psSignals
          /\ psSubs' = IF r.status = "subscriberFound" THEN psSubs
                                                       ELSE [psSubs EXCEPT ![r.sig][r.sub] = m]
          /\ subscribed' = [subscribed EXCEPT ![s] = @ \cup {m}]
  /\ lastSend' = NoCall

(* Mutant: the subscribers behind the one that leaves are cut off.            *)
ShiftedNot(row, from, last) == [row EXCEPT ![from] = NONE]

Shifted(row, from, last) ==    \* the entries behind from move one slot down
  [k \in DOMAIN row |-> IF k < from THEN row[k] ELSE IF k < last THEN row[k + 1] ELSE NONE]

unsubscribeFromSignal(m, s) ==
  LET r == getSubscriptionStatus(m, s)
      row == Shifted(psSubs[r.sig], r.sub, Q_FSM_PS_SUB_PER_SIGNAL_MAX - 1)
  IN /\ IF s \in Reserved \/ r.status # "subscriberFound"
        THEN UNCHANGED <<psSignals, psSubs, subscribed>>
        ELSE /\ psSubs' = [psSubs EXCEPT ![r.sig] = row]
             /\ psSignals' = IF row[0] = NONE
                             THEN Shifted(psSignals, r.sig, Q_FSM_PS_SIGNALS_MAX - 1) ELSE psSignals
             /\ subscribed' = [subscribed EXCEPT ![s] = @ \ {m}]
     /\ lastSend' = NoCall

(* room: the machines that would take a signal now.                           *)
sendSignal(s, room) ==
  LET i == FirstFrom(psSignals, Q_FSM_PS_SIGNALS_MAX, {NONE, s})
      known == s \notin Reserved /\ i < Q_FSM_PS_SIGNALS_MAX /\ psSignals[i] = s
      used == IF known THEN FirstFrom(psSubs[i], Q_FSM_PS_SUB_PER_SIGNAL_MAX, {NONE}) ELSE 0
      told == {psSubs[i][j] : j \in 0..(used - 1)}
  IN /\ lastSend' = [sig |-> s, told |-> told, taken |-> told \cap room,
                     result |-> known /\ told \subseteq room]
     /\ UNCHANGED <<psSignals, psSubs, subscribed>>

MayLeave(m, s) ==
  \/ LeavesAnyRow \/ subscribed[s] # {m}
  \/ \A i \in SignalSlots \ {0} : psSignals[i] # NONE => psSignals[i - 1] # s

PublisherNext ==
  \/ \E m \in Machine, s \in Signal : subscribeToSignal(m, s)
  \/ \E m \in Machine, s \in Signal : MayLeave(m, s) /\ unsubscribeFromSignal(m, s)
  \/ \E s \in Signal, room \in SUBSET Machine : sendSignal(s, room)

PublisherSpec == PublisherInit /\ [][PublisherNext]_publisherVars
-----------------------------------------------------------------------------
(* A signal sent to the publisher is posted to every machine subscribed to it *)
(* and to no other, and true means that each of them has it, whatever was     *)
(* subscribed and left before (fsm.cpp 96-150; fsm.hpp 1104: "Sends a signal  *)
(* to all its subscribers").                                                  *)
SendTellsAllSubscribers ==
  lastSend # NoCall =>
    /\ lastSend.told = subscribed[lastSend.sig]
    /\ lastSend.result => lastSend.taken = subscribed[lastSend.sig]
=============================================================================
