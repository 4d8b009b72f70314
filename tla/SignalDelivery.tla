--------------------------- MODULE SignalDelivery ---------------------------
(***************************************************************************)
(* How signals reach a state machine (src/src/fsm.cpp): sendSignal() from  *)
(* interrupt handlers and from callbacks, the signal queue, the exclusion  *)
(* variable signalNot, and the timeouts that run() turns into signals.     *)
(* The queue protects itself (module Queue): each call on it is one step.  *)
(* The exclusion variable is not protected, so the machine's accesses to   *)
(* it are steps of their own, which handlers may interrupt; a handler runs *)
(* to its end.  run() is called as the kernel does, with no signal.        *)
(***************************************************************************)
EXTENDS Naturals, Sequences, FiniteSets

CONSTANTS
  Timeouts,       \* number of timeouts, Q_FSM_MAX_TIMEOUTS
  Applications,   \* the uses made of the state machine, see below
  MaxSends        \* bound on the signals sent with data

Timeout == 1 .. Timeouts                 \* also the identifiers of their signals
SIGNAL_NONE == 0
USER == Timeouts + 1                     \* the user's signals, told apart by their data
PLAIN == Timeouts + 2                    \* a user's signal without data, sent any number of times
NoSignal == [id |-> SIGNAL_NONE, data |-> 0]    \* data 0 is the null pointer

(* An application: the length of its signal queue (0: none installed), who *)
(* sends, whether some sends are urgent, whether it uses timeouts, whether *)
(* it stops them, and whether the signals sent have no data.               *)
IsApplication(a) ==
  /\ a.queue \in Nat /\ a.senders \subseteq {"task", "handler"}
  /\ {a.urgent, a.timed, a.stops, a.plain} \subseteq BOOLEAN
  /\ a.timed => a.queue > 0
  /\ a.stops => a.timed

ASSUME DeliveryAssumption ==
  /\ Timeouts \in Nat /\ MaxSends \in Nat
  /\ \A a \in Applications : IsApplication(a)

VARIABLES
  pc, back,       \* where the machine's task stands, and where a call returns to
  sQueue,         \* the signal queue
  signalNot,      \* the exclusion variable
  xSignal,        \* the signal run() works on
  local,          \* the signal of the call in progress
  i, cnt,         \* loop counters
  timeout,        \* the timers of timeSpec
  isPeriodic,     \* timeSpec->isPeriodic
  sent,           \* signals sent with data so far, which number it
  accepted,       \* history: data of the signals accepted, in order
  delivered,      \* history: data of the signals delivered, in order
  overflow,       \* history: some send found the queue full
  silenced,       \* history: stopped, and not set since
  due,            \* history: expired, and not reported, set or stopped since
  app             \* the application, which never changes

machine == <<pc, back, xSignal, local, i, cnt>>
timers  == <<timeout, isPeriodic, silenced, due>>
log     == <<sent, accepted, delivered, overflow>>
deliveryVars    == <<machine, timers, log, sQueue, signalNot, app>>

DeliveryInit ==
  /\ app \in Applications
  /\ pc = "idle" /\ back = "idle" /\ xSignal = NoSignal /\ local = NoSignal
  /\ i = 1 /\ cnt = 0
  /\ sQueue = <<>> /\ signalNot = NoSignal
  /\ timeout = [t \in Timeout |-> "off"] /\ isPeriodic = [t \in Timeout |-> FALSE]
  /\ sent = 0 /\ accepted = <<>> /\ delivered = <<>> /\ overflow = FALSE
  /\ silenced = [t \in Timeout |-> FALSE] /\ due = [t \in Timeout |-> FALSE]

Accepted(x) == accepted' = IF x.id = USER THEN Append(accepted, x.data) ELSE accepted
Given(x) ==
  /\ xSignal' = x
  /\ delivered' = IF x.id = USER THEN Append(delivered, x.data) ELSE delivered
  /\ due' = IF x.id \in Timeout THEN [due EXCEPT ![x.id] = FALSE] ELSE due

(* What callbacks and handlers may send.                                   *)
Messages ==
  IF app.plain THEN {[id |-> PLAIN, data |-> 0]}
  ELSE IF sent < MaxSends THEN {[id |-> USER, data |-> sent + 1]} ELSE {}
Numbered(x) == sent' = IF x.id = USER THEN sent + 1 ELSE sent

-----------------------------------------------------------------------------
(* internalSignalSend() of the signal x, up to the exclusion variable.     *)

(* Mutant: the new signal comes first.                                     *)
QueuedFirst(x, urgent) == sQueue' = <<x>> \o sQueue

Room == Len(sQueue) < app.queue
Queued(x, urgent) == sQueue' = IF urgent THEN <<x>> \o sQueue ELSE Append(sQueue, x)

Enqueue(x, urgent) ==
  /\ Room
  /\ Queued(x, urgent) /\ Accepted(x)
  /\ UNCHANGED <<signalNot, overflow>>

Refused ==
  /\ ~Room /\ signalNot.id # SIGNAL_NONE
  /\ overflow' = TRUE
  /\ UNCHANGED <<sQueue, signalNot, accepted>>

Exclude(x) ==
  /\ ~Room /\ signalNot.id = SIGNAL_NONE
  /\ signalNot' = x /\ Accepted(x) /\ overflow' = TRUE
  /\ UNCHANGED sQueue

(* An interrupt handler sends: it is not interrupted by the machine.       *)
HandlerSend(urgent) ==
  /\ "handler" \in app.senders
  /\ \E x \in Messages : Numbered(x) /\ (Enqueue(x, urgent) \/ Refused \/ Exclude(x))
  /\ UNCHANGED <<machine, timers, delivered, app>>

(* The machine's own task sends: the exclusion variable found empty is     *)
(* written in a later step.                                                *)
TrySend(urgent) ==
  /\ pc = "send" /\ (urgent => local.id \notin Timeout)    \* timeouts are never urgent
  /\ \/ (Enqueue(local, urgent) \/ Refused) /\ pc' = back
     \/ /\ ~Room /\ signalNot.id = SIGNAL_NONE /\ pc' = "store"
        /\ overflow' = TRUE /\ UNCHANGED <<sQueue, signalNot, accepted>>
  /\ UNCHANGED <<back, xSignal, local, i, cnt, timers, sent, delivered, app>>

Store ==
  /\ pc = "store"
  /\ signalNot' = local /\ Accepted(local)
  /\ pc' = back
  /\ UNCHANGED <<back, xSignal, local, i, cnt, timers, sent, delivered, overflow, sQueue, app>>

-----------------------------------------------------------------------------
(* run(), up to the signal.                                                *)
Run ==
  /\ pc = "idle"
  /\ i' = 1
  /\ pc' = IF app.timed THEN "expire" ELSE "receive"
  /\ UNCHANGED <<back, xSignal, local, cnt, timers, log, sQueue, signalNot, app>>

(* Mutant: the last timeout is never looked at.                            *)
CheckExpiredShort ==
  /\ pc = "expire" /\ i <= Timeouts
  /\ IF timeout[i] = "expired" /\ i < Timeouts
       THEN pc' = "send" /\ back' = "restart" /\ local' = [id |-> i, data |-> 0] /\ UNCHANGED i
       ELSE i' = i + 1 /\ UNCHANGED <<pc, back, local>>
  /\ UNCHANGED <<xSignal, cnt, timers, log, sQueue, signalNot, app>>

(* timeoutCheckSignals(): an expired timeout is sent as a signal ...       *)
CheckExpired ==
  /\ pc = "expire" /\ i <= Timeouts
  /\ IF timeout[i] = "expired"
       THEN pc' = "send" /\ back' = "restart" /\ local' = [id |-> i, data |-> 0] /\ UNCHANGED i
       ELSE i' = i + 1 /\ UNCHANGED <<pc, back, local>>
  /\ UNCHANGED <<xSignal, cnt, timers, log, sQueue, signalNot, app>>

(* ... and its timer reloaded or disarmed, whether or not it was accepted. *)
RestartTimeout ==
  /\ pc = "restart"
  /\ timeout' = [timeout EXCEPT ![i] = IF isPeriodic[i] THEN "running" ELSE "off"]
  /\ i' = i + 1 /\ pc' = "expire"
  /\ UNCHANGED <<back, xSignal, local, cnt, isPeriodic, silenced, due, log, sQueue, signalNot, app>>

EndTimeouts ==
  /\ pc = "expire" /\ i > Timeouts
  /\ pc' = "receive"
  /\ UNCHANGED <<back, xSignal, local, i, cnt, timers, log, sQueue, signalNot, app>>

(* checkForSignals(): the front of the queue ...                           *)
Receive ==
  /\ pc = "receive"
  /\ IF sQueue # <<>>
       THEN Given(Head(sQueue)) /\ sQueue' = Tail(sQueue) /\ pc' = "callback"
       ELSE pc' = "exclusion" /\ UNCHANGED <<xSignal, delivered, due, sQueue>>
  /\ UNCHANGED <<back, local, i, cnt, timeout, isPeriodic, silenced,
                 sent, accepted, overflow, signalNot, app>>

(* Mutant: the exclusion variable is not emptied.                          *)
ExclusionKept ==
  /\ pc = "exclusion"
  /\ Given(signalNot) /\ pc' = "callback"
  /\ UNCHANGED <<signalNot, back, local, i, cnt, timeout, isPeriodic, silenced,
                 sent, accepted, overflow, sQueue, app>>

(* ... or else the exclusion variable: emptied first, ...                  *)
Exclusion ==
  /\ pc = "exclusion"
  /\ Given(signalNot)
  /\ signalNot' = [signalNot EXCEPT !.id = SIGNAL_NONE]
  /\ pc' = IF signalNot.id = SIGNAL_NONE THEN "callback" ELSE "clear"
  /\ UNCHANGED <<back, local, i, cnt, timeout, isPeriodic, silenced,
                 sent, accepted, overflow, sQueue, app>>

(* ... and its data cleared next.                                          *)
ClearData ==
  /\ pc = "clear"
  /\ signalNot' = [signalNot EXCEPT !.data = 0]
  /\ pc' = "callback"
  /\ UNCHANGED <<back, xSignal, local, i, cnt, timers, log, sQueue, app>>

-----------------------------------------------------------------------------
(* What callbacks do with the signal in hand.                              *)

CallSend ==
  /\ pc = "callback" /\ "task" \in app.senders
  /\ \E x \in Messages : Numbered(x) /\ local' = x
  /\ pc' = "send" /\ back' = "callback"
  /\ UNCHANGED <<xSignal, i, cnt, timers, accepted, delivered, overflow, sQueue, signalNot, app>>

(* A timer is set: by timeoutSet(), or on the entry to or exit from a      *)
(* state, which also decides whether it is periodic.                       *)
TimerSet(t) ==
  /\ pc = "callback" /\ app.timed
  /\ timeout' = [timeout EXCEPT ![t] = "running"]
  /\ silenced' = [silenced EXCEPT ![t] = FALSE]
  /\ due' = [due EXCEPT ![t] = FALSE]
  /\ UNCHANGED <<machine, log, sQueue, signalNot, app>>

TimeoutSet(t) == TimerSet(t) /\ UNCHANGED isPeriodic
SetByState(t, p) == TimerSet(t) /\ isPeriodic' = [isPeriodic EXCEPT ![t] = p]

(* Set with TIMEOUT_KEEP_IF_SET: the timer is left alone, running or not.  *)
KeepByState(t, p) ==
  /\ pc = "callback" /\ app.timed
  /\ isPeriodic' = [isPeriodic EXCEPT ![t] = p]
  /\ UNCHANGED <<machine, timeout, silenced, due, log, sQueue, signalNot, app>>

(* Reset on the entry to or exit from a state: its signal, if one waits in *)
(* the queue, stays there.                                                 *)
ResetByState(t) ==
  /\ pc = "callback" /\ app.timed
  /\ timeout' = [timeout EXCEPT ![t] = "off"]
  /\ due' = [due EXCEPT ![t] = FALSE]
  /\ UNCHANGED <<machine, isPeriodic, silenced, log, sQueue, signalNot, app>>

(* timeoutStop(): the queue is rotated once, and the signals of the        *)
(* timeout are left out.                                                   *)
TimeoutStop(t) ==
  /\ pc = "callback" /\ app.stops
  /\ i' = t /\ cnt' = Len(sQueue) /\ pc' = "rotate"
  /\ UNCHANGED <<back, xSignal, local, timers, log, sQueue, signalNot, app>>

(* Mutant: signals are compared with nothing and all are kept.             *)
RotateAll ==
  /\ pc = "rotate" /\ cnt > 0
  /\ cnt' = cnt - 1
  /\ sQueue' = Tail(sQueue) /\ local' = Head(sQueue) /\ pc' = "keep"
  /\ UNCHANGED <<back, xSignal, i, timers, log, signalNot, app>>

Rotate ==
  /\ pc = "rotate" /\ cnt > 0
  /\ cnt' = cnt - 1
  /\ sQueue' = Tail(sQueue) /\ local' = Head(sQueue)
  /\ pc' = IF local'.id = i THEN "rotate" ELSE "keep"
  /\ UNCHANGED <<back, xSignal, i, timers, log, signalNot, app>>

(* A signal to be kept goes to the back - unless a handler took its room.  *)
Keep ==
  /\ pc = "keep"
  /\ IF Room THEN sQueue' = Append(sQueue, local) /\ UNCHANGED overflow
             ELSE overflow' = TRUE /\ UNCHANGED sQueue
  /\ pc' = "rotate"
  /\ UNCHANGED <<back, xSignal, local, i, cnt, timers, sent, accepted, delivered, signalNot, app>>

EndStop ==
  /\ pc = "rotate" /\ cnt = 0
  /\ timeout' = [timeout EXCEPT ![i] = "off"]
  /\ silenced' = [silenced EXCEPT ![i] = TRUE]
  /\ due' = [due EXCEPT ![i] = FALSE]
  /\ pc' = "callback"
  /\ UNCHANGED <<back, xSignal, local, i, cnt, isPeriodic, log, sQueue, signalNot, app>>

(* The callbacks have returned, and so does run().                         *)
Return ==
  /\ pc = "callback"
  /\ pc' = "idle" /\ xSignal' = NoSignal /\ local' = NoSignal /\ back' = "idle" /\ i' = 1
  /\ UNCHANGED <<cnt, timers, log, sQueue, signalNot, app>>

(* The time of a running timer is over.                                    *)
TimerElapses(t) ==
  /\ timeout[t] = "running"
  /\ timeout' = [timeout EXCEPT ![t] = "expired"]
  /\ due' = [due EXCEPT ![t] = TRUE]
  /\ UNCHANGED <<machine, isPeriodic, silenced, log, sQueue, signalNot, app>>

Urgency == IF app.urgent THEN {TRUE, FALSE} ELSE {FALSE}

MachineStep ==
  \/ Run \/ CheckExpired \/ RestartTimeout \/ EndTimeouts
  \/ Receive \/ Exclusion \/ ClearData
  \/ \E u \in Urgency : TrySend(u)
  \/ Store \/ Rotate \/ Keep \/ EndStop

Callback ==
  \/ CallSend
  \/ \E t \in Timeout : \/ TimeoutSet(t) \/ ResetByState(t) \/ TimeoutStop(t)
                        \/ \E p \in BOOLEAN : SetByState(t, p) \/ KeepByState(t, p)

DeliveryNext ==
  \/ MachineStep \/ Callback \/ Return
  \/ \E u \in Urgency : HandlerSend(u)
  \/ \E t \in Timeout : TimerElapses(t)

(* The kernel calls run() again and again, and callbacks return even when  *)
(* they make calls.                                                        *)
DeliverySpec == DeliveryInit /\ [][DeliveryNext]_deliveryVars /\ WF_deliveryVars(MachineStep) /\ SF_deliveryVars(Return)

-----------------------------------------------------------------------------
signal_t == [id : 0 .. PLAIN, data : 0 .. MaxSends]

DeliveryTypeOK ==
  /\ pc \in {"idle", "expire", "send", "store", "restart", "receive", "exclusion", "clear",
             "callback", "rotate", "keep"}
  /\ back \in {"idle", "restart", "callback"}
  /\ sQueue \in Seq(signal_t) /\ Len(sQueue) <= app.queue
  /\ {signalNot, xSignal, local} \subseteq signal_t
  /\ i \in 1 .. Timeouts + 1 /\ cnt \in 0 .. app.queue
  /\ timeout \in [Timeout -> {"off", "running", "expired"}]
  /\ {isPeriodic, silenced, due} \subseteq [Timeout -> BOOLEAN]
  /\ sent \in 0 .. MaxSends /\ accepted \in Seq(1 .. MaxSends) /\ delivered \in Seq(0 .. MaxSends)
  /\ overflow \in BOOLEAN /\ app \in Applications

(* The signals that wait, the first to be delivered first - but for one in  *)
(* the hands of timeoutStop(), which puts it behind the others.            *)
Kept     == IF pc = "keep" THEN <<local>> ELSE <<>>
Excluded == IF signalNot.id = SIGNAL_NONE THEN <<>> ELSE <<signalNot>>
Waiting  == Kept \o sQueue \o Excluded
Users(q) == {k \in DOMAIN q : q[k].id = USER}
Elements(q) == {q[k] : k \in DOMAIN q}

(* The user's signals (fsm.cpp 253-287, 686-720).  Whoever sends and       *)
(* whatever overflows, none is delivered twice, and with the data of none  *)
(* that was not accepted or that still waits.  Without sending handlers    *)
(* whatever overflows and is stopped, and with them as long as nothing     *)
(* overflows, none is lost and none loses its data (0): each accepted one  *)
(* was delivered or waits.                                                 *)
WaitingData == {Waiting[k].data : k \in Users(Waiting)}
AcceptedKept ==
  /\ \A k, n \in DOMAIN delivered : delivered[k] = delivered[n] => k = n \/ delivered[k] = 0
  /\ \A k, n \in Users(Waiting) : Waiting[k].data = Waiting[n].data => k = n \/ Waiting[k].data = 0
  /\ (WaitingData \cup Elements(delivered)) \ {0} \subseteq Elements(accepted)
  /\ WaitingData \cap Elements(delivered) \subseteq {0}
  /\ ("handler" \in app.senders => ~overflow) =>
       Elements(accepted) = WaitingData \cup Elements(delivered)

(* Signals are delivered in the order in which they were accepted, which   *)
(* is the order they wait in (fsm.cpp 253-287, 686-720), as long as the    *)
(* queue never overflows, none is urgent, and no handler sends while       *)
(* timeouts are stopped.                                                   *)
DeliveredInOrder ==
  ~overflow /\ ~app.urgent /\ ~(app.stops /\ "handler" \in app.senders) =>
    /\ \A k \in DOMAIN delivered : k \in DOMAIN accepted /\ delivered[k] = accepted[k]
    /\ pc \notin {"rotate", "keep"} =>
         \A k, n \in Users(Waiting) : \A a, b \in DOMAIN accepted :
           k < n /\ accepted[a] = Waiting[k].data /\ accepted[b] = Waiting[n].data => a < b

(* A timeout that was stopped is not heard of until it is set again, even  *)
(* if it had expired and its signal was waiting (fsm.cpp 385-408) - unless *)
(* signals have overflowed into the exclusion variable, which              *)
(* timeoutStop() forgets, or a handler sends urgent ones, which shift the  *)
(* queue under it and leave its last signal unseen.                        *)
StoppedStaysSilent ==
  [][\A t \in Timeout : xSignal'.id = t /\ xSignal' # xSignal =>
       overflow \/ (app.urgent /\ "handler" \in app.senders) \/ ~silenced[t]]_deliveryVars

(* A timeout that expires is reported to the machine, if it is neither set *)
(* nor stopped again and signals have not overflowed (fsm.cpp 289-302):    *)
(* whatever number of signals is sent behind it.  Urgent ones go ahead of  *)
(* it (263), and for ever if callbacks never cease to send them.           *)
TimeoutReported ==
  \A t \in Timeout : due[t] /\ ~(app.urgent /\ app.plain) ~> ~due[t] \/ overflow
=============================================================================
