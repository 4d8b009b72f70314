--------------------------- MODULE DeliveryProofs ----------------------------
(* Proofs about SignalDelivery, for any number of signals and timeouts, any   *)
(* length of the signal queue and any application.                            *)
EXTENDS SignalDelivery, TLAPS

(* Where the machine's task stands, and what it holds there.                  *)
Sending == pc \in {"send", "store"}
Reporting == pc = "restart" \/ (Sending /\ back = "restart")
Rotating == pc \in {"rotate", "keep"}
HasKept == pc = "keep" /\ local.id = USER
HasExcluded == signalNot.id = USER

DeliveryTypes ==
  /\ pc \in {"idle", "expire", "send", "store", "restart", "receive", "exclusion", "clear",
             "callback", "rotate", "keep"}
  /\ sQueue \in Seq(signal_t) /\ Len(sQueue) <= app.queue
  /\ signalNot \in signal_t /\ local \in signal_t
  /\ i \in Nat \ {0} /\ cnt \in Nat /\ cnt <= Len(sQueue)
  /\ timeout \in [Timeout -> {"off", "running", "expired"}]
  /\ silenced \in [Timeout -> BOOLEAN]
  /\ sent \in Nat /\ sent <= MaxSends
  /\ accepted \in Seq(1 .. MaxSends) /\ delivered \in Seq(0 .. MaxSends)
  /\ overflow \in BOOLEAN /\ app \in Applications

(* What each place leaves to the next.                                        *)
Places ==
  /\ Sending => /\ back \in {"restart", "callback"}
                /\ back = "restart" => local.id = i
                /\ back = "callback" => local.id \in {USER, PLAIN}
  /\ Reporting => i \in Timeout
  /\ Rotating => app.stops /\ i \in Timeout
  /\ ~Rotating => cnt = 0
  /\ pc = "store" => overflow

(* The exclusion variable is used when the queue has overflowed, and without  *)
(* sending handlers nobody but the machine's task writes it or takes room.    *)
Exclusive ==
  /\ ~overflow => signalNot.id = SIGNAL_NONE
  /\ "handler" \notin app.senders =>
       /\ pc \in {"clear", "store"} => signalNot.id = SIGNAL_NONE
       /\ pc = "keep" => Len(sQueue) < app.queue

(* A number is accepted once.                                                 *)
Fresh ==
  /\ \A a \in DOMAIN accepted : accepted[a] <= sent
  /\ \A a, b \in DOMAIN accepted : accepted[a] = accepted[b] => a = b
  /\ Sending /\ local.id = USER =>
       local.data \in 1 .. sent /\ \A a \in DOMAIN accepted : accepted[a] # local.data

Protected == "handler" \in app.senders => ~overflow
Held(d) == d # 0 => d \in Elements(accepted) /\ d \notin Elements(delivered)

(* An accepted signal is in one place at most, but for the data cleared in    *)
(* the exclusion variable; ...                                                *)
InPlace ==
  /\ \A k \in Users(sQueue) : Held(sQueue[k].data)
  /\ HasKept => Held(local.data)
  /\ HasExcluded => Held(signalNot.data)
  /\ \A k \in DOMAIN delivered : delivered[k] # 0 => delivered[k] \in Elements(accepted)
InOnePlace ==
  /\ \A k, n \in Users(sQueue) : sQueue[k].data = sQueue[n].data => k = n \/ sQueue[k].data = 0
  /\ HasKept => \A k \in Users(sQueue) : sQueue[k].data = local.data => local.data = 0
  /\ HasExcluded => \A k \in Users(sQueue) : sQueue[k].data = signalNot.data => signalNot.data = 0
  /\ HasKept /\ HasExcluded => (local.data = signalNot.data => local.data = 0)
  /\ \A k, n \in DOMAIN delivered : delivered[k] = delivered[n] => k = n \/ delivered[k] = 0

(* ... while handlers are not in the way, none is lost or loses its data.     *)
Intact ==
  /\ \A k \in Users(sQueue) : sQueue[k].data # 0
  /\ HasKept => local.data # 0
  /\ HasExcluded => signalNot.data # 0
  /\ \A k \in DOMAIN delivered : delivered[k] # 0
InSomePlace ==
  \A d \in Elements(accepted) :
    \/ d \in Elements(delivered)
    \/ \E k \in Users(sQueue) : sQueue[k].data = d
    \/ HasKept /\ local.data = d
    \/ HasExcluded /\ signalNot.data = d
Conserved == InPlace /\ InOnePlace /\ (Protected => Intact /\ InSomePlace)
Carried == (Intact => Intact') /\ (InSomePlace => InSomePlace')

(* timeoutStop() has cnt signals before it; the ones behind them, and the one *)
(* in its hands, come first again when it has ended.                          *)
Before(c, k, n) == IF (k > c) <=> (n > c) THEN k < n ELSE k > c
InOrder(acc, d, e) == \A a, b \in DOMAIN acc : acc[a] = d /\ acc[b] = e => a < b

InTurn == ~overflow /\ ~app.urgent /\ ~(app.stops /\ "handler" \in app.senders)
Ordered ==
  InTurn =>
    /\ \A k \in DOMAIN delivered : k \in DOMAIN accepted /\ delivered[k] = accepted[k]
    /\ \A k, n \in Users(sQueue) :
         Before(cnt, k, n) => InOrder(accepted, sQueue[k].data, sQueue[n].data)
    /\ HasKept => \A k \in Users(sQueue) :
         IF k > cnt THEN InOrder(accepted, sQueue[k].data, local.data)
                    ELSE InOrder(accepted, local.data, sQueue[k].data)

(* A stopped timeout is off, and none of its signals waits; while it is being *)
(* stopped, none is where timeoutStop() has been.                             *)
Undisturbed == ~overflow /\ ~(app.urgent /\ "handler" \in app.senders)
StoppedIsOff == \A t \in Timeout : silenced[t] => timeout[t] = "off" /\ ~(Reporting /\ i = t)
NoneWaits == \A t \in Timeout : silenced[t] => /\ \A k \in DOMAIN sQueue : sQueue[k].id # t
                                               /\ pc = "keep" => local.id # t
NonePassed == Rotating => /\ \A k \in DOMAIN sQueue : k > cnt => sQueue[k].id # i
                          /\ pc = "keep" => local.id # i
Silent == StoppedIsOff /\ (Undisturbed => NoneWaits /\ NonePassed)

DeliveryInv == DeliveryTypes /\ Places /\ Exclusive /\ Fresh /\ Conserved /\ Ordered /\ Silent

-----------------------------------------------------------------------------
(* The calls on a queue, place by place.                                      *)
LEMMA AppendFacts ==
  ASSUME NEW S, NEW q \in Seq(S), NEW x \in S, NEW r, r = Append(q, x)
  PROVE  /\ r \in Seq(S) /\ Len(r) = Len(q) + 1
         /\ DOMAIN r = 1 .. Len(q) + 1 /\ DOMAIN q = 1 .. Len(q) /\ Len(q) \in Nat
         /\ r[Len(q) + 1] = x /\ \A k \in DOMAIN q : r[k] = q[k]
OBVIOUS

LEMMA AppendElements ==
  ASSUME NEW S, NEW q \in Seq(S), NEW x \in S
  PROVE  Elements(Append(q, x)) = Elements(q) \cup {x}
<1>. DEFINE r == Append(q, x)
<1>1. /\ DOMAIN r = 1 .. Len(q) + 1 /\ DOMAIN q = 1 .. Len(q) /\ Len(q) \in Nat
      /\ r[Len(q) + 1] = x /\ \A k \in DOMAIN q : r[k] = q[k]
  BY AppendFacts
<1>2. \A k \in DOMAIN r : k = Len(q) + 1 \/ k \in DOMAIN q
  BY <1>1
<1>3. Len(q) + 1 \in DOMAIN r /\ \A k \in DOMAIN q : k \in DOMAIN r
  BY <1>1
<1>. HIDE DEF r
<1>4. Elements(r) = Elements(q) \cup {x}
  BY <1>1, <1>2, <1>3 DEF Elements
<1>. QED BY <1>4 DEF r

LEMMA FrontFacts ==
  ASSUME NEW S, NEW q \in Seq(S), NEW x \in S, NEW r, r = <<x>> \o q
  PROVE  /\ r \in Seq(S) /\ Len(r) = Len(q) + 1
         /\ DOMAIN r = 1 .. Len(q) + 1 /\ DOMAIN q = 1 .. Len(q) /\ Len(q) \in Nat
         /\ r[1] = x /\ \A k \in DOMAIN r \ {1} : k - 1 \in DOMAIN q /\ r[k] = q[k - 1]
OBVIOUS

LEMMA TailFacts ==
  ASSUME NEW S, NEW q \in Seq(S), q # <<>>, NEW r, r = Tail(q)
  PROVE  /\ r \in Seq(S) /\ Len(r) = Len(q) - 1
         /\ DOMAIN r = 1 .. Len(q) - 1 /\ DOMAIN q = 1 .. Len(q) /\ Len(q) \in Nat \ {0}
         /\ 1 \in DOMAIN q /\ Head(q) = q[1] /\ Head(q) \in S
         /\ \A k \in DOMAIN r : k + 1 \in DOMAIN q /\ r[k] = q[k + 1]
OBVIOUS

(* A signal put into the queue has a place of its own, the last unless it is  *)
(* urgent; the others keep their order.                                       *)
Old(k, p) == IF k < p THEN k ELSE k - 1

LEMMA QueuedFacts ==
  ASSUME sQueue \in Seq(signal_t), NEW x \in signal_t, NEW u, Queued(x, u)
  PROVE  /\ sQueue' \in Seq(signal_t) /\ Len(sQueue') = Len(sQueue) + 1
         /\ DOMAIN sQueue = 1 .. Len(sQueue) /\ DOMAIN sQueue' = 1 .. Len(sQueue) + 1
         /\ Len(sQueue) \in Nat
         /\ \E p \in DOMAIN sQueue' :
              /\ p = IF u THEN 1 ELSE Len(sQueue) + 1
              /\ sQueue'[p] = x
              /\ \A k \in DOMAIN sQueue' \ {p} :
                   Old(k, p) \in DOMAIN sQueue /\ sQueue'[k] = sQueue[Old(k, p)]
<1>1. CASE u
  <2>. DEFINE r == <<x>> \o sQueue
  <2>1. sQueue' = r
    BY <1>1 DEF Queued
  <2>2. /\ r \in Seq(signal_t) /\ Len(r) = Len(sQueue) + 1
        /\ DOMAIN r = 1 .. Len(sQueue) + 1 /\ DOMAIN sQueue = 1 .. Len(sQueue) /\ Len(sQueue) \in Nat
        /\ r[1] = x /\ \A k \in DOMAIN r \ {1} : k - 1 \in DOMAIN sQueue /\ r[k] = sQueue[k - 1]
    BY FrontFacts
  <2>. HIDE DEF r
  <2>3. 1 \in DOMAIN r /\ \A k \in DOMAIN r \ {1} : Old(k, 1) = k - 1
    BY <2>2 DEF Old
  <2>. QED BY <1>1, <2>1, <2>2, <2>3
<1>2. CASE ~u
  <2>. DEFINE r == Append(sQueue, x)
              p == Len(sQueue) + 1
  <2>1. sQueue' = r
    BY <1>2 DEF Queued
  <2>2. /\ r \in Seq(signal_t) /\ Len(r) = p
        /\ DOMAIN r = 1 .. p /\ DOMAIN sQueue = 1 .. Len(sQueue) /\ Len(sQueue) \in Nat
        /\ r[p] = x /\ \A k \in DOMAIN sQueue : r[k] = sQueue[k]
    BY AppendFacts
  <2>3. p \in DOMAIN r /\ \A k \in DOMAIN r \ {p} : Old(k, p) = k /\ k \in DOMAIN sQueue
    BY <2>2 DEF Old
  <2>. HIDE DEF r
  <2>. QED BY <1>2, <2>1, <2>2, <2>3
<1>. QED BY <1>1, <1>2

(* What is accepted.                                                          *)
LEMMA AcceptedFacts ==
  ASSUME accepted \in Seq(1 .. MaxSends), NEW x \in signal_t, x.id = USER => x.data \in 1 .. MaxSends,
         Accepted(x)
  PROVE  /\ accepted' \in Seq(1 .. MaxSends)
         /\ x.id # USER => accepted' = accepted
         /\ x.id = USER =>
              /\ DOMAIN accepted' = 1 .. Len(accepted) + 1 /\ DOMAIN accepted = 1 .. Len(accepted)
              /\ Len(accepted) \in Nat /\ accepted'[Len(accepted) + 1] = x.data
              /\ \A a \in DOMAIN accepted : accepted'[a] = accepted[a]
              /\ Elements(accepted') = Elements(accepted) \cup {x.data}
<1>1. CASE x.id = USER
  <2>1. PICK d \in 1 .. MaxSends : d = x.data
    BY <1>1
  <2>2. accepted' = Append(accepted, d)
    BY <1>1, <2>1 DEF Accepted
  <2>. DEFINE r == Append(accepted, d)
  <2>4. /\ r \in Seq(1 .. MaxSends) /\ Len(r) = Len(accepted) + 1
        /\ DOMAIN r = 1 .. Len(accepted) + 1 /\ DOMAIN accepted = 1 .. Len(accepted)
        /\ Len(accepted) \in Nat
        /\ r[Len(accepted) + 1] = d /\ \A k \in DOMAIN accepted : r[k] = accepted[k]
        /\ Elements(r) = Elements(accepted) \cup {d}
    <3>1. PICK D : D = 1 .. MaxSends
      OBVIOUS
    <3>2. accepted \in Seq(D) /\ d \in D
      BY <3>1
    <3>3. /\ r \in Seq(D) /\ Len(r) = Len(accepted) + 1
          /\ DOMAIN r = 1 .. Len(accepted) + 1 /\ DOMAIN accepted = 1 .. Len(accepted)
          /\ Len(accepted) \in Nat
          /\ r[Len(accepted) + 1] = d /\ \A k \in DOMAIN accepted : r[k] = accepted[k]
      BY <3>2, AppendFacts
    <3>4. Elements(r) = Elements(accepted) \cup {d}
      BY <3>2, AppendElements
    <3>. QED BY <3>1, <3>3, <3>4
  <2>5. Elements(accepted') = Elements(r)
    BY <2>2 DEF Elements
  <2>. HIDE DEF r
  <2>. QED BY <1>1, <2>1, <2>2, <2>4, <2>5
<1>2. CASE x.id # USER
  BY <1>2 DEF Accepted
<1>. QED BY <1>1, <1>2

-----------------------------------------------------------------------------
LEMMA SignalTypes ==
  /\ Timeouts \in Nat /\ MaxSends \in Nat /\ USER \in Nat /\ USER \notin Timeout /\ USER # SIGNAL_NONE
  /\ PLAIN \notin Timeout /\ PLAIN # SIGNAL_NONE /\ PLAIN # USER
  /\ [id |-> PLAIN, data |-> 0] \in signal_t
  /\ SIGNAL_NONE \notin Timeout /\ NoSignal \in signal_t
  /\ \A n \in Nat : n < MaxSends => [id |-> USER, data |-> n + 1] \in signal_t
  /\ \A t \in Timeout : [id |-> t, data |-> 0] \in signal_t
  /\ \A x \in signal_t : /\ x.id \in Nat /\ x.data \in 0 .. MaxSends
                         /\ [x EXCEPT !.id = SIGNAL_NONE] \in signal_t
                         /\ [x EXCEPT !.data = 0] \in signal_t
BY DeliveryAssumption DEF USER, PLAIN, SIGNAL_NONE, Timeout, NoSignal, signal_t

(* What a callback or a handler sends.                                        *)
LEMMA MessageFacts ==
  ASSUME sent \in Nat, sent <= MaxSends, NEW x \in Messages, Numbered(x)
  PROVE  /\ x \in signal_t /\ x.id \in {USER, PLAIN} /\ x.id \notin Timeout /\ x.id # SIGNAL_NONE
         /\ sent' \in Nat /\ sent <= sent' /\ sent' <= MaxSends
         /\ x.id = USER => x.data = sent + 1 /\ sent' = sent + 1 /\ x.data \in 1 .. MaxSends
         /\ x.id # USER => sent' = sent
<1>1. CASE app.plain
  BY <1>1, SignalTypes DEF Messages, Numbered
<1>2. CASE ~app.plain
  <2>1. sent < MaxSends /\ x = [id |-> USER, data |-> sent + 1]
    BY <1>2 DEF Messages
  <2>. QED BY <2>1, SignalTypes DEF Numbered
<1>. QED BY <1>1, <1>2

(* internalSignalSend() as far as the types go.                               *)
LEMMA SentTypes ==
  ASSUME DeliveryTypes, NEW x \in signal_t, NEW u, x.id = USER => x.data \in 1 .. MaxSends,
         Enqueue(x, u) \/ Refused \/ Exclude(x) \/ (signalNot' = x /\ Accepted(x) /\ UNCHANGED <<sQueue, overflow>>)
  PROVE  /\ sQueue' \in Seq(signal_t) /\ Len(sQueue') <= app.queue /\ Len(sQueue') >= Len(sQueue)
         /\ signalNot' \in signal_t /\ accepted' \in Seq(1 .. MaxSends) /\ overflow' \in BOOLEAN
<1>0. /\ sQueue \in Seq(signal_t) /\ Len(sQueue) <= app.queue /\ signalNot \in signal_t
      /\ accepted \in Seq(1 .. MaxSends) /\ overflow \in BOOLEAN /\ app \in Applications
  BY DEF DeliveryTypes
<1>1. CASE Enqueue(x, u)
  <2>1. Queued(x, u) /\ Accepted(x) /\ Len(sQueue) < app.queue /\ UNCHANGED <<signalNot, overflow>>
    BY <1>1 DEF Enqueue, Room
  <2>2. sQueue' \in Seq(signal_t) /\ Len(sQueue') = Len(sQueue) + 1 /\ Len(sQueue) \in Nat
    BY <1>0, <2>1, QueuedFacts
  <2>3. accepted' \in Seq(1 .. MaxSends)
    BY <1>0, <2>1, AcceptedFacts
  <2>4. app.queue \in Nat
    BY <1>0, DeliveryAssumption DEF IsApplication
  <2>. QED BY <1>0, <2>1, <2>2, <2>3, <2>4
<1>2. CASE Refused
  BY <1>0, <1>2 DEF Refused
<1>3. CASE Exclude(x)
  BY <1>0, <1>3, AcceptedFacts DEF Exclude
<1>4. CASE signalNot' = x /\ Accepted(x) /\ UNCHANGED <<sQueue, overflow>>
  BY <1>0, <1>4, AcceptedFacts
<1>. QED BY <1>1, <1>2, <1>3, <1>4

(* A signal that is given to a state.                                         *)
LEMMA GivenTypes ==
  ASSUME delivered \in Seq(0 .. MaxSends), NEW x \in signal_t, Given(x)
  PROVE  /\ delivered' \in Seq(0 .. MaxSends)
         /\ x.id # USER => delivered' = delivered
         /\ x.id = USER =>
              /\ DOMAIN delivered' = 1 .. Len(delivered) + 1 /\ DOMAIN delivered = 1 .. Len(delivered)
              /\ Len(delivered) \in Nat /\ delivered'[Len(delivered) + 1] = x.data
              /\ \A a \in DOMAIN delivered : delivered'[a] = delivered[a]
              /\ Elements(delivered') = Elements(delivered) \cup {x.data}
<1>1. CASE x.id = USER
  <2>1. PICK d \in 0 .. MaxSends : d = x.data
    BY SignalTypes
  <2>2. delivered' = Append(delivered, d)
    BY <1>1, <2>1 DEF Given
  <2>. DEFINE r == Append(delivered, d)
  <2>3. PICK D : D = 0 .. MaxSends
    OBVIOUS
  <2>4. delivered \in Seq(D) /\ d \in D
    BY <2>3
  <2>5. /\ r \in Seq(D) /\ Len(r) = Len(delivered) + 1
        /\ DOMAIN r = 1 .. Len(delivered) + 1 /\ DOMAIN delivered = 1 .. Len(delivered)
        /\ Len(delivered) \in Nat
        /\ r[Len(delivered) + 1] = d /\ \A k \in DOMAIN delivered : r[k] = delivered[k]
    BY <2>4, AppendFacts
  <2>6. Elements(r) = Elements(delivered) \cup {d}
    BY <2>4, AppendElements
  <2>7. Elements(delivered') = Elements(r)
    BY <2>2 DEF Elements
  <2>. HIDE DEF r
  <2>. QED BY <1>1, <2>1, <2>2, <2>3, <2>5, <2>6, <2>7 DEF r
<1>2. CASE x.id # USER
  BY <1>2 DEF Given
<1>. QED BY <1>1, <1>2

LEMMA TypesKept == ASSUME DeliveryInv, DeliveryNext PROVE DeliveryTypes' /\ app' = app
<1>. USE SignalTypes DEF DeliveryInv, DeliveryTypes, machine, timers, log
<1>1. CASE Run \/ CheckExpired \/ RestartTimeout \/ EndTimeouts
  <2>1. CASE Run
    BY <2>1 DEF Run
  <2>2. CASE CheckExpired
    <3>1. i \in Timeout /\ pc = "expire"
      BY <2>2 DEF CheckExpired, Timeout
    <3>2. /\ i' \in Nat \ {0} /\ local' \in signal_t /\ pc' \in {"expire", "send"}
          /\ UNCHANGED <<cnt, timers, log, sQueue, signalNot, app>>
      BY <2>2, <3>1 DEF CheckExpired
    <3>. QED BY <3>1, <3>2
  <2>3. CASE RestartTimeout
    <3>1. timeout' \in [Timeout -> {"off", "running", "expired"}]
      BY <2>3 DEF RestartTimeout
    <3>. QED BY <2>3, <3>1 DEF RestartTimeout
  <2>4. CASE EndTimeouts
    BY <2>4 DEF EndTimeouts
  <2>. QED BY <1>1, <2>1, <2>2, <2>3, <2>4
<1>2. CASE Receive
  <2>1. CASE sQueue = <<>>
    BY <1>2, <2>1 DEF Receive
  <2>2. CASE sQueue # <<>>
    <3>1. Given(Head(sQueue)) /\ sQueue' = Tail(sQueue) /\ pc' = "callback" /\ pc = "receive"
      BY <1>2, <2>2 DEF Receive
    <3>2. sQueue' \in Seq(signal_t) /\ Len(sQueue') <= Len(sQueue) /\ Head(sQueue) \in signal_t
      BY <2>2, <3>1
    <3>3. delivered' \in Seq(0 .. MaxSends)
      BY <3>1, <3>2, GivenTypes
    <3>4. cnt = 0
      BY <3>1 DEF Places, Rotating
    <3>5. Len(sQueue') <= app.queue
      BY <2>2, <3>1, DeliveryAssumption DEF IsApplication
    <3>. QED BY <1>2, <3>1, <3>2, <3>3, <3>4, <3>5 DEF Receive
  <2>. QED BY <2>1, <2>2
<1>3. CASE Exclusion \/ ClearData
  <2>1. delivered' \in Seq(0 .. MaxSends)
    BY <1>3, GivenTypes DEF Exclusion, ClearData
  <2>. QED BY <1>3, <2>1 DEF Exclusion, ClearData
<1>4. CASE \E u \in Urgency : TrySend(u)
  <2>1. PICK u \in Urgency : TrySend(u)
    BY <1>4
  <2>2. local.id = USER => local.data \in 1 .. MaxSends
    BY <2>1 DEF TrySend, Fresh, Sending
  <2>3. CASE Enqueue(local, u) \/ Refused
    <3>1. /\ sQueue' \in Seq(signal_t) /\ Len(sQueue') <= app.queue /\ Len(sQueue') >= Len(sQueue)
          /\ signalNot' \in signal_t /\ accepted' \in Seq(1 .. MaxSends) /\ overflow' \in BOOLEAN
      BY <2>2, <2>3, SentTypes
    <3>2. cnt' = 0 /\ pc' \in {back, "store"} /\ back \in {"restart", "callback"}
      BY <2>1 DEF TrySend, Places, Rotating, Sending
    <3>3. Len(sQueue') \in Nat
      BY <3>1
    <3>. QED BY <2>1, <3>1, <3>2, <3>3 DEF TrySend
  <2>4. CASE UNCHANGED <<sQueue, signalNot, accepted>> /\ pc' = "store" /\ overflow' = TRUE
    BY <2>1, <2>4 DEF TrySend
  <2>. QED BY <2>1, <2>3, <2>4 DEF TrySend
<1>5. CASE Store
  <2>1. local.id = USER => local.data \in 1 .. MaxSends
    BY <1>5 DEF Store, Fresh, Sending
  <2>2. signalNot' = local /\ Accepted(local) /\ UNCHANGED <<sQueue, overflow>>
    BY <1>5 DEF Store
  <2>3. accepted' \in Seq(1 .. MaxSends) /\ signalNot' \in signal_t
    BY <2>1, <2>2, SentTypes
  <2>4. pc' \in {"restart", "callback"}
    BY <1>5 DEF Store, Places, Sending
  <2>. QED BY <1>5, <2>2, <2>3, <2>4 DEF Store
<1>6. CASE Rotate
  <2>1. sQueue # <<>> /\ cnt > 0
    BY <1>6 DEF Rotate
  <2>2. PICK q : q = Tail(sQueue)
    OBVIOUS
  <2>3. q \in Seq(signal_t) /\ Len(q) = Len(sQueue) - 1 /\ Head(sQueue) \in signal_t
    BY <2>1, <2>2
  <2>4. /\ cnt' = cnt - 1 /\ sQueue' = q /\ local' = Head(sQueue) /\ pc' \in {"rotate", "keep"}
        /\ UNCHANGED <<i, timers, log, signalNot, app>>
    BY <1>6, <2>2 DEF Rotate
  <2>5. app.queue \in Nat
    BY DeliveryAssumption DEF IsApplication
  <2>. QED BY SMTT(30), <2>1, <2>3, <2>4, <2>5
<1>7. CASE Keep
  <2>1. CASE Room
    <3>1. PICK q : q = Append(sQueue, local)
      OBVIOUS
    <3>2. q \in Seq(signal_t) /\ Len(q) = Len(sQueue) + 1
      BY <3>1
    <3>3. sQueue' = q /\ pc' = "rotate" /\ UNCHANGED <<local, i, cnt, timers, log, signalNot, app>>
      BY <1>7, <2>1, <3>1 DEF Keep
    <3>4. app.queue \in Nat
      BY DeliveryAssumption DEF IsApplication
    <3>. QED BY <2>1, <3>2, <3>3, <3>4 DEF Room
  <2>2. CASE ~Room
    BY <1>7, <2>2 DEF Keep
  <2>. QED BY <2>1, <2>2
<1>8. CASE EndStop
  BY <1>8 DEF EndStop
<1>9. CASE CallSend
  <2>1. PICK x \in Messages : Numbered(x) /\ local' = x
    BY <1>9 DEF CallSend
  <2>2. x \in signal_t /\ sent' \in Nat /\ sent' <= MaxSends
    BY <2>1, MessageFacts
  <2>. QED BY <1>9, <2>1, <2>2 DEF CallSend
<1>10. CASE \E t \in Timeout : \/ TimeoutSet(t) \/ ResetByState(t) \/ TimeoutStop(t)
                               \/ \E p \in BOOLEAN : SetByState(t, p) \/ KeepByState(t, p)
  <2>1. PICK t \in Timeout : \/ TimeoutSet(t) \/ ResetByState(t) \/ TimeoutStop(t)
                             \/ \E p \in BOOLEAN : SetByState(t, p) \/ KeepByState(t, p)
    BY <1>10
  <2>2. Len(sQueue) \in Nat /\ t \in Nat \ {0}
    BY DEF Timeout
  <2>3. CASE TimeoutStop(t)
    BY <2>2, <2>3 DEF TimeoutStop
  <2>4. CASE TimeoutSet(t) \/ ResetByState(t) \/ \E p \in BOOLEAN : SetByState(t, p) \/ KeepByState(t, p)
    <3>1. /\ timeout' \in [Timeout -> {"off", "running", "expired"}]
          /\ silenced' \in [Timeout -> BOOLEAN]
          /\ UNCHANGED <<machine, log, sQueue, signalNot, app>>
      BY <2>4 DEF TimeoutSet, ResetByState, SetByState, KeepByState, TimerSet
    <3>. QED BY <3>1
  <2>. QED BY <2>1, <2>3, <2>4
<1>11. CASE Return
  BY <1>11 DEF Return
<1>12. CASE \E u \in Urgency : HandlerSend(u)
  <2>1. PICK u \in Urgency : HandlerSend(u)
    BY <1>12
  <2>2. PICK x \in Messages : Numbered(x) /\ (Enqueue(x, u) \/ Refused \/ Exclude(x))
    BY <2>1 DEF HandlerSend
  <2>3. /\ x \in signal_t /\ (x.id = USER => x.data \in 1 .. MaxSends)
        /\ sent' \in Nat /\ sent' <= MaxSends
    BY <2>2, MessageFacts
  <2>4. Enqueue(x, u) \/ Refused \/ Exclude(x)
    BY <2>2
  <2>5. /\ sQueue' \in Seq(signal_t) /\ Len(sQueue') <= app.queue /\ Len(sQueue') >= Len(sQueue)
        /\ signalNot' \in signal_t /\ accepted' \in Seq(1 .. MaxSends) /\ overflow' \in BOOLEAN
    BY <2>3, <2>4, SentTypes
  <2>6. Len(sQueue') \in Nat /\ Len(sQueue) \in Nat
    BY <2>5
  <2>. QED BY <2>1, <2>3, <2>5, <2>6 DEF HandlerSend
<1>13. CASE \E t \in Timeout : TimerElapses(t)
  BY <1>13 DEF TimerElapses
<1>. QED BY <1>1, <1>2, <1>3, <1>4, <1>5, <1>6, <1>7, <1>8, <1>9, <1>10, <1>11, <1>12, <1>13
         DEF DeliveryNext, MachineStep, Callback

(* What a step does, as far as the signals go.                                *)
LEMMA Moves ==
  ASSUME DeliveryInv, DeliveryNext
  PROVE  \/ Run \/ CheckExpired \/ RestartTimeout \/ EndTimeouts
         \/ Receive \/ Exclusion \/ ClearData
         \/ \E u \in Urgency : TrySend(u)
         \/ Store \/ Rotate \/ Keep \/ EndStop \/ CallSend
         \/ \E t \in Timeout : TimeoutSet(t) \/ ResetByState(t)
                               \/ \E p \in BOOLEAN : SetByState(t, p) \/ KeepByState(t, p)
         \/ \E t \in Timeout : TimeoutStop(t)
         \/ Return \/ (\E u \in Urgency : HandlerSend(u)) \/ \E t \in Timeout : TimerElapses(t)
BY DEF DeliveryNext, MachineStep, Callback

LEMMA PlacesKept == ASSUME DeliveryInv, DeliveryNext PROVE Places'
<1>. USE DEF DeliveryInv, Places, Sending, Reporting, Rotating, machine, timers, log
<1>1. CASE Run
  BY <1>1 DEF Run
<1>2. CASE CheckExpired
  <2>1. i \in Timeout
    BY <1>2 DEF CheckExpired, Timeout, DeliveryTypes
  <2>. QED BY <1>2, <2>1, SignalTypes DEF CheckExpired
<1>3. CASE RestartTimeout \/ EndTimeouts
  BY <1>3 DEF RestartTimeout, EndTimeouts
<1>4. CASE Receive
  BY <1>4 DEF Receive
<1>5. CASE Exclusion \/ ClearData
  BY <1>5 DEF Exclusion, ClearData
<1>6. CASE \E u \in Urgency : TrySend(u)
  BY <1>6 DEF TrySend
<1>7. CASE Store
  BY <1>7 DEF Store
<1>8. CASE Rotate \/ Keep \/ EndStop
  BY <1>8 DEF Rotate, Keep, EndStop
<1>9. CASE CallSend
  <2>1. PICK x \in Messages : Numbered(x) /\ local' = x
    BY <1>9 DEF CallSend
  <2>2. x.id \in {USER, PLAIN}
    BY <2>1, MessageFacts DEF DeliveryTypes
  <2>. QED BY <1>9, <2>1, <2>2 DEF CallSend
<1>10. CASE \E t \in Timeout : TimeoutSet(t) \/ ResetByState(t)
                               \/ \E p \in BOOLEAN : SetByState(t, p) \/ KeepByState(t, p)
  BY <1>10 DEF TimeoutSet, ResetByState, SetByState, KeepByState, TimerSet
<1>11. CASE \E t \in Timeout : TimeoutStop(t)
  BY <1>11 DEF TimeoutStop
<1>12. CASE Return
  BY <1>12 DEF Return
<1>13. CASE \E u \in Urgency : HandlerSend(u)
  <2>1. PICK u \in Urgency : HandlerSend(u)
    BY <1>13
  <2>2. overflow => overflow'
    BY <2>1 DEF HandlerSend, Enqueue, Refused, Exclude, DeliveryTypes
  <2>. QED BY <2>1, <2>2 DEF HandlerSend
<1>14. CASE \E t \in Timeout : TimerElapses(t)
  BY <1>14 DEF TimerElapses
<1>. QED BY Moves, <1>1, <1>2, <1>3, <1>4, <1>5, <1>6, <1>7, <1>8, <1>9, <1>10, <1>11, <1>12, <1>13, <1>14

LEMMA ExclusiveKept == ASSUME DeliveryInv, DeliveryNext PROVE Exclusive'
<1>. USE SignalTypes DEF DeliveryInv, Exclusive, machine, timers, log
<1>1. app' = app /\ Len(sQueue) <= app.queue /\ sQueue \in Seq(signal_t) /\ signalNot \in signal_t
      /\ app.queue \in Nat
  BY TypesKept, DeliveryAssumption DEF DeliveryTypes, IsApplication
<1>2. CASE Run \/ CheckExpired \/ RestartTimeout \/ EndTimeouts
  BY <1>1, <1>2 DEF Run, CheckExpired, RestartTimeout, EndTimeouts
<1>4. CASE Receive
  BY <1>1, <1>4 DEF Receive
<1>5. CASE Exclusion
  <2>1. signalNot'.id = SIGNAL_NONE
    BY <1>1, <1>5 DEF Exclusion, signal_t
  <2>. QED BY <1>1, <1>5, <2>1 DEF Exclusion
<1>6. CASE ClearData
  <2>1. signalNot'.id = signalNot.id
    BY <1>1, <1>6 DEF ClearData, signal_t
  <2>. QED BY <1>1, <1>6, <2>1 DEF ClearData
<1>7. CASE \E u \in Urgency : TrySend(u)
  <2>1. PICK u \in Urgency : TrySend(u)
    BY <1>7
  <2>2. back \in {"restart", "callback"} /\ pc = "send"
    BY <2>1 DEF Places, Sending, TrySend
  <2>3. CASE Enqueue(local, u) /\ pc' = back
    BY <1>1, <2>1, <2>2, <2>3 DEF Enqueue
  <2>4. CASE Refused /\ pc' = back
    BY <1>1, <2>1, <2>2, <2>4 DEF Refused
  <2>5. CASE signalNot.id = SIGNAL_NONE /\ pc' = "store" /\ overflow' = TRUE /\ UNCHANGED <<sQueue, signalNot>>
    BY <1>1, <2>5
  <2>. QED BY <2>1, <2>3, <2>4, <2>5 DEF TrySend
<1>8. CASE Store
  BY <1>1, <1>8 DEF Store, Places, Sending
<1>9. CASE Rotate
  <2>1. cnt > 0 /\ cnt <= Len(sQueue) /\ sQueue' = Tail(sQueue) /\ UNCHANGED <<overflow, signalNot>>
        /\ pc' \notin {"clear", "store"}
    BY <1>9 DEF Rotate, DeliveryTypes
  <2>2. Len(sQueue') < app.queue
    BY <1>1, <2>1 DEF DeliveryTypes
  <2>. QED BY <1>1, <2>1, <2>2
<1>10. CASE Keep
  BY <1>1, <1>10 DEF Keep
<1>11. CASE EndStop \/ CallSend \/ Return
  BY <1>1, <1>11 DEF EndStop, CallSend, Return
<1>12. CASE \E t \in Timeout : TimeoutSet(t) \/ ResetByState(t)
                               \/ \E p \in BOOLEAN : SetByState(t, p) \/ KeepByState(t, p)
  BY <1>1, <1>12 DEF TimeoutSet, ResetByState, SetByState, KeepByState, TimerSet
<1>13. CASE \E t \in Timeout : TimeoutStop(t)
  BY <1>1, <1>13 DEF TimeoutStop
<1>14. CASE \E u \in Urgency : HandlerSend(u)
  <2>1. PICK u \in Urgency : HandlerSend(u)
    BY <1>14
  <2>2. "handler" \in app'.senders
    BY <1>1, <2>1 DEF HandlerSend
  <2>3. ~overflow' => signalNot'.id = SIGNAL_NONE
    BY <2>1 DEF HandlerSend, Enqueue, Refused, Exclude
  <2>. QED BY <2>2, <2>3
<1>15. CASE \E t \in Timeout : TimerElapses(t)
  BY <1>1, <1>15 DEF TimerElapses
<1>. QED BY Moves, <1>2, <1>4, <1>5, <1>6, <1>7, <1>8, <1>9, <1>10, <1>11, <1>12, <1>13, <1>14, <1>15

LEMMA InSeq == ASSUME NEW S, NEW q \in Seq(S) PROVE \A k \in DOMAIN q : q[k] \in S
OBVIOUS

LEMMA AcceptedNumbers ==
  ASSUME accepted \in Seq(1 .. MaxSends)
  PROVE  \A a \in DOMAIN accepted : accepted[a] \in 1 .. MaxSends /\ accepted[a] \in Nat
<1>1. \A a \in DOMAIN accepted : accepted[a] \in 1 .. MaxSends
  BY InSeq
<1>. QED BY <1>1, SignalTypes

(* A signal is accepted, by its number.                                       *)
LEMMA FreshAccepted ==
  ASSUME DeliveryTypes, Fresh, NEW x \in signal_t, Accepted(x), sent' \in Nat, sent <= sent',
         x.id = USER => x.data \in 1 .. MaxSends /\ x.data <= sent' /\ \A a \in DOMAIN accepted : accepted[a] # x.data
  PROVE  /\ \A a \in DOMAIN accepted' : accepted'[a] <= sent'
         /\ \A a, b \in DOMAIN accepted' : accepted'[a] = accepted'[b] => a = b
         /\ \A a \in DOMAIN accepted' : (a \in DOMAIN accepted /\ accepted'[a] = accepted[a])
                                        \/ (x.id = USER /\ accepted'[a] = x.data)
<1>1. accepted \in Seq(1 .. MaxSends) /\ sent \in Nat /\ \A a \in DOMAIN accepted : accepted[a] \in Nat
  BY AcceptedNumbers DEF DeliveryTypes
<1>2. CASE x.id # USER
  BY <1>1, <1>2, AcceptedFacts DEF Fresh
<1>3. CASE x.id = USER
  <2>1. /\ DOMAIN accepted' = 1 .. Len(accepted) + 1 /\ DOMAIN accepted = 1 .. Len(accepted)
        /\ Len(accepted) \in Nat /\ accepted'[Len(accepted) + 1] = x.data
        /\ \A a \in DOMAIN accepted : accepted'[a] = accepted[a]
    BY <1>1, <1>3, AcceptedFacts
  <2>2. \A a \in DOMAIN accepted' : a \in DOMAIN accepted \/ a = Len(accepted) + 1
    BY <2>1
  <2>. QED BY SMTT(30), <1>1, <1>3, <2>1, <2>2 DEF Fresh
<1>. QED BY <1>2, <1>3

LEMMA FreshKept == ASSUME DeliveryInv, DeliveryNext PROVE Fresh'
<1>. USE DEF machine, timers, log
<1>0. /\ DeliveryTypes /\ Fresh /\ sent \in Nat /\ local \in signal_t
      /\ accepted \in Seq(1 .. MaxSends) /\ \A a \in DOMAIN accepted : accepted[a] \in Nat
      /\ sent <= MaxSends /\ MaxSends \in Nat
  BY AcceptedNumbers, SignalTypes DEF DeliveryInv, DeliveryTypes
<1>1. CASE UNCHANGED <<accepted, sent>> /\ (pc' \in {"send", "store"} => (UNCHANGED local /\ Sending) \/ local'.id # USER)
  BY <1>1, <1>0 DEF Fresh, Sending
<1>2. CASE \E u \in Urgency : TrySend(u)
  <2>1. PICK u \in Urgency : TrySend(u)
    BY <1>2
  <2>2. back \in {"restart", "callback"} /\ Sending
    BY <2>1 DEF DeliveryInv, Places, Sending, TrySend
  <2>3. CASE Enqueue(local, u) /\ pc' = back
    <3>1. Accepted(local) /\ sent' = sent /\ ~Sending'
      BY <2>1, <2>2, <2>3 DEF TrySend, Enqueue, Sending
    <3>2. local.id = USER => local.data \in 1 .. MaxSends /\ local.data <= sent
                             /\ \A a \in DOMAIN accepted : accepted[a] # local.data
      BY <1>0, <2>2 DEF Fresh, DeliveryTypes
    <3>. QED BY <1>0, <3>1, <3>2, FreshAccepted DEF Fresh
  <2>4. CASE UNCHANGED accepted
    BY <1>0, <2>1, <2>2, <2>4 DEF TrySend, Fresh, Sending
  <2>. QED BY <2>1, <2>3, <2>4 DEF TrySend, Refused
<1>3. CASE Store
  <2>1. back \in {"restart", "callback"} /\ Sending
    BY <1>3 DEF DeliveryInv, Places, Sending, Store
  <2>2. Accepted(local) /\ sent' = sent /\ ~Sending'
    BY <1>3, <2>1 DEF Store, Sending
  <2>3. local.id = USER => local.data \in 1 .. MaxSends /\ local.data <= sent
                           /\ \A a \in DOMAIN accepted : accepted[a] # local.data
    BY <1>0, <2>1 DEF Fresh, DeliveryTypes
  <2>. QED BY <1>0, <2>2, <2>3, FreshAccepted DEF Fresh
<1>4. CASE CallSend
  <2>1. PICK x \in Messages : Numbered(x) /\ local' = x
    BY <1>4 DEF CallSend
  <2>2. /\ sent' \in Nat /\ sent <= sent'
        /\ x.id = USER => x.data = sent + 1 /\ sent' = sent + 1
    BY <1>0, <2>1, MessageFacts
  <2>3. accepted' = accepted
    BY <1>4 DEF CallSend
  <2>. QED BY <1>0, <2>1, <2>2, <2>3 DEF Fresh
<1>5. CASE \E u \in Urgency : HandlerSend(u)
  <2>1. PICK u \in Urgency : HandlerSend(u)
    BY <1>5
  <2>2. PICK x \in Messages : Numbered(x) /\ (Enqueue(x, u) \/ Refused \/ Exclude(x))
    BY <2>1 DEF HandlerSend
  <2>3. /\ x \in signal_t /\ sent' \in Nat /\ sent <= sent'
        /\ x.id = USER => x.data = sent + 1 /\ sent' = sent + 1 /\ x.data \in 1 .. MaxSends
    BY <1>0, <2>2, MessageFacts
  <2>7. UNCHANGED <<pc, local>>
    BY <2>1 DEF HandlerSend
  <2>4. Accepted(x) \/ UNCHANGED accepted
    BY <2>2 DEF Enqueue, Refused, Exclude
  <2>5. CASE UNCHANGED accepted
    BY <1>0, <2>3, <2>7, <2>5 DEF Fresh, Sending
  <2>6. CASE Accepted(x)
    <3>0. x.id = USER => \A a \in DOMAIN accepted : accepted[a] # x.data
      BY <1>0, <2>3 DEF Fresh
    <3>1. /\ sent' \in Nat /\ sent <= sent'
          /\ x.id = USER => x.data \in 1 .. MaxSends /\ x.data <= sent'
                            /\ \A a \in DOMAIN accepted : accepted[a] # x.data
      BY <1>0, <2>3, <3>0
    <3>2. /\ \A a \in DOMAIN accepted' : accepted'[a] <= sent'
          /\ \A a, b \in DOMAIN accepted' : accepted'[a] = accepted'[b] => a = b
          /\ \A a \in DOMAIN accepted' : (a \in DOMAIN accepted /\ accepted'[a] = accepted[a])
                                         \/ (x.id = USER /\ accepted'[a] = x.data)
      BY <1>0, <2>3, <2>6, <3>1, FreshAccepted
    <3>. QED BY <1>0, <2>3, <2>7, <3>2 DEF Fresh, Sending
  <2>. QED BY <2>4, <2>5, <2>6
<1>6. CASE CheckExpired
  BY <1>1, <1>6, SignalTypes DEF CheckExpired, DeliveryInv, DeliveryTypes, Timeout, USER
<1>7. CASE Run \/ RestartTimeout \/ EndTimeouts \/ Receive \/ Exclusion \/ ClearData \/ Rotate \/ Keep
           \/ EndStop \/ Return
  BY <1>1, <1>7 DEF Run, RestartTimeout, EndTimeouts, Receive, Exclusion, ClearData, Rotate, Keep,
                    EndStop, Return
<1>8. CASE \E t \in Timeout : \/ TimeoutStop(t) \/ TimerElapses(t) \/ TimeoutSet(t) \/ ResetByState(t)
                              \/ \E p \in BOOLEAN : SetByState(t, p) \/ KeepByState(t, p)
  BY <1>1, <1>8 DEF TimeoutStop, TimerElapses, TimeoutSet, ResetByState, SetByState, KeepByState, TimerSet,
                    Sending
<1>. QED BY Moves, <1>2, <1>3, <1>4, <1>5, <1>6, <1>7, <1>8

-----------------------------------------------------------------------------
(* The places of the waiting signals, after each change of the queue.         *)
LEMMA UsersQueued ==
  ASSUME sQueue \in Seq(signal_t), NEW x \in signal_t, NEW u, Queued(x, u)
  PROVE  \E p \in DOMAIN sQueue' :
           /\ sQueue'[p] = x /\ (p \in Users(sQueue') <=> x.id = USER)
           /\ \A k \in Users(sQueue') \ {p} : /\ Old(k, p) \in Users(sQueue)
                                              /\ sQueue'[k] = sQueue[Old(k, p)]
           /\ \A k, n \in Users(sQueue') \ {p} : Old(k, p) = Old(n, p) => k = n
           /\ \A k \in Users(sQueue) : \E n \in Users(sQueue') : sQueue'[n] = sQueue[k]
<1>1. /\ DOMAIN sQueue = 1 .. Len(sQueue) /\ DOMAIN sQueue' = 1 .. Len(sQueue) + 1
      /\ Len(sQueue) \in Nat
      /\ \E p \in DOMAIN sQueue' :
           /\ p = IF u THEN 1 ELSE Len(sQueue) + 1
           /\ sQueue'[p] = x
           /\ \A k \in DOMAIN sQueue' \ {p} :
                Old(k, p) \in DOMAIN sQueue /\ sQueue'[k] = sQueue[Old(k, p)]
  BY QueuedFacts
<1>2. PICK p \in DOMAIN sQueue' :
        /\ sQueue'[p] = x
        /\ \A k \in DOMAIN sQueue' \ {p} :
             Old(k, p) \in DOMAIN sQueue /\ sQueue'[k] = sQueue[Old(k, p)]
  BY <1>1
<1>3. p \in Users(sQueue') <=> x.id = USER
  BY <1>2 DEF Users
<1>4. \A k \in Users(sQueue') \ {p} : Old(k, p) \in Users(sQueue) /\ sQueue'[k] = sQueue[Old(k, p)]
  BY <1>2 DEF Users
<1>5. \A k, n \in Users(sQueue') \ {p} : Old(k, p) = Old(n, p) => k = n
  BY <1>1 DEF Users, Old
<1>6. ASSUME NEW k \in Users(sQueue) PROVE \E n \in Users(sQueue') : sQueue'[n] = sQueue[k]
  <2>1. PICK n \in DOMAIN sQueue' \ {p} : Old(n, p) = k
    <3>1. CASE k < p
      <4>1. k \in DOMAIN sQueue' \ {p} /\ Old(k, p) = k
        BY <1>1, <3>1 DEF Users, Old
      <4>. QED BY <4>1
    <3>2. CASE ~(k < p)
      <4>1. k + 1 \in DOMAIN sQueue' \ {p} /\ Old(k + 1, p) = k
        BY <1>1, <3>2 DEF Users, Old
      <4>. QED BY <4>1
    <3>. QED BY <3>1, <3>2
  <2>. QED BY <1>2, <2>1 DEF Users
<1>. QED BY <1>2, <1>3, <1>4, <1>5, <1>6

LEMMA UsersTail ==
  ASSUME sQueue \in Seq(signal_t), sQueue # <<>>, sQueue' = Tail(sQueue)
  PROVE  /\ \A k \in Users(sQueue') : k + 1 \in Users(sQueue) /\ sQueue'[k] = sQueue[k + 1]
         /\ \A k \in Users(sQueue) : k = 1 \/ (k - 1 \in Users(sQueue') /\ sQueue'[k - 1] = sQueue[k])
         /\ 1 \in Users(sQueue) <=> Head(sQueue).id = USER
         /\ Head(sQueue) = sQueue[1] /\ Users(sQueue) \subseteq Nat \ {0} /\ Users(sQueue') \subseteq Nat \ {0}
<1>. DEFINE r == Tail(sQueue)
<1>1. /\ DOMAIN r = 1 .. Len(sQueue) - 1 /\ DOMAIN sQueue = 1 .. Len(sQueue) /\ Len(sQueue) \in Nat \ {0}
      /\ Head(sQueue) = sQueue[1]
      /\ \A k \in DOMAIN r : k + 1 \in DOMAIN sQueue /\ r[k] = sQueue[k + 1]
  BY TailFacts
<1>2. sQueue' = r
  OBVIOUS
<1>. HIDE DEF r
<1>. QED BY <1>1, <1>2 DEF Users

(* Nothing that waits moves.                                                  *)
LEMMA StillConserved ==
  ASSUME InPlace, InOnePlace, UNCHANGED <<sQueue, accepted, delivered>>,
         HasExcluded' <=> HasExcluded, HasExcluded => signalNot' = signalNot,
         HasKept' <=> HasKept, HasKept => local' = local
  PROVE  InPlace' /\ InOnePlace' /\ Carried
<1>1. InPlace'
  BY DEF InPlace, Held
<1>2. InOnePlace'
  BY DEF InOnePlace
<1>3. Carried
  BY DEF InSomePlace, Intact, Carried
<1>. QED BY <1>1, <1>2, <1>3

(* The data in the exclusion variable is cleared.                             *)
LEMMA ClearConserved ==
  ASSUME InPlace, InOnePlace, UNCHANGED <<sQueue, accepted, delivered>>,
         HasExcluded' <=> HasExcluded, signalNot'.data = 0, ~HasKept, ~HasKept'
  PROVE  InPlace' /\ InOnePlace'
<1>1. InPlace'
  BY DEF InPlace, Held
<1>2. InOnePlace'
  BY DEF InOnePlace
<1>. QED BY <1>1, <1>2

(* The signal in the hands of timeoutStop() finds no room.                    *)
LEMMA DropConserved ==
  ASSUME InPlace, InOnePlace, UNCHANGED <<sQueue, accepted, delivered, signalNot>>, ~HasKept'
  PROVE  InPlace' /\ InOnePlace'
<1>1. HasExcluded' <=> HasExcluded
  BY DEF HasExcluded
<1>2. InPlace'
  BY <1>1 DEF InPlace, Held
<1>3. InOnePlace'
  BY <1>1 DEF InOnePlace
<1>. QED BY <1>2, <1>3

(* A new signal is put into the queue.                                        *)
LEMMA EnqueueConserved ==
  ASSUME InPlace, InOnePlace, sQueue \in Seq(signal_t), accepted \in Seq(1 .. MaxSends),
         NEW x \in signal_t, NEW u, Queued(x, u), Accepted(x),
         x.id = USER => x.data \in 1 .. MaxSends /\ \A a \in DOMAIN accepted : accepted[a] # x.data,
         UNCHANGED <<delivered, signalNot>>, HasKept' <=> HasKept, HasKept => local' = local
  PROVE  InPlace' /\ InOnePlace' /\ Carried
<1>1. PICK p \in DOMAIN sQueue' :
        /\ sQueue'[p] = x /\ (p \in Users(sQueue') <=> x.id = USER)
        /\ \A k \in Users(sQueue') \ {p} : /\ Old(k, p) \in Users(sQueue)
                                           /\ sQueue'[k] = sQueue[Old(k, p)]
        /\ \A k, n \in Users(sQueue') \ {p} : Old(k, p) = Old(n, p) => k = n
        /\ \A k \in Users(sQueue) : \E n \in Users(sQueue') : sQueue'[n] = sQueue[k]
  BY UsersQueued
<1>2. /\ x.id # USER => accepted' = accepted
      /\ x.id = USER => Elements(accepted') = Elements(accepted) \cup {x.data}
  BY AcceptedFacts
<1>3. Elements(accepted) \subseteq Elements(accepted')
  BY <1>2
<1>4. x.id = USER => x.data \notin Elements(accepted) /\ x.data \in Elements(accepted')
  BY <1>2 DEF Elements
<1>5. Elements(delivered) \ {0} \subseteq Elements(accepted)
  BY DEF InPlace, Elements
<1>6. HasExcluded' <=> HasExcluded
  BY DEF HasExcluded
<1>7. Elements(delivered') = Elements(delivered)
  BY DEF Elements
<1>8. InPlace'
  BY <1>1, <1>3, <1>4, <1>5, <1>6, <1>7 DEF InPlace, Held
<1>9. InOnePlace'
  <2>1. \A k \in Users(sQueue) : sQueue[k].data # 0 => sQueue[k].data \in Elements(accepted)
    BY DEF InPlace, Held
  <2>2. /\ HasKept /\ local.data # 0 => local.data \in Elements(accepted)
        /\ HasExcluded /\ signalNot.data # 0 => signalNot.data \in Elements(accepted)
    BY DEF InPlace, Held
  <2>3. \A k, n \in Users(sQueue') : sQueue'[k].data = sQueue'[n].data => k = n \/ sQueue'[k].data = 0
    BY <1>1, <1>4, <2>1 DEF InOnePlace
  <2>4. /\ HasKept' => \A k \in Users(sQueue') : sQueue'[k].data = local'.data => local'.data = 0
        /\ HasExcluded' => \A k \in Users(sQueue') : sQueue'[k].data = signalNot'.data => signalNot'.data = 0
    BY <1>1, <1>4, <1>6, <2>2 DEF InOnePlace
  <2>. QED BY <1>6, <2>3, <2>4 DEF InOnePlace
<1>10. InSomePlace => InSomePlace'
  BY <1>1, <1>2, <1>6, <1>7 DEF InSomePlace
<1>11. Intact => Intact'
  BY <1>1, <1>6, SignalTypes DEF Intact
<1>. QED BY <1>8, <1>9, <1>10, <1>11 DEF Carried

(* A new signal is put into the exclusion variable.                           *)
LEMMA ExcludeConserved ==
  ASSUME InPlace, InOnePlace, accepted \in Seq(1 .. MaxSends),
         NEW x \in signal_t, Accepted(x), signalNot' = x,
         x.id = USER => x.data \in 1 .. MaxSends /\ \A a \in DOMAIN accepted : accepted[a] # x.data,
         UNCHANGED <<delivered, sQueue>>, HasKept' <=> HasKept, HasKept => local' = local
  PROVE  InPlace' /\ InOnePlace' /\ (~HasExcluded => Carried)
<1>2. /\ x.id # USER => accepted' = accepted
      /\ x.id = USER => Elements(accepted') = Elements(accepted) \cup {x.data}
  BY AcceptedFacts
<1>3. Elements(accepted) \subseteq Elements(accepted')
  BY <1>2
<1>4. x.id = USER => x.data \notin Elements(accepted) /\ x.data \in Elements(accepted')
  BY <1>2 DEF Elements
<1>5. Elements(delivered) \ {0} \subseteq Elements(accepted)
  BY DEF InPlace, Elements
<1>6. HasExcluded' <=> x.id = USER
  BY DEF HasExcluded
<1>7. Elements(delivered') = Elements(delivered)
  BY DEF Elements
<1>8. InPlace'
  BY <1>3, <1>4, <1>5, <1>6, <1>7 DEF InPlace, Held
<1>9. InOnePlace'
  <2>1. \A k \in Users(sQueue) : sQueue[k].data # 0 => sQueue[k].data \in Elements(accepted)
    BY DEF InPlace, Held
  <2>2. HasKept /\ local.data # 0 => local.data \in Elements(accepted)
    BY DEF InPlace, Held
  <2>. QED BY <1>4, <1>6, <2>1, <2>2 DEF InOnePlace
<1>10. ~HasExcluded /\ InSomePlace => InSomePlace'
  BY <1>2, <1>6, <1>7 DEF InSomePlace
<1>11. Intact => Intact'
  BY <1>6, SignalTypes DEF Intact
<1>. QED BY <1>8, <1>9, <1>10, <1>11 DEF Carried

(* The front of the queue is delivered.                                       *)
LEMMA ReceiveConserved ==
  ASSUME InPlace, InOnePlace, sQueue \in Seq(signal_t), sQueue # <<>>,
         delivered \in Seq(0 .. MaxSends), Given(Head(sQueue)), sQueue' = Tail(sQueue),
         UNCHANGED <<accepted, signalNot>>, ~HasKept, ~HasKept'
  PROVE  InPlace' /\ InOnePlace' /\ Carried
<1>0. /\ \A k \in Users(sQueue') : k + 1 \in Users(sQueue) /\ sQueue'[k] = sQueue[k + 1]
      /\ \A k \in Users(sQueue) : k = 1 \/ (k - 1 \in Users(sQueue') /\ sQueue'[k - 1] = sQueue[k])
      /\ 1 \in Users(sQueue) <=> Head(sQueue).id = USER
      /\ Head(sQueue) = sQueue[1] /\ Users(sQueue) \subseteq Nat \ {0} /\ Users(sQueue') \subseteq Nat \ {0}
  BY UsersTail
<1>. DEFINE x == sQueue[1]
<1>1. x \in signal_t /\ Given(x)
  BY <1>0, TailFacts
<1>2. /\ x.id # USER => delivered' = delivered
      /\ x.id = USER =>
           /\ DOMAIN delivered' = 1 .. Len(delivered) + 1 /\ DOMAIN delivered = 1 .. Len(delivered)
           /\ Len(delivered) \in Nat /\ delivered'[Len(delivered) + 1] = x.data
           /\ \A a \in DOMAIN delivered : delivered'[a] = delivered[a]
           /\ Elements(delivered') = Elements(delivered) \cup {x.data}
  BY <1>1, GivenTypes
<1>3. HasExcluded' <=> HasExcluded
  BY DEF HasExcluded
<1>4. Elements(accepted') = Elements(accepted)
  BY DEF Elements
<1>20. \A k, n \in Users(sQueue) : sQueue[k].data = sQueue[n].data => k = n \/ sQueue[k].data = 0
  BY DEF InOnePlace
<1>5. ASSUME NEW k \in Users(sQueue'), x.id = USER PROVE sQueue'[k].data = x.data => x.data = 0
  <2>1. k + 1 \in Users(sQueue) /\ 1 \in Users(sQueue) /\ k \in Nat \ {0} /\ sQueue'[k] = sQueue[k + 1]
    BY <1>0, <1>5
  <2>2. k + 1 # 1
    BY <2>1
  <2>. QED BY <1>20, <2>1, <2>2
<1>6. \A k \in DOMAIN delivered : delivered[k] \in Elements(delivered)
  BY DEF Elements
<1>. HIDE DEF x
<1>7. x.id = USER => Held(x.data)
  BY <1>0 DEF InPlace, x
<1>8. InPlace'
  <2>1. ASSUME NEW k \in Users(sQueue'), sQueue'[k].data # 0
        PROVE  sQueue'[k].data \notin Elements(delivered')
    <3>1. sQueue'[k].data \notin Elements(delivered)
      <4>1. Held(sQueue[k + 1].data) /\ sQueue'[k] = sQueue[k + 1]
        BY <1>0 DEF InPlace
      <4>. QED BY <2>1, <4>1 DEF Held
    <3>2. x.id = USER => sQueue'[k].data # x.data
      BY <1>5, <2>1
    <3>. QED BY <1>2, <3>1, <3>2
  <2>2. HasExcluded /\ signalNot.data # 0 => signalNot.data \notin Elements(delivered')
    BY <1>0, <1>2 DEF InPlace, InOnePlace, Held, x
  <2>3. \A k \in DOMAIN delivered' : delivered'[k] # 0 => delivered'[k] \in Elements(accepted)
    <3>1. CASE x.id # USER
      BY <1>2, <3>1 DEF InPlace
    <3>2. CASE x.id = USER
      <4>1. \A k \in DOMAIN delivered' : k \in DOMAIN delivered \/ k = Len(delivered) + 1
        BY <1>2, <3>2
      <4>. QED BY <1>2, <1>7, <3>2, <4>1 DEF InPlace, Held
    <3>. QED BY <3>1, <3>2
  <2>. QED BY ZenonT(60), <1>0, <1>3, <1>4, <2>1, <2>2, <2>3 DEF InPlace, Held
<1>9. InOnePlace'
  <2>1. \A k, n \in Users(sQueue') : sQueue'[k].data = sQueue'[n].data => k = n \/ sQueue'[k].data = 0
    <3>. SUFFICES ASSUME NEW k \in Users(sQueue'), NEW n \in Users(sQueue'), sQueue'[k].data = sQueue'[n].data,
                         sQueue'[k].data # 0
                  PROVE  k = n
      OBVIOUS
    <3>1. /\ k + 1 \in Users(sQueue) /\ n + 1 \in Users(sQueue) /\ k \in Nat /\ n \in Nat
          /\ sQueue'[k] = sQueue[k + 1] /\ sQueue'[n] = sQueue[n + 1]
      BY <1>0
    <3>2. k + 1 = n + 1
      BY <1>20, <3>1
    <3>. QED BY <3>1, <3>2
  <2>2. HasExcluded => \A k \in Users(sQueue') : sQueue'[k].data = signalNot.data => signalNot.data = 0
    <3>1. HasExcluded => \A k \in Users(sQueue) : sQueue[k].data = signalNot.data => signalNot.data = 0
      BY DEF InOnePlace
    <3>. QED BY <1>0, <3>1
  <2>3. \A k, n \in DOMAIN delivered' : delivered'[k] = delivered'[n] => k = n \/ delivered'[k] = 0
    <3>1. CASE x.id # USER
      BY <1>2, <3>1 DEF InOnePlace
    <3>2. CASE x.id = USER
      <4>1. \A k \in DOMAIN delivered' : k \in DOMAIN delivered \/ k = Len(delivered) + 1
        BY <1>2, <3>2
      <4>2. \A k \in DOMAIN delivered : delivered'[k] = x.data => x.data = 0
        BY <1>2, <1>6, <1>7, <3>2 DEF Held
      <4>. QED BY <1>2, <3>2, <4>1, <4>2 DEF InOnePlace
    <3>. QED BY <3>1, <3>2
  <2>. QED BY <1>3, <2>1, <2>2, <2>3 DEF InOnePlace
<1>10. ASSUME InSomePlace PROVE InSomePlace'
  <2>. SUFFICES ASSUME NEW d \in Elements(accepted), d \notin Elements(delivered')
                PROVE  \/ \E k \in Users(sQueue') : sQueue'[k].data = d
                       \/ HasExcluded' /\ signalNot'.data = d
    BY <1>4 DEF InSomePlace
  <2>1. d \notin Elements(delivered)
    BY <1>2
  <2>2. CASE HasExcluded /\ signalNot.data = d
    BY <1>3, <2>2
  <2>3. CASE \E k \in Users(sQueue) : sQueue[k].data = d
    <3>1. PICK k \in Users(sQueue) : sQueue[k].data = d
      BY <2>3
    <3>2. k # 1
      BY <1>0, <1>2, <3>1 DEF x
    <3>3. k - 1 \in Users(sQueue') /\ sQueue'[k - 1].data = d
      BY <1>0, <3>1, <3>2
    <3>. QED BY <3>3
  <2>. QED BY <1>10, <2>1, <2>2, <2>3 DEF InSomePlace
<1>11. ASSUME Intact PROVE Intact'
  <2>1. x.id = USER => x.data # 0
    BY <1>0, <1>11 DEF Intact, x
  <2>2. \A k \in DOMAIN delivered' : delivered'[k] # 0
    <3>1. CASE x.id # USER
      BY <1>2, <1>11, <3>1 DEF Intact
    <3>2. CASE x.id = USER
      <4>1. \A k \in DOMAIN delivered' : k \in DOMAIN delivered \/ k = Len(delivered) + 1
        BY <1>2, <3>2
      <4>. QED BY <1>2, <1>11, <2>1, <3>2, <4>1 DEF Intact
    <3>. QED BY <3>1, <3>2
  <2>. QED BY ZenonT(60), <1>0, <1>3, <1>11, <2>2 DEF Intact
<1>. QED BY <1>8, <1>9, <1>10, <1>11 DEF Carried

(* The exclusion variable is delivered.                                       *)
LEMMA ExclusionConserved ==
  ASSUME InPlace, InOnePlace, signalNot \in signal_t, HasExcluded, ~HasExcluded',
         delivered \in Seq(0 .. MaxSends), Given(signalNot),
         UNCHANGED <<accepted, sQueue>>, ~HasKept, ~HasKept'
  PROVE  InPlace' /\ InOnePlace' /\ Carried
<1>1. PICK x \in signal_t : x = signalNot
  OBVIOUS
<1>2. /\ DOMAIN delivered' = 1 .. Len(delivered) + 1 /\ DOMAIN delivered = 1 .. Len(delivered)
      /\ Len(delivered) \in Nat /\ delivered'[Len(delivered) + 1] = x.data
      /\ \A a \in DOMAIN delivered : delivered'[a] = delivered[a]
      /\ Elements(delivered') = Elements(delivered) \cup {x.data}
  BY <1>1, GivenTypes DEF HasExcluded
<1>3. \A k \in DOMAIN delivered' : k \in DOMAIN delivered \/ k = Len(delivered) + 1
  BY <1>2
<1>4. Elements(accepted') = Elements(accepted)
  BY DEF Elements
<1>5. Held(x.data) /\ \A k \in Users(sQueue) : sQueue[k].data = x.data => x.data = 0
  BY <1>1 DEF InPlace, InOnePlace
<1>6. \A k \in DOMAIN delivered : delivered'[k] = x.data => x.data = 0
  BY <1>2, <1>5 DEF Held, Elements
<1>7. InPlace'
  BY <1>2, <1>3, <1>4, <1>5 DEF InPlace, Held
<1>8. InOnePlace'
  BY <1>2, <1>3, <1>6 DEF InOnePlace
<1>9. InSomePlace => InSomePlace'
  BY <1>1, <1>2, <1>4 DEF InSomePlace
<1>10. Intact => Intact'
  BY <1>1, <1>2, <1>3 DEF Intact
<1>. QED BY <1>7, <1>8, <1>9, <1>10 DEF Carried

(* timeoutStop() takes a signal out of the queue and keeps it, or it is not a *)
(* user's, ...                                                                *)
LEMMA RotateConserved ==
  ASSUME InPlace, InOnePlace, sQueue \in Seq(signal_t), sQueue # <<>>,
         sQueue' = Tail(sQueue), local' = Head(sQueue), HasKept' <=> local'.id = USER,
         UNCHANGED <<accepted, delivered, signalNot>>, ~HasKept
  PROVE  InPlace' /\ InOnePlace' /\ Carried
<1>0. /\ \A k \in Users(sQueue') : k + 1 \in Users(sQueue) /\ sQueue'[k] = sQueue[k + 1]
      /\ \A k \in Users(sQueue) : k = 1 \/ (k - 1 \in Users(sQueue') /\ sQueue'[k - 1] = sQueue[k])
      /\ 1 \in Users(sQueue) <=> Head(sQueue).id = USER
      /\ Head(sQueue) = sQueue[1] /\ Users(sQueue) \subseteq Nat \ {0} /\ Users(sQueue') \subseteq Nat \ {0}
  BY UsersTail
<1>1. HasExcluded' <=> HasExcluded
  BY DEF HasExcluded
<1>2. Elements(accepted') = Elements(accepted) /\ Elements(delivered') = Elements(delivered)
  BY DEF Elements
<1>3. local' = sQueue[1] /\ (HasKept' <=> 1 \in Users(sQueue))
  BY <1>0
<1>20. \A k, n \in Users(sQueue) : sQueue[k].data = sQueue[n].data => k = n \/ sQueue[k].data = 0
  BY DEF InOnePlace
<1>4. InPlace'
  BY <1>0, <1>1, <1>2, <1>3 DEF InPlace, Held
<1>5. InOnePlace'
  <2>1. \A k, n \in Users(sQueue') : sQueue'[k].data = sQueue'[n].data => k = n \/ sQueue'[k].data = 0
    <3>. SUFFICES ASSUME NEW k \in Users(sQueue'), NEW n \in Users(sQueue'), sQueue'[k].data = sQueue'[n].data,
                         sQueue'[k].data # 0
                  PROVE  k = n
      OBVIOUS
    <3>1. /\ k + 1 \in Users(sQueue) /\ n + 1 \in Users(sQueue) /\ k \in Nat /\ n \in Nat
          /\ sQueue'[k] = sQueue[k + 1] /\ sQueue'[n] = sQueue[n + 1]
      BY <1>0
    <3>2. k + 1 = n + 1
      BY <1>20, <3>1
    <3>. QED BY <3>1, <3>2
  <2>2. HasExcluded => \A k \in Users(sQueue) : sQueue[k].data = signalNot.data => signalNot.data = 0
    BY DEF InOnePlace
  <2>3. /\ HasExcluded' => \A k \in Users(sQueue') : sQueue'[k].data = signalNot'.data => signalNot'.data = 0
        /\ HasKept' /\ HasExcluded' => (local'.data = signalNot'.data => local'.data = 0)
    <3>1. ASSUME HasExcluded', NEW k \in Users(sQueue'), sQueue'[k].data = signalNot'.data
          PROVE  signalNot'.data = 0
      <4>1. k + 1 \in Users(sQueue) /\ sQueue[k + 1].data = signalNot.data
        BY <1>0, <3>1
      <4>. QED BY <1>1, <2>2, <3>1, <4>1
    <3>2. ASSUME HasKept', HasExcluded', local'.data = signalNot'.data
          PROVE  local'.data = 0
      <4>1. 1 \in Users(sQueue) /\ sQueue[1].data = signalNot.data
        BY <1>3, <3>2
      <4>. QED BY <1>1, <2>2, <3>2, <4>1
    <3>. QED BY <3>1, <3>2
  <2>4. ASSUME NEW k \in Users(sQueue'), HasKept' PROVE sQueue'[k].data = local'.data => local'.data = 0
    <3>1. k + 1 \in Users(sQueue) /\ 1 \in Users(sQueue) /\ k \in Nat \ {0} /\ sQueue'[k] = sQueue[k + 1]
      BY <1>0, <1>3, <2>4
    <3>2. k + 1 # 1
      BY <3>1
    <3>. QED BY <1>3, <1>20, <3>1, <3>2
  <2>5. \A k, n \in DOMAIN delivered' : delivered'[k] = delivered'[n] => k = n \/ delivered'[k] = 0
    BY DEF InOnePlace
  <2>. QED BY <2>1, <2>3, <2>4, <2>5 DEF InOnePlace
<1>6. ASSUME InSomePlace PROVE InSomePlace'
  <2>. SUFFICES ASSUME NEW d \in Elements(accepted), d \notin Elements(delivered)
                PROVE  \/ \E k \in Users(sQueue') : sQueue'[k].data = d
                       \/ HasKept' /\ local'.data = d
                       \/ HasExcluded' /\ signalNot'.data = d
    BY <1>2 DEF InSomePlace
  <2>1. CASE HasExcluded /\ signalNot.data = d
    BY <1>1, <2>1
  <2>2. CASE \E k \in Users(sQueue) : sQueue[k].data = d
    <3>1. PICK k \in Users(sQueue) : sQueue[k].data = d
      BY <2>2
    <3>2. CASE k = 1
      BY <1>3, <3>1, <3>2
    <3>3. CASE k # 1
      <4>1. k - 1 \in Users(sQueue') /\ sQueue'[k - 1].data = d
        BY <1>0, <3>1, <3>3
      <4>. QED BY <4>1
    <3>. QED BY <3>2, <3>3
  <2>. QED BY <1>6, <2>1, <2>2 DEF InSomePlace
<1>7. Intact => Intact'
  BY ZenonT(60), <1>0, <1>1, <1>3 DEF Intact
<1>. QED BY <1>4, <1>5, <1>6, <1>7 DEF Carried

(* ... and puts what it keeps behind the others.                              *)
LEMMA KeepConserved ==
  ASSUME InPlace, InOnePlace, sQueue \in Seq(signal_t), local \in signal_t,
         sQueue' = Append(sQueue, local), HasKept <=> local.id = USER, ~HasKept',
         UNCHANGED <<accepted, delivered, signalNot>>
  PROVE  InPlace' /\ InOnePlace' /\ Carried
<1>0. PICK x \in signal_t : x = local
  OBVIOUS
<1>1. PICK p \in DOMAIN sQueue' :
        /\ sQueue'[p] = x /\ (p \in Users(sQueue') <=> x.id = USER)
        /\ \A k \in Users(sQueue') \ {p} : /\ Old(k, p) \in Users(sQueue)
                                           /\ sQueue'[k] = sQueue[Old(k, p)]
        /\ \A k, n \in Users(sQueue') \ {p} : Old(k, p) = Old(n, p) => k = n
        /\ \A k \in Users(sQueue) : \E n \in Users(sQueue') : sQueue'[n] = sQueue[k]
  <2>1. Queued(x, FALSE)
    BY <1>0 DEF Queued
  <2>. QED BY <2>1, UsersQueued
<1>2. HasExcluded' <=> HasExcluded
  BY DEF HasExcluded
<1>3. Elements(accepted') = Elements(accepted) /\ Elements(delivered') = Elements(delivered)
  BY DEF Elements
<1>4. InPlace'
  <2>1. x.id = USER => Held(x.data)
    BY <1>0 DEF InPlace
  <2>2. ASSUME NEW k \in Users(sQueue') PROVE Held(sQueue'[k].data)
    <3>1. CASE k = p
      BY <1>1, <2>1, <3>1
    <3>2. CASE k # p
      <4>1. Old(k, p) \in Users(sQueue) /\ sQueue'[k] = sQueue[Old(k, p)]
        BY <1>1, <3>2
      <4>. QED BY <4>1 DEF InPlace
    <3>. QED BY <3>1, <3>2
  <2>. QED BY <1>2, <1>3, <2>2 DEF InPlace, Held
<1>5. InOnePlace'
  <2>1. \A k, n \in Users(sQueue) : sQueue[k].data = sQueue[n].data => k = n \/ sQueue[k].data = 0
    BY DEF InOnePlace
  <2>2. /\ x.id = USER => \A k \in Users(sQueue) : sQueue[k].data = x.data => x.data = 0
        /\ HasExcluded => \A k \in Users(sQueue) : sQueue[k].data = signalNot.data => signalNot.data = 0
        /\ x.id = USER /\ HasExcluded => (x.data = signalNot.data => x.data = 0)
    BY <1>0 DEF InOnePlace
  <2>6. ASSUME NEW k \in Users(sQueue') \ {p}
        PROVE  /\ Old(k, p) \in Users(sQueue) /\ sQueue'[k] = sQueue[Old(k, p)]
               /\ x.id = USER => (sQueue'[k].data = x.data => x.data = 0)
    <3>1. Old(k, p) \in Users(sQueue) /\ sQueue'[k] = sQueue[Old(k, p)]
      BY <1>1
    <3>. QED BY <2>2, <3>1
  <2>3. ASSUME NEW k \in Users(sQueue'), NEW n \in Users(sQueue'), sQueue'[k].data = sQueue'[n].data
        PROVE  k = n \/ sQueue'[k].data = 0
    <3>1. CASE k # p /\ n # p
      <4>1. Old(k, p) = Old(n, p) \/ sQueue'[k].data = 0
        BY ZenonT(60), <2>1, <2>3, <2>6, <3>1
      <4>. QED BY <1>1, <3>1, <4>1
    <3>2. CASE k = p \/ n = p
      BY <1>1, <2>3, <2>6, <3>2
    <3>. QED BY <3>1, <3>2
  <2>4. HasExcluded' => \A k \in Users(sQueue') : sQueue'[k].data = signalNot'.data => signalNot'.data = 0
    <3>. SUFFICES ASSUME HasExcluded, NEW k \in Users(sQueue')
                  PROVE  sQueue'[k].data = signalNot.data => signalNot.data = 0
      BY <1>2
    <3>1. CASE k = p
      BY <1>1, <2>2, <3>1
    <3>2. CASE k # p
      BY <2>2, <2>6, <3>2
    <3>. QED BY <3>1, <3>2
  <2>5. \A k, n \in DOMAIN delivered' : delivered'[k] = delivered'[n] => k = n \/ delivered'[k] = 0
    BY DEF InOnePlace
  <2>. QED BY <2>3, <2>4, <2>5 DEF InOnePlace
<1>6. ASSUME InSomePlace PROVE InSomePlace'
  <2>. SUFFICES ASSUME NEW d \in Elements(accepted), d \notin Elements(delivered)
                PROVE  \/ \E k \in Users(sQueue') : sQueue'[k].data = d
                       \/ HasExcluded' /\ signalNot'.data = d
    BY <1>3 DEF InSomePlace
  <2>1. CASE HasExcluded /\ signalNot.data = d
    BY <1>2, <2>1
  <2>2. CASE \E k \in Users(sQueue) : sQueue[k].data = d
    BY <1>1, <2>2
  <2>3. CASE HasKept /\ local.data = d
    BY <1>0, <1>1, <2>3
  <2>. QED BY <1>6, <2>1, <2>2, <2>3 DEF InSomePlace
<1>7. ASSUME Intact PROVE Intact'
  <2>1. ASSUME NEW k \in Users(sQueue') PROVE sQueue'[k].data # 0
    <3>1. CASE k = p
      BY <1>0, <1>1, <1>7, <3>1 DEF Intact
    <3>2. CASE k # p
      <4>1. Old(k, p) \in Users(sQueue) /\ sQueue'[k] = sQueue[Old(k, p)]
        BY <1>1, <3>2
      <4>. QED BY <1>7, <4>1 DEF Intact
    <3>. QED BY <3>1, <3>2
  <2>. QED BY <1>2, <1>7, <2>1 DEF Intact
<1>. QED BY <1>4, <1>5, <1>6, <1>7 DEF Carried

LEMMA OverflowStays == ASSUME DeliveryInv, DeliveryNext PROVE overflow => overflow'
BY DEF DeliveryNext, MachineStep, Callback, Run, CheckExpired, RestartTimeout, EndTimeouts,
       Receive, Exclusion, ClearData, TrySend, Store, Rotate, Keep, EndStop, CallSend, TimeoutSet, TimerSet,
       ResetByState, SetByState, KeepByState, TimeoutStop, Return, HandlerSend, TimerElapses, Enqueue,
       Refused, Exclude, machine, timers, log, DeliveryInv, DeliveryTypes

LEMMA ConservedKept == ASSUME DeliveryInv, DeliveryNext PROVE Conserved'
<1>0. /\ DeliveryTypes /\ Places /\ Exclusive /\ Fresh /\ app' = app
      /\ sQueue \in Seq(signal_t) /\ local \in signal_t /\ signalNot \in signal_t
      /\ accepted \in Seq(1 .. MaxSends) /\ delivered \in Seq(0 .. MaxSends) /\ overflow \in BOOLEAN
      /\ sent \in Nat /\ sent <= MaxSends /\ MaxSends \in Nat
  BY TypesKept, SignalTypes DEF DeliveryInv, DeliveryTypes
<1>2. overflow => overflow'
  BY OverflowStays
<1>3. Protected' => Protected
  BY <1>0, <1>2 DEF Protected
<1>4. InPlace /\ InOnePlace /\ (Protected => Intact /\ InSomePlace)
  BY DEF DeliveryInv, Conserved
<1>1. SUFFICES InPlace' /\ InOnePlace' /\ (Protected' => Carried)
  BY <1>3, <1>4 DEF Conserved, Carried
<1>. USE DEF machine, timers, log
<1>5. CASE Run \/ CheckExpired \/ RestartTimeout \/ EndTimeouts \/ EndStop \/ CallSend \/ Return
  <2>1. /\ UNCHANGED <<sQueue, accepted, delivered, signalNot>> /\ pc # "keep" /\ pc' # "keep"
    BY <1>5 DEF Run, CheckExpired, RestartTimeout, EndTimeouts, EndStop, CallSend, Return
  <2>. QED BY <1>4, <2>1, StillConserved DEF HasKept, HasExcluded
<1>6. CASE \E t \in Timeout : \/ TimeoutStop(t) \/ TimeoutSet(t) \/ ResetByState(t)
                              \/ \E p \in BOOLEAN : SetByState(t, p) \/ KeepByState(t, p)
  <2>1. /\ UNCHANGED <<sQueue, accepted, delivered, signalNot>> /\ pc # "keep" /\ pc' # "keep"
    BY <1>6 DEF TimeoutStop, TimeoutSet, ResetByState, SetByState, KeepByState, TimerSet
  <2>. QED BY <1>4, <2>1, StillConserved DEF HasKept, HasExcluded
<1>7. CASE \E t \in Timeout : TimerElapses(t)
  <2>1. /\ UNCHANGED <<sQueue, accepted, delivered, signalNot, pc, local>>
    BY <1>7 DEF TimerElapses
  <2>. QED BY <1>4, <2>1, StillConserved DEF HasKept, HasExcluded
<1>8. CASE ClearData
  <2>1. pc = "clear" /\ UNCHANGED <<sQueue, accepted, delivered>> /\ ~HasKept /\ ~HasKept'
        /\ (HasExcluded' <=> HasExcluded) /\ signalNot'.data = 0
    BY <1>0, <1>8 DEF ClearData, HasKept, HasExcluded, signal_t
  <2>2. InPlace' /\ InOnePlace'
    BY <1>4, <2>1, ClearConserved
  <2>3. ASSUME Protected PROVE Carried
    <3>1. signalNot.id = SIGNAL_NONE
      BY <1>0, <2>1, <2>3 DEF Exclusive, Protected
    <3>2. ~HasExcluded /\ ~HasExcluded'
      BY <2>1, <3>1, SignalTypes DEF HasExcluded
    <3>. QED BY <1>4, <2>1, <3>2, StillConserved
  <2>. QED BY <1>3, <2>2, <2>3
<1>9. CASE Receive
  <2>1. CASE sQueue = <<>>
    <3>1. UNCHANGED <<sQueue, accepted, delivered, signalNot>> /\ pc # "keep" /\ pc' # "keep"
      BY <1>9, <2>1 DEF Receive
    <3>. QED BY <1>4, <3>1, StillConserved DEF HasKept, HasExcluded
  <2>2. CASE sQueue # <<>>
    <3>1. /\ Given(Head(sQueue)) /\ sQueue' = Tail(sQueue)
          /\ UNCHANGED <<accepted, signalNot>> /\ pc # "keep" /\ pc' # "keep"
      BY <1>9, <2>2 DEF Receive
    <3>. QED BY <1>0, <1>4, <2>2, <3>1, ReceiveConserved DEF HasKept
  <2>. QED BY <2>1, <2>2
<1>10. CASE Exclusion
  <2>1. /\ Given(signalNot) /\ UNCHANGED <<accepted, sQueue>> /\ ~HasKept /\ ~HasKept' /\ ~HasExcluded'
    BY <1>0, <1>10, SignalTypes DEF Exclusion, HasKept, HasExcluded, signal_t
  <2>2. CASE HasExcluded
    BY <1>0, <1>4, <2>1, <2>2, ExclusionConserved
  <2>3. CASE ~HasExcluded
    <3>1. UNCHANGED delivered
      BY <2>1, <2>3 DEF Given, HasExcluded
    <3>. QED BY <1>4, <2>1, <2>3, <3>1, StillConserved
  <2>. QED BY <2>2, <2>3
<1>11. CASE \E u \in Urgency : TrySend(u)
  <2>1. PICK u \in Urgency : TrySend(u)
    BY <1>11
  <2>2. /\ UNCHANGED <<delivered, local>> /\ Sending /\ pc # "keep" /\ pc' # "keep"
    BY <1>0, <2>1 DEF TrySend, Places, Sending
  <2>3. local.id = USER => local.data \in 1 .. MaxSends /\ \A a \in DOMAIN accepted : accepted[a] # local.data
    BY <1>0, <2>2 DEF Fresh
  <2>4. CASE Enqueue(local, u)
    <3>1. Queued(local, u) /\ Accepted(local) /\ UNCHANGED signalNot
      BY <2>4 DEF Enqueue
    <3>. QED BY <1>0, <1>4, <2>2, <2>3, <3>1, EnqueueConserved DEF HasKept
  <2>5. CASE UNCHANGED <<sQueue, signalNot, accepted>>
    BY <1>4, <2>2, <2>5, StillConserved DEF HasKept, HasExcluded
  <2>. QED BY <2>1, <2>4, <2>5 DEF TrySend, Refused
<1>12. CASE Store
  <2>1. /\ signalNot' = local /\ Accepted(local) /\ UNCHANGED <<delivered, sQueue>>
        /\ Sending /\ pc = "store" /\ pc' # "keep"
    BY <1>0, <1>12 DEF Store, Places, Sending
  <2>2. local.id = USER => local.data \in 1 .. MaxSends /\ \A a \in DOMAIN accepted : accepted[a] # local.data
    BY <1>0, <2>1 DEF Fresh
  <2>3. Protected => signalNot.id = SIGNAL_NONE
    BY <1>0, <2>1 DEF Exclusive, Places, Protected
  <2>4. (Protected => ~HasExcluded) /\ ~HasKept /\ ~HasKept'
    BY <2>1, <2>3, SignalTypes DEF HasExcluded, HasKept
  <2>5. InPlace' /\ InOnePlace' /\ (~HasExcluded => Carried)
    BY <1>0, <1>4, <2>1, <2>2, <2>4, ExcludeConserved
  <2>. QED BY <1>3, <2>4, <2>5
<1>13. CASE Rotate
  <2>1. /\ sQueue # <<>> /\ sQueue' = Tail(sQueue) /\ local' = Head(sQueue) /\ pc = "rotate"
        /\ UNCHANGED <<accepted, delivered, signalNot>> /\ i \in Timeout
        /\ pc' = IF local'.id = i THEN "rotate" ELSE "keep"
    BY <1>0, <1>13 DEF Rotate, DeliveryTypes, Places, Rotating
  <2>2. HasKept' <=> local'.id = USER
    BY <2>1, SignalTypes DEF HasKept
  <2>. QED BY <1>0, <1>4, <2>1, <2>2, RotateConserved DEF HasKept
<1>14. CASE Keep
  <2>1. pc = "keep" /\ UNCHANGED <<accepted, delivered, signalNot, app>> /\ pc' = "rotate"
    BY <1>14 DEF Keep
  <2>2. CASE Room
    <3>1. sQueue' = Append(sQueue, local) /\ (HasKept <=> local.id = USER) /\ ~HasKept'
      BY <1>14, <2>1, <2>2 DEF Keep, HasKept
    <3>. QED BY <1>0, <1>4, <2>1, <3>1, KeepConserved
  <2>3. CASE ~Room
    <3>1. sQueue' = sQueue /\ ~HasKept' /\ overflow' = TRUE
      BY <1>14, <2>1, <2>3 DEF Keep, HasKept
    <3>2. ~Protected'
      BY <1>0, <2>1, <2>3, <3>1 DEF Protected, Exclusive, Room
    <3>. QED BY <1>4, <2>1, <3>1, <3>2, DropConserved
  <2>. QED BY <2>2, <2>3
<1>15. CASE \E u \in Urgency : HandlerSend(u)
  <2>1. PICK u \in Urgency : HandlerSend(u)
    BY <1>15
  <2>2. PICK x \in Messages : Numbered(x) /\ (Enqueue(x, u) \/ Refused \/ Exclude(x))
    BY <2>1 DEF HandlerSend
  <2>3. x \in signal_t /\ (x.id = USER => x.data = sent + 1 /\ x.data \in 1 .. MaxSends)
    BY <1>0, <2>2, MessageFacts
  <2>4. UNCHANGED <<delivered, local>> /\ (HasKept' <=> HasKept) /\ "handler" \in app.senders
    BY <2>1 DEF HandlerSend, HasKept
  <2>5. x.id = USER => x.data \in 1 .. MaxSends /\ \A a \in DOMAIN accepted : accepted[a] # x.data
    BY <1>0, <2>3, AcceptedNumbers DEF Fresh
  <2>6. CASE Enqueue(x, u)
    <3>1. Queued(x, u) /\ Accepted(x) /\ UNCHANGED signalNot
      BY <2>6 DEF Enqueue
    <3>. QED BY <1>0, <1>4, <2>3, <2>4, <2>5, <3>1, EnqueueConserved
  <2>7. CASE Refused
    <3>1. UNCHANGED <<sQueue, signalNot, accepted>>
      BY <2>7 DEF Refused
    <3>. QED BY <1>4, <2>4, <3>1, StillConserved DEF HasExcluded
  <2>8. CASE Exclude(x)
    <3>1. signalNot' = x /\ Accepted(x) /\ UNCHANGED sQueue /\ overflow' = TRUE
      BY <2>8 DEF Exclude
    <3>2. ~Protected'
      BY <1>0, <2>4, <3>1 DEF Protected
    <3>. QED BY <1>0, <1>4, <2>3, <2>4, <2>5, <3>1, <3>2, ExcludeConserved
  <2>. QED BY <2>2, <2>6, <2>7, <2>8
<1>. QED BY Moves, <1>5, <1>6, <1>7, <1>8, <1>9, <1>10, <1>11, <1>12, <1>13, <1>14, <1>15

-----------------------------------------------------------------------------
(* What is accepted comes after all that was accepted before.                 *)
LEMMA InOrderAccepted ==
  ASSUME accepted \in Seq(1 .. MaxSends), NEW x \in signal_t, Accepted(x),
         x.id = USER => x.data \in 1 .. MaxSends /\ \A a \in DOMAIN accepted : accepted[a] # x.data
  PROVE  /\ \A d, e \in Elements(accepted) : InOrder(accepted, d, e) => InOrder(accepted', d, e)
         /\ x.id = USER => \A d \in Elements(accepted) : InOrder(accepted', d, x.data)
         /\ \A k \in DOMAIN accepted : k \in DOMAIN accepted' /\ accepted'[k] = accepted[k]
<1>1. CASE x.id # USER
  BY <1>1, AcceptedFacts
<1>2. CASE x.id = USER
  <2>1. /\ DOMAIN accepted' = 1 .. Len(accepted) + 1 /\ DOMAIN accepted = 1 .. Len(accepted)
        /\ Len(accepted) \in Nat /\ accepted'[Len(accepted) + 1] = x.data
        /\ \A a \in DOMAIN accepted : accepted'[a] = accepted[a]
    BY <1>2, AcceptedFacts
  <2>2. /\ \A a \in DOMAIN accepted' : a \in DOMAIN accepted \/ a = Len(accepted) + 1
        /\ \A a \in DOMAIN accepted : a \in DOMAIN accepted' /\ a < Len(accepted) + 1
    BY <2>1
  <2>3. \A d \in Elements(accepted) : d # x.data
    BY <1>2 DEF Elements
  <2>4. \A d, e \in Elements(accepted) : InOrder(accepted, d, e) => InOrder(accepted', d, e)
    BY <2>1, <2>2, <2>3 DEF InOrder
  <2>5. ASSUME NEW d \in Elements(accepted) PROVE InOrder(accepted', d, x.data)
    <3>. SUFFICES ASSUME NEW a \in DOMAIN accepted', NEW b \in DOMAIN accepted',
                         accepted'[a] = d, accepted'[b] = x.data
                  PROVE  a < b
      BY DEF InOrder
    <3>1. a \in DOMAIN accepted
      BY <2>1, <2>2, <2>3
    <3>2. b = Len(accepted) + 1
      BY <1>2, <2>1, <2>2
    <3>. QED BY <2>2, <3>1, <3>2
  <2>. QED BY <2>1, <2>2, <2>4, <2>5
<1>. QED BY <1>1, <1>2

(* The first to wait is the first accepted that is not delivered.             *)
LEMMA FirstAccepted ==
  ASSUME InPlace, Intact, InSomePlace, ~HasKept, ~HasExcluded, 1 \in Users(sQueue),
         accepted \in Seq(1 .. MaxSends), delivered \in Seq(0 .. MaxSends), Users(sQueue) \subseteq Nat \ {0},
         \A k \in DOMAIN delivered : k \in DOMAIN accepted /\ delivered[k] = accepted[k],
         \A a, b \in DOMAIN accepted : accepted[a] = accepted[b] => a = b,
         \A n \in Users(sQueue) : 1 < n => InOrder(accepted, sQueue[1].data, sQueue[n].data)
  PROVE  Len(delivered) + 1 \in DOMAIN accepted /\ accepted[Len(delivered) + 1] = sQueue[1].data
<1>. DEFINE m == Len(delivered) + 1
<1>1. /\ DOMAIN accepted = 1 .. Len(accepted) /\ Len(accepted) \in Nat
      /\ DOMAIN delivered = 1 .. Len(delivered) /\ Len(delivered) \in Nat
  OBVIOUS
<1>2. PICK a \in DOMAIN accepted : accepted[a] = sQueue[1].data
  BY DEF InPlace, Intact, Held, Elements
<1>3. sQueue[1].data \notin Elements(delivered)
  BY DEF InPlace, Intact, Held
<1>4. a \notin DOMAIN delivered
  BY <1>2, <1>3 DEF Elements
<1>5. m \in DOMAIN accepted /\ m <= a /\ m \in Nat
  BY <1>1, <1>2, <1>4
<1>6. m \notin DOMAIN delivered
  BY <1>1
<1>. HIDE DEF m
<1>7. accepted[m] \in Elements(accepted)
  BY <1>5 DEF Elements
<1>8. accepted[m] \notin Elements(delivered)
  BY <1>5, <1>6 DEF Elements
<1>9. PICK k \in Users(sQueue) : sQueue[k].data = accepted[m]
  BY <1>7, <1>8 DEF InSomePlace
<1>10. k = 1
  <2>1. SUFFICES ASSUME k # 1 PROVE FALSE
    OBVIOUS
  <2>2. 1 < k
    BY <2>1
  <2>3. a < m
    BY <1>2, <1>5, <1>9, <2>2 DEF InOrder
  <2>. QED BY <1>1, <1>2, <1>5, <2>3
<1>. QED BY <1>5, <1>9, <1>10 DEF m

LEMMA OrderedStill ==
  ASSUME InTurn, Ordered, UNCHANGED <<sQueue, accepted, delivered>>,
         \A k, n \in Users(sQueue) : Before(cnt', k, n) => Before(cnt, k, n),
         HasKept' <=> HasKept, HasKept => local' = local /\ cnt' = cnt
  PROVE  Ordered'
<1>1. /\ \A k \in DOMAIN delivered : k \in DOMAIN accepted /\ delivered[k] = accepted[k]
      /\ \A k, n \in Users(sQueue) :
           Before(cnt, k, n) => InOrder(accepted, sQueue[k].data, sQueue[n].data)
      /\ HasKept => \A k \in Users(sQueue) :
           IF k > cnt THEN InOrder(accepted, sQueue[k].data, local.data)
                      ELSE InOrder(accepted, local.data, sQueue[k].data)
  BY DEF Ordered
<1>. QED BY <1>1 DEF Ordered

(* A signal goes to the end of a queue that timeoutStop() does not rotate.    *)
LEMMA OrderedEnqueue ==
  ASSUME InTurn, Ordered, InPlace, Intact, ~HasKept, ~HasKept', cnt = 0, cnt' = 0,
         sQueue \in Seq(signal_t), accepted \in Seq(1 .. MaxSends), UNCHANGED delivered,
         NEW x \in signal_t, Queued(x, FALSE), Accepted(x),
         x.id = USER => x.data \in 1 .. MaxSends /\ \A a \in DOMAIN accepted : accepted[a] # x.data
  PROVE  Ordered'
<1>1. /\ \A k \in DOMAIN delivered : k \in DOMAIN accepted /\ delivered[k] = accepted[k]
      /\ \A k, n \in Users(sQueue) :
           Before(cnt, k, n) => InOrder(accepted, sQueue[k].data, sQueue[n].data)
  BY DEF Ordered
<1>2. /\ \A d, e \in Elements(accepted) : InOrder(accepted, d, e) => InOrder(accepted', d, e)
      /\ x.id = USER => \A d \in Elements(accepted) : InOrder(accepted', d, x.data)
      /\ \A k \in DOMAIN accepted : k \in DOMAIN accepted' /\ accepted'[k] = accepted[k]
  BY InOrderAccepted
<1>. DEFINE p == Len(sQueue) + 1
<1>3. /\ Len(sQueue) \in Nat /\ DOMAIN sQueue' = 1 .. p /\ DOMAIN sQueue = 1 .. Len(sQueue)
      /\ sQueue'[p] = x /\ \A k \in DOMAIN sQueue : sQueue'[k] = sQueue[k]
  <2>1. PICK r : r = Append(sQueue, x)
    OBVIOUS
  <2>2. sQueue' = r
    BY <2>1 DEF Queued
  <2>3. /\ DOMAIN r = 1 .. p /\ DOMAIN sQueue = 1 .. Len(sQueue) /\ Len(sQueue) \in Nat
        /\ r[p] = x /\ \A k \in DOMAIN sQueue : r[k] = sQueue[k]
    BY <2>1, AppendFacts
  <2>. QED BY <2>2, <2>3
<1>4. /\ \A k \in Users(sQueue') : \/ k \in Users(sQueue) /\ sQueue'[k] = sQueue[k] /\ k < p
                                   \/ k = p /\ sQueue'[k] = x /\ x.id = USER
      /\ \A k \in Users(sQueue') : k \in Nat \ {0}
  BY <1>3 DEF Users
<1>. HIDE DEF p
<1>5. \A k \in Users(sQueue) : sQueue[k].data \in Elements(accepted)
  BY DEF InPlace, Intact, Held
<1>6. ASSUME NEW k \in Users(sQueue'), NEW n \in Users(sQueue'), Before(cnt', k, n)
      PROVE  InOrder(accepted', sQueue'[k].data, sQueue'[n].data)
  <2>1. k < n /\ Before(cnt, k, n)
    BY <1>4, <1>6 DEF Before
  <2>2. k \in Users(sQueue) /\ sQueue'[k] = sQueue[k]
    BY <1>3, <1>4, <2>1 DEF p
  <2>3. CASE n = p
    BY <1>2, <1>4, <1>5, <2>2, <2>3
  <2>4. CASE n # p
    <3>1. n \in Users(sQueue) /\ sQueue'[n] = sQueue[n]
      BY <1>4, <2>4
    <3>. QED BY <1>1, <1>2, <1>5, <2>1, <2>2, <3>1
  <2>. QED BY <2>3, <2>4
<1>7. \A k \in DOMAIN delivered' : k \in DOMAIN accepted' /\ delivered'[k] = accepted'[k]
  BY <1>1, <1>2
<1>. QED BY <1>6, <1>7 DEF Ordered

LEMMA OrderedReceive ==
  ASSUME InTurn, Ordered, Fresh, InPlace, Intact, InSomePlace, ~HasKept, ~HasKept', ~HasExcluded, cnt = 0, cnt' = 0,
         sQueue \in Seq(signal_t), sQueue # <<>>, accepted \in Seq(1 .. MaxSends),
         delivered \in Seq(0 .. MaxSends), Given(Head(sQueue)), sQueue' = Tail(sQueue), UNCHANGED accepted
  PROVE  Ordered'
<1>1. /\ \A k \in DOMAIN delivered : k \in DOMAIN accepted /\ delivered[k] = accepted[k]
      /\ \A k, n \in Users(sQueue) :
           Before(cnt, k, n) => InOrder(accepted, sQueue[k].data, sQueue[n].data)
  BY DEF Ordered
<1>2. /\ \A k \in Users(sQueue') : k + 1 \in Users(sQueue) /\ sQueue'[k] = sQueue[k + 1]
      /\ 1 \in Users(sQueue) <=> Head(sQueue).id = USER
      /\ Head(sQueue) = sQueue[1] /\ Users(sQueue) \subseteq Nat \ {0} /\ Users(sQueue') \subseteq Nat \ {0}
  BY UsersTail
<1>3. ASSUME NEW k \in Users(sQueue'), NEW n \in Users(sQueue'), Before(cnt', k, n)
      PROVE  InOrder(accepted', sQueue'[k].data, sQueue'[n].data)
  <2>1. /\ k + 1 \in Users(sQueue) /\ sQueue'[k] = sQueue[k + 1] /\ k \in Nat \ {0}
        /\ n + 1 \in Users(sQueue) /\ sQueue'[n] = sQueue[n + 1] /\ n \in Nat \ {0}
    BY <1>2
  <2>2. Before(cnt, k + 1, n + 1)
    BY <1>3, <2>1 DEF Before
  <2>. QED BY <1>1, <2>1, <2>2
<1>4. PICK x \in signal_t : x = sQueue[1]
  BY TailFacts
<1>5. Given(x)
  BY <1>2, <1>4
<1>6. /\ x.id # USER => delivered' = delivered
      /\ x.id = USER =>
           /\ DOMAIN delivered' = 1 .. Len(delivered) + 1 /\ DOMAIN delivered = 1 .. Len(delivered)
           /\ Len(delivered) \in Nat /\ delivered'[Len(delivered) + 1] = x.data
           /\ \A a \in DOMAIN delivered : delivered'[a] = delivered[a]
           /\ Elements(delivered') = Elements(delivered) \cup {x.data}
  BY <1>5, GivenTypes
<1>7. \A k \in DOMAIN delivered' : k \in DOMAIN accepted' /\ delivered'[k] = accepted'[k]
  <2>1. CASE x.id # USER
    BY <1>1, <1>6, <2>1
  <2>2. CASE x.id = USER
    <3>1. 1 \in Users(sQueue)
      BY <1>2, <1>4, <2>2
    <3>2. \A n \in Users(sQueue) : 1 < n => InOrder(accepted, sQueue[1].data, sQueue[n].data)
      <4>1. \A n \in Users(sQueue) : 1 < n => Before(cnt, 1, n)
        BY <1>2 DEF Before
      <4>. QED BY <1>1, <3>1, <4>1
    <3>3. \A a, b \in DOMAIN accepted : accepted[a] = accepted[b] => a = b
      BY DEF Fresh
    <3>4. Len(delivered) + 1 \in DOMAIN accepted /\ accepted[Len(delivered) + 1] = x.data
      BY <1>1, <1>2, <1>4, <3>1, <3>2, <3>3, FirstAccepted
    <3>5. \A k \in DOMAIN delivered' : k \in DOMAIN delivered \/ k = Len(delivered) + 1
      BY <1>6, <2>2
    <3>. QED BY <1>1, <1>6, <2>2, <3>4, <3>5
  <2>. QED BY <2>1, <2>2
<1>. QED BY <1>3, <1>7 DEF Ordered

(* timeoutStop() takes a signal from the front of the queue, ...              *)
LEMMA OrderedRotate ==
  ASSUME InTurn, Ordered, ~HasKept, HasKept' => local'.id = USER, cnt \in Nat \ {0}, cnt' = cnt - 1,
         sQueue \in Seq(signal_t), sQueue # <<>>, local' = Head(sQueue), sQueue' = Tail(sQueue),
         UNCHANGED <<accepted, delivered>>
  PROVE  Ordered'
<1>1. /\ \A k \in DOMAIN delivered : k \in DOMAIN accepted /\ delivered[k] = accepted[k]
      /\ \A k, n \in Users(sQueue) :
           Before(cnt, k, n) => InOrder(accepted, sQueue[k].data, sQueue[n].data)
  BY DEF Ordered
<1>2. /\ \A k \in Users(sQueue') : k + 1 \in Users(sQueue) /\ sQueue'[k] = sQueue[k + 1]
      /\ 1 \in Users(sQueue) <=> Head(sQueue).id = USER
      /\ Head(sQueue) = sQueue[1] /\ Users(sQueue) \subseteq Nat \ {0} /\ Users(sQueue') \subseteq Nat \ {0}
  BY UsersTail
<1>3. ASSUME NEW k \in Users(sQueue'), NEW n \in Users(sQueue'), Before(cnt', k, n)
      PROVE  InOrder(accepted', sQueue'[k].data, sQueue'[n].data)
  <2>1. /\ k + 1 \in Users(sQueue) /\ sQueue'[k] = sQueue[k + 1] /\ k \in Nat \ {0}
        /\ n + 1 \in Users(sQueue) /\ sQueue'[n] = sQueue[n + 1] /\ n \in Nat \ {0}
    BY <1>2
  <2>2. Before(cnt, k + 1, n + 1)
    BY <1>3, <2>1 DEF Before
  <2>. QED BY <1>1, <2>1, <2>2
<1>4. ASSUME HasKept', NEW k \in Users(sQueue')
      PROVE  IF k > cnt' THEN InOrder(accepted', sQueue'[k].data, local'.data)
                         ELSE InOrder(accepted', local'.data, sQueue'[k].data)
  <2>1. /\ k + 1 \in Users(sQueue) /\ sQueue'[k] = sQueue[k + 1] /\ k \in Nat \ {0}
        /\ 1 \in Users(sQueue) /\ local' = sQueue[1]
    BY <1>2, <1>4
  <2>2. CASE k > cnt'
    <3>1. Before(cnt, k + 1, 1)
      BY <2>1, <2>2 DEF Before
    <3>2. InOrder(accepted, sQueue[k + 1].data, sQueue[1].data)
      BY <1>1, <2>1, <3>1
    <3>. QED BY <2>1, <2>2, <3>2
  <2>3. CASE ~(k > cnt')
    <3>1. Before(cnt, 1, k + 1)
      BY <2>1, <2>3 DEF Before
    <3>2. InOrder(accepted, sQueue[1].data, sQueue[k + 1].data)
      BY <1>1, <2>1, <3>1
    <3>. QED BY <2>1, <2>3, <3>2
  <2>. QED BY <2>2, <2>3
<1>. QED BY <1>1, <1>3, <1>4 DEF Ordered

(* ... and puts it behind all others.                                         *)
LEMMA OrderedKeep ==
  ASSUME InTurn, Ordered, HasKept <=> local.id = USER, ~HasKept', cnt \in Nat, cnt <= Len(sQueue), cnt' = cnt,
         sQueue \in Seq(signal_t), local \in signal_t, sQueue' = Append(sQueue, local),
         UNCHANGED <<accepted, delivered>>
  PROVE  Ordered'
<1>1. /\ \A k \in DOMAIN delivered : k \in DOMAIN accepted /\ delivered[k] = accepted[k]
      /\ \A k, n \in Users(sQueue) :
           Before(cnt, k, n) => InOrder(accepted, sQueue[k].data, sQueue[n].data)
      /\ HasKept => \A k \in Users(sQueue) :
           IF k > cnt THEN InOrder(accepted, sQueue[k].data, local.data)
                      ELSE InOrder(accepted, local.data, sQueue[k].data)
  BY DEF Ordered
<1>0. PICK x \in signal_t : x = local
  OBVIOUS
<1>. DEFINE p == Len(sQueue) + 1
<1>3. /\ Len(sQueue) \in Nat /\ DOMAIN sQueue' = 1 .. p /\ DOMAIN sQueue = 1 .. Len(sQueue)
      /\ sQueue'[p] = x /\ \A k \in DOMAIN sQueue : sQueue'[k] = sQueue[k]
  <2>1. PICK r : r = Append(sQueue, x)
    OBVIOUS
  <2>2. sQueue' = r
    BY <1>0, <2>1
  <2>3. /\ DOMAIN r = 1 .. p /\ DOMAIN sQueue = 1 .. Len(sQueue) /\ Len(sQueue) \in Nat
        /\ r[p] = x /\ \A k \in DOMAIN sQueue : r[k] = sQueue[k]
    BY <2>1, AppendFacts
  <2>. QED BY <2>2, <2>3
<1>4. /\ \A k \in Users(sQueue') : \/ k \in Users(sQueue) /\ sQueue'[k] = sQueue[k] /\ k < p
                                   \/ k = p /\ sQueue'[k] = x /\ HasKept
      /\ \A k \in Users(sQueue') : k \in Nat \ {0}
  BY <1>0, <1>3 DEF Users
<1>5. p > cnt /\ p \in Nat
  BY <1>3
<1>. HIDE DEF p
<1>7. p \in Users(sQueue') => HasKept /\ sQueue'[p] = local
  <2>1. ~(p < p)
    BY <1>5
  <2>. QED BY <1>0, <1>4, <2>1
<1>6. ASSUME NEW k \in Users(sQueue'), NEW n \in Users(sQueue'), Before(cnt', k, n)
      PROVE  InOrder(accepted', sQueue'[k].data, sQueue'[n].data)
  <2>0. k \in Nat /\ n \in Nat /\ Before(cnt, k, n)
    BY <1>4, <1>6
  <2>1. CASE k # p /\ n # p
    <3>1. /\ k \in Users(sQueue) /\ sQueue'[k] = sQueue[k]
          /\ n \in Users(sQueue) /\ sQueue'[n] = sQueue[n]
      BY <1>4, <2>1
    <3>. QED BY <1>1, <2>0, <3>1
  <2>2. CASE k # p /\ n = p
    <3>1. k \in Users(sQueue) /\ sQueue'[k] = sQueue[k] /\ HasKept /\ sQueue'[n] = local
      BY <1>4, <1>7, <2>2
    <3>2. k > cnt
      BY <1>5, <2>0, <2>2 DEF Before
    <3>. QED BY <1>1, <3>1, <3>2
  <2>3. CASE k = p /\ n # p
    <3>1. n \in Users(sQueue) /\ sQueue'[n] = sQueue[n] /\ HasKept /\ sQueue'[k] = local /\ n < p
      BY <1>4, <1>7, <2>3
    <3>2. ~(n > cnt)
      BY <1>5, <2>0, <2>3, <3>1 DEF Before
    <3>. QED BY <1>1, <3>1, <3>2
  <2>4. ~(k = p /\ n = p)
    BY <1>5, <2>0 DEF Before
  <2>. QED BY <2>1, <2>2, <2>3, <2>4
<1>. QED BY <1>1, <1>6 DEF Ordered

LEMMA OrderedKept == ASSUME DeliveryInv, DeliveryNext PROVE Ordered'
<1>0. /\ DeliveryTypes /\ Places /\ Exclusive /\ Fresh /\ app' = app
      /\ sQueue \in Seq(signal_t) /\ local \in signal_t /\ signalNot \in signal_t
      /\ accepted \in Seq(1 .. MaxSends) /\ delivered \in Seq(0 .. MaxSends) /\ overflow \in BOOLEAN
      /\ sent \in Nat /\ sent <= MaxSends /\ MaxSends \in Nat /\ cnt \in Nat /\ cnt <= Len(sQueue)
  BY TypesKept, SignalTypes DEF DeliveryInv, DeliveryTypes
<1>1. SUFFICES ASSUME InTurn' PROVE Ordered'
  BY DEF Ordered
<1>2. overflow => overflow'
  BY OverflowStays
<1>3. InTurn /\ Ordered /\ ~overflow'
  BY <1>0, <1>1, <1>2 DEF InTurn, DeliveryInv
<1>4. InPlace /\ Intact /\ InSomePlace
  BY <1>3 DEF DeliveryInv, Conserved, Protected, InTurn
<1>5. ~HasExcluded
  BY <1>0, <1>3, SignalTypes DEF HasExcluded, Exclusive, InTurn
<1>. USE DEF machine, timers, log
<1>6. CASE Run \/ CheckExpired \/ RestartTimeout \/ EndTimeouts \/ EndStop \/ CallSend \/ Return \/ ClearData
           \/ Exclusion
  <2>1. UNCHANGED <<sQueue, accepted, cnt>> /\ pc # "keep" /\ pc' # "keep"
    BY <1>6 DEF Run, CheckExpired, RestartTimeout, EndTimeouts, EndStop, CallSend, Return, ClearData, Exclusion
  <2>2. UNCHANGED delivered
    BY <1>5, <1>6 DEF Run, CheckExpired, RestartTimeout, EndTimeouts, EndStop, CallSend, Return, ClearData,
       Exclusion, Given, HasExcluded
  <2>. QED BY <1>3, <2>1, <2>2, OrderedStill DEF HasKept
<1>7. CASE \E t \in Timeout : \/ TimeoutSet(t) \/ ResetByState(t)
                              \/ \E p \in BOOLEAN : SetByState(t, p) \/ KeepByState(t, p)
  <2>1. UNCHANGED <<sQueue, accepted, delivered, cnt>> /\ pc # "keep" /\ pc' # "keep"
    BY <1>7 DEF TimeoutSet, ResetByState, SetByState, KeepByState, TimerSet
  <2>. QED BY <1>3, <2>1, OrderedStill DEF HasKept
<1>8. CASE \E t \in Timeout : TimerElapses(t)
  <2>1. UNCHANGED <<sQueue, accepted, delivered, pc, local, cnt>>
    BY <1>8 DEF TimerElapses
  <2>. QED BY <1>3, <2>1, OrderedStill DEF HasKept
<1>9. CASE \E t \in Timeout : TimeoutStop(t)
  <2>1. /\ UNCHANGED <<sQueue, accepted, delivered>> /\ cnt' = Len(sQueue) /\ cnt = 0
        /\ pc # "keep" /\ pc' # "keep"
    BY <1>0, <1>9 DEF TimeoutStop, Places, Rotating
  <2>2. \A k \in Users(sQueue) : k \in Nat \ {0} /\ k <= Len(sQueue)
    BY <1>0 DEF Users
  <2>3. \A k, n \in Users(sQueue) : Before(cnt', k, n) => Before(cnt, k, n)
    BY <1>0, <2>1, <2>2 DEF Before
  <2>. QED BY <1>3, <2>1, <2>3, OrderedStill DEF HasKept
<1>10. CASE Receive
  <2>1. cnt = 0 /\ cnt' = 0 /\ pc # "keep" /\ pc' # "keep" /\ UNCHANGED accepted
    BY <1>0, <1>10 DEF Receive, Places, Rotating
  <2>2. CASE sQueue = <<>>
    <3>1. UNCHANGED <<sQueue, delivered>>
      BY <1>10, <2>2 DEF Receive
    <3>. QED BY <1>3, <2>1, <3>1, OrderedStill DEF HasKept
  <2>3. CASE sQueue # <<>>
    <3>1. Given(Head(sQueue)) /\ sQueue' = Tail(sQueue) /\ ~HasKept /\ ~HasKept'
      BY <1>10, <2>1, <2>3 DEF Receive, HasKept
    <3>. QED BY <1>0, <1>3, <1>4, <1>5, <2>1, <2>3, <3>1, OrderedReceive
  <2>. QED BY <2>2, <2>3
<1>11. CASE \E u \in Urgency : TrySend(u)
  <2>1. PICK u \in Urgency : TrySend(u)
    BY <1>11
  <2>2. /\ UNCHANGED <<delivered, cnt>> /\ Sending /\ ~HasKept /\ ~HasKept' /\ cnt = 0 /\ u = FALSE
    BY <1>0, <1>3, <2>1 DEF TrySend, Places, Sending, Rotating, HasKept, InTurn, Urgency
  <2>3. local.id = USER => local.data \in 1 .. MaxSends /\ \A a \in DOMAIN accepted : accepted[a] # local.data
    BY <1>0, <2>2 DEF Fresh
  <2>4. Queued(local, FALSE) /\ Accepted(local)
    BY <1>3, <2>1, <2>2 DEF TrySend, Enqueue, Refused
  <2>. QED BY <1>0, <1>3, <1>4, <2>2, <2>3, <2>4, OrderedEnqueue
<1>12. CASE Store
  BY <1>0, <1>3, <1>12 DEF Store, Places, InTurn
<1>13. CASE Rotate
  <2>1. /\ sQueue # <<>> /\ sQueue' = Tail(sQueue) /\ local' = Head(sQueue) /\ pc = "rotate"
        /\ UNCHANGED <<accepted, delivered>> /\ cnt \in Nat \ {0} /\ cnt' = cnt - 1
    BY <1>0, <1>13 DEF Rotate
  <2>. QED BY <1>0, <1>3, <2>1, OrderedRotate DEF HasKept
<1>14. CASE Keep
  <2>1. /\ pc = "keep" /\ UNCHANGED <<accepted, delivered, cnt>> /\ pc' = "rotate"
        /\ sQueue' = Append(sQueue, local)
    BY <1>3, <1>14 DEF Keep
  <2>2. (HasKept <=> local.id = USER) /\ ~HasKept'
    BY <2>1 DEF HasKept
  <2>. QED BY <1>0, <1>3, <2>1, <2>2, OrderedKeep
<1>15. CASE \E u \in Urgency : HandlerSend(u)
  <2>1. PICK u \in Urgency : HandlerSend(u)
    BY <1>15
  <2>2. PICK x \in Messages : Numbered(x) /\ (Enqueue(x, u) \/ Refused \/ Exclude(x))
    BY <2>1 DEF HandlerSend
  <2>8. x \in signal_t /\ (x.id = USER => x.data = sent + 1 /\ x.data \in 1 .. MaxSends)
    BY <1>0, <2>2, MessageFacts
  <2>3. UNCHANGED <<pc, local, delivered, cnt>> /\ u = FALSE
    BY <1>3, <2>1 DEF HandlerSend, InTurn, Urgency
  <2>4. Enqueue(x, u)
    BY <1>3, <2>2 DEF Refused, Exclude
  <2>5. Queued(x, FALSE) /\ Accepted(x)
    BY <2>3, <2>4 DEF Enqueue
  <2>6. x.id = USER => x.data \in 1 .. MaxSends /\ \A a \in DOMAIN accepted : accepted[a] # x.data
    BY <1>0, <2>8, AcceptedNumbers DEF Fresh
  <2>7. cnt = 0 /\ ~HasKept /\ ~HasKept'
    BY <1>0, <1>3, <2>1, <2>3 DEF HandlerSend, InTurn, Places, Rotating, HasKept
  <2>. QED BY <1>0, <1>3, <1>4, <2>3, <2>5, <2>6, <2>7, <2>8, OrderedEnqueue
<1>. QED BY Moves, <1>6, <1>7, <1>8, <1>9, <1>10, <1>11, <1>12, <1>13, <1>14, <1>15

-----------------------------------------------------------------------------
LEMMA StoppedIsOffKept == ASSUME DeliveryInv, DeliveryNext PROVE StoppedIsOff'
<1>0. /\ StoppedIsOff /\ Places
      /\ timeout \in [Timeout -> {"off", "running", "expired"}] /\ silenced \in [Timeout -> BOOLEAN]
  BY DEF DeliveryInv, Silent, DeliveryTypes
<1>. USE DEF StoppedIsOff, machine, timers, log
<1>1. CASE UNCHANGED <<timeout, silenced, i>> /\ (Reporting' => Reporting)
  BY <1>0, <1>1
<1>2. CASE UNCHANGED <<timeout, silenced>> /\ ~Reporting'
  BY <1>0, <1>2
<1>3. CASE Run \/ EndTimeouts \/ Receive \/ Exclusion \/ ClearData \/ CallSend \/ Return \/ Rotate \/ Keep
  BY <1>2, <1>3 DEF Run, EndTimeouts, Receive, Exclusion, ClearData, CallSend, Return, Rotate, Keep,
     Reporting, Sending
<1>4. CASE CheckExpired
  <2>1. i \in Timeout /\ UNCHANGED <<timeout, silenced>>
    BY <1>4 DEF CheckExpired, DeliveryInv, DeliveryTypes, Timeout
  <2>2. CASE timeout[i] = "expired"
    BY <1>0, <1>4, <2>1, <2>2 DEF CheckExpired
  <2>3. CASE timeout[i] # "expired"
    BY <1>2, <1>4, <2>1, <2>3 DEF CheckExpired, Reporting, Sending
  <2>. QED BY <2>2, <2>3
<1>5. CASE RestartTimeout
  <2>1. i \in Timeout /\ ~silenced[i] /\ UNCHANGED silenced /\ ~Reporting'
    BY <1>0, <1>5 DEF RestartTimeout, Places, Reporting, Sending
  <2>2. \A t \in Timeout : t # i => timeout'[t] = timeout[t]
    BY <1>5 DEF RestartTimeout
  <2>. QED BY <1>0, <2>1, <2>2
<1>6. CASE \E u \in Urgency : TrySend(u)
  BY <1>1, <1>6 DEF TrySend, Reporting, Sending
<1>7. CASE Store
  BY <1>1, <1>7 DEF Store, Reporting, Sending
<1>8. CASE EndStop
  <2>1. i \in Timeout /\ ~Reporting'
    BY <1>0, <1>8 DEF EndStop, Places, Rotating, Reporting, Sending
  <2>. QED BY <1>0, <1>8, <2>1 DEF EndStop
<1>9. CASE \E t \in Timeout : \/ TimeoutSet(t) \/ ResetByState(t)
                              \/ \E p \in BOOLEAN : SetByState(t, p) \/ KeepByState(t, p)
  <2>1. ~Reporting'
    BY <1>9 DEF TimeoutSet, ResetByState, SetByState, KeepByState, TimerSet, Reporting, Sending
  <2>2. PICK t \in Timeout : /\ \A k \in Timeout \ {t} : timeout'[k] = timeout[k] /\ silenced'[k] = silenced[k]
                             /\ silenced'[t] => silenced[t] /\ timeout'[t] \in {"off", timeout[t]}
    BY <1>0, <1>9 DEF TimeoutSet, ResetByState, SetByState, KeepByState, TimerSet
  <2>. QED BY <1>0, <2>1, <2>2
<1>10. CASE \E t \in Timeout : TimeoutStop(t)
  BY <1>2, <1>10 DEF TimeoutStop, Reporting, Sending
<1>11. CASE \E u \in Urgency : HandlerSend(u)
  BY <1>1, <1>11 DEF HandlerSend, Reporting, Sending
<1>12. CASE \E t \in Timeout : TimerElapses(t)
  <2>1. PICK t \in Timeout : TimerElapses(t)
    BY <1>12
  <2>2. ~silenced[t] /\ UNCHANGED silenced /\ UNCHANGED i /\ (Reporting' <=> Reporting)
    BY <1>0, <2>1 DEF TimerElapses, Reporting, Sending
  <2>3. \A k \in Timeout \ {t} : timeout'[k] = timeout[k]
    BY <1>0, <2>1 DEF TimerElapses
  <2>. QED BY <1>0, <2>2, <2>3
<1>. QED BY Moves, <1>3, <1>4, <1>5, <1>6, <1>7, <1>8, <1>9, <1>10, <1>11, <1>12

(* What internalSignalSend() does to the queue: the new signal comes last, or *)
(* first if it is urgent.                                                     *)
LEMMA SentIds ==
  ASSUME sQueue \in Seq(signal_t), NEW x \in signal_t, NEW u, Queued(x, u)
  PROVE  /\ \A k \in DOMAIN sQueue' : sQueue'[k] = x \/ \E n \in DOMAIN sQueue : sQueue'[k] = sQueue[n]
         /\ ~u => \A k \in DOMAIN sQueue' : \/ sQueue'[k] = x
                                            \/ k \in DOMAIN sQueue /\ sQueue'[k] = sQueue[k]
<1>1. /\ DOMAIN sQueue = 1 .. Len(sQueue) /\ DOMAIN sQueue' = 1 .. Len(sQueue) + 1
      /\ Len(sQueue) \in Nat
      /\ \E p \in DOMAIN sQueue' :
           /\ p = IF u THEN 1 ELSE Len(sQueue) + 1
           /\ sQueue'[p] = x
           /\ \A k \in DOMAIN sQueue' \ {p} :
                Old(k, p) \in DOMAIN sQueue /\ sQueue'[k] = sQueue[Old(k, p)]
  BY QueuedFacts
<1>2. \A k \in DOMAIN sQueue' : sQueue'[k] = x \/ \E n \in DOMAIN sQueue : sQueue'[k] = sQueue[n]
  BY <1>1
<1>3. ASSUME ~u, NEW k \in DOMAIN sQueue', sQueue'[k] # x
      PROVE  k \in DOMAIN sQueue /\ sQueue'[k] = sQueue[k]
  <2>1. k # Len(sQueue) + 1 /\ Old(k, Len(sQueue) + 1) \in DOMAIN sQueue
        /\ sQueue'[k] = sQueue[Old(k, Len(sQueue) + 1)]
    BY <1>1, <1>3
  <2>2. Old(k, Len(sQueue) + 1) = k
    BY <1>1, <2>1 DEF Old
  <2>. QED BY <2>1, <2>2
<1>. QED BY <1>2, <1>3

LEMMA SilentKept == ASSUME DeliveryInv, DeliveryNext PROVE Silent'
<1>0. /\ StoppedIsOff /\ Places /\ app' = app /\ sQueue \in Seq(signal_t) /\ local \in signal_t
      /\ timeout \in [Timeout -> {"off", "running", "expired"}] /\ silenced \in [Timeout -> BOOLEAN]
      /\ overflow \in BOOLEAN /\ cnt \in Nat /\ cnt <= Len(sQueue)
      /\ DOMAIN sQueue = 1 .. Len(sQueue) /\ Len(sQueue) \in Nat
      /\ sent \in Nat /\ sent <= MaxSends /\ MaxSends \in Nat /\ DeliveryTypes
  BY SMTT(30), TypesKept, SignalTypes DEF DeliveryInv, Silent, DeliveryTypes
<1>1. SUFFICES ASSUME Undisturbed' PROVE NoneWaits' /\ NonePassed'
  BY StoppedIsOffKept DEF Silent
<1>2. Undisturbed /\ NoneWaits /\ NonePassed /\ ~overflow'
  BY <1>0, <1>1, OverflowStays DEF Undisturbed, DeliveryInv, Silent
<1>. USE DEF machine, timers, log
<1>3. CASE Run \/ CheckExpired \/ RestartTimeout \/ EndTimeouts \/ CallSend \/ Return \/ ClearData \/ Exclusion
  <2>1. UNCHANGED <<sQueue, silenced>> /\ ~Rotating'
    BY <1>3 DEF Run, CheckExpired, RestartTimeout, EndTimeouts, CallSend, Return, ClearData, Exclusion, Rotating
  <2>. QED BY <1>2, <2>1 DEF NoneWaits, NonePassed, Rotating
<1>4. CASE \E t \in Timeout : \/ TimeoutSet(t) \/ ResetByState(t)
                              \/ \E p \in BOOLEAN : SetByState(t, p) \/ KeepByState(t, p)
  <2>1. UNCHANGED sQueue /\ ~Rotating' /\ \A t \in Timeout : silenced'[t] => silenced[t]
    BY <1>0, <1>4 DEF TimeoutSet, ResetByState, SetByState, KeepByState, TimerSet, Rotating
  <2>. QED BY <1>2, <2>1 DEF NoneWaits, NonePassed, Rotating
<1>5. CASE \E t \in Timeout : TimerElapses(t)
  <2>1. UNCHANGED <<sQueue, silenced, pc, local, cnt, i>>
    BY <1>5 DEF TimerElapses
  <2>. QED BY <1>2, <2>1 DEF NoneWaits, NonePassed, Rotating
<1>6. CASE \E t \in Timeout : TimeoutStop(t)
  <2>1. UNCHANGED <<sQueue, silenced>> /\ cnt' = Len(sQueue) /\ pc' = "rotate"
    BY <1>6 DEF TimeoutStop
  <2>. QED BY <1>0, <1>2, <2>1 DEF NoneWaits, NonePassed
<1>7. CASE EndStop
  <2>1. /\ i \in Timeout /\ cnt = 0 /\ UNCHANGED sQueue /\ ~Rotating' /\ Rotating
        /\ \A t \in Timeout : t # i /\ silenced'[t] => silenced[t]
    BY <1>0, <1>7 DEF EndStop, Places, Rotating
  <2>2. \A k \in DOMAIN sQueue : sQueue[k].id # i
    BY <1>0, <1>2, <2>1 DEF NonePassed
  <2>. QED BY <1>2, <2>1, <2>2 DEF NoneWaits, NonePassed, Rotating
<1>8. CASE Receive
  <2>1. UNCHANGED silenced /\ ~Rotating'
    BY <1>8 DEF Receive, Rotating
  <2>2. CASE sQueue = <<>>
    <3>1. UNCHANGED sQueue
      BY <1>8, <2>2 DEF Receive
    <3>. QED BY <1>2, <2>1, <3>1 DEF NoneWaits, NonePassed, Rotating
  <2>3. CASE sQueue # <<>>
    <3>1. PICK r : r = Tail(sQueue)
      OBVIOUS
    <3>2. \A k \in DOMAIN r : k + 1 \in DOMAIN sQueue /\ r[k] = sQueue[k + 1]
      BY <1>0, <2>3, <3>1, TailFacts
    <3>3. sQueue' = r
      BY <1>8, <2>3, <3>1 DEF Receive
    <3>. QED BY <1>2, <2>1, <3>2, <3>3 DEF NoneWaits, NonePassed, Rotating
  <2>. QED BY <2>2, <2>3
<1>9. CASE \E u \in Urgency : TrySend(u)
  <2>1. PICK u \in Urgency : TrySend(u)
    BY <1>9
  <2>2. /\ UNCHANGED silenced /\ ~Rotating' /\ Queued(local, u)
        /\ \A t \in Timeout : silenced[t] => local.id # t
    BY <1>0, <1>2, <2>1, SignalTypes DEF TrySend, Enqueue, Refused, Places, Sending, Rotating, Reporting,
       StoppedIsOff
  <2>3. \A k \in DOMAIN sQueue' : sQueue'[k] = local \/ \E n \in DOMAIN sQueue : sQueue'[k] = sQueue[n]
    BY <1>0, <2>2, SentIds
  <2>. QED BY <1>2, <2>2, <2>3 DEF NoneWaits, NonePassed, Rotating
<1>10. CASE Store
  BY <1>0, <1>2, <1>10 DEF Store, Places
<1>11. CASE Rotate
  <2>1. /\ sQueue # <<>> /\ sQueue' = Tail(sQueue) /\ local' = Head(sQueue) /\ pc = "rotate"
        /\ UNCHANGED <<silenced, i>> /\ cnt \in Nat \ {0} /\ cnt' = cnt - 1
        /\ pc' = IF local'.id = i THEN "rotate" ELSE "keep"
    BY <1>0, <1>11 DEF Rotate
  <2>2. PICK r : r = Tail(sQueue)
    OBVIOUS
  <2>3. /\ \A k \in DOMAIN r : k + 1 \in DOMAIN sQueue /\ r[k] = sQueue[k + 1] /\ k \in Nat
        /\ 1 \in DOMAIN sQueue /\ Head(sQueue) = sQueue[1]
    BY <1>0, <2>1, <2>2, TailFacts
  <2>6. sQueue' = r /\ local' = sQueue[1]
    BY <2>1, <2>2, <2>3
  <2>4. NoneWaits'
    <3>1. \A t \in Timeout : silenced[t] => \A k \in DOMAIN r : r[k].id # t
      BY <1>2, <2>3 DEF NoneWaits
    <3>2. \A t \in Timeout : silenced[t] => local'.id # t
      BY <1>2, <2>3, <2>6 DEF NoneWaits
    <3>. QED BY <2>1, <2>6, <3>1, <3>2 DEF NoneWaits
  <2>5. \A k \in DOMAIN r : k > cnt' => r[k].id # i
    BY <1>2, <2>1, <2>3 DEF NonePassed, Rotating
  <2>. QED BY <2>1, <2>2, <2>4, <2>5 DEF NonePassed
<1>12. CASE Keep
  <2>1. /\ pc = "keep" /\ UNCHANGED <<silenced, i, cnt>> /\ pc' = "rotate" /\ Queued(local, FALSE)
    BY <1>2, <1>12 DEF Keep, Queued
  <2>2. /\ \A k \in DOMAIN sQueue' : \/ sQueue'[k] = local
                                     \/ k \in DOMAIN sQueue /\ sQueue'[k] = sQueue[k]
    BY <1>0, <2>1, SentIds
  <2>. QED BY <1>2, <2>1, <2>2 DEF NoneWaits, NonePassed, Rotating
<1>13. CASE \E u \in Urgency : HandlerSend(u)
  <2>1. PICK u \in Urgency : HandlerSend(u)
    BY <1>13
  <2>2. PICK x \in Messages : Numbered(x) /\ (Enqueue(x, u) \/ Refused \/ Exclude(x))
    BY <2>1 DEF HandlerSend
  <2>9. x \in signal_t /\ x.id \notin Timeout
    BY <1>0, <2>2, MessageFacts
  <2>3. UNCHANGED <<pc, local, i, cnt, silenced>> /\ u = FALSE
    BY <1>0, <1>2, <2>1 DEF HandlerSend, Undisturbed, Urgency
  <2>4. Queued(x, FALSE)
    BY <1>2, <2>2, <2>3 DEF Enqueue, Refused, Exclude
  <2>5. \A k \in DOMAIN sQueue' : sQueue'[k] = x \/ (k \in DOMAIN sQueue /\ sQueue'[k] = sQueue[k])
    BY <1>0, <2>9, <2>4, SentIds
  <2>6. NoneWaits'
    <3>1. \A t \in Timeout : x.id # t
      BY <2>9
    <3>2. \A t \in Timeout : silenced[t] => \A k \in DOMAIN sQueue' : sQueue'[k].id # t
      BY <1>2, <2>5, <3>1 DEF NoneWaits
    <3>. QED BY <1>2, <2>3, <3>2 DEF NoneWaits
  <2>7. Rotating => i \in Timeout
    BY <1>0 DEF Places
  <2>8. NonePassed'
    BY <1>2, <2>3, <2>5, <2>7, <2>9 DEF NonePassed, Rotating
  <2>. QED BY <2>6, <2>8
<1>. QED BY Moves, <1>3, <1>4, <1>5, <1>6, <1>7, <1>8, <1>9, <1>10, <1>11, <1>12, <1>13

-----------------------------------------------------------------------------
LEMMA DeliveryStarts == DeliveryInit => DeliveryInv
<1>. SUFFICES ASSUME DeliveryInit PROVE DeliveryInv
  OBVIOUS
<1>. USE SignalTypes DEF DeliveryInit
<1>1. DeliveryTypes
  <2>1. app.queue \in Nat
    BY DeliveryAssumption DEF IsApplication
  <2>2. accepted \in Seq(1 .. MaxSends) /\ delivered \in Seq(0 .. MaxSends) /\ sQueue \in Seq(signal_t)
    OBVIOUS
  <2>3. /\ timeout \in [Timeout -> {"off", "running", "expired"}] /\ silenced \in [Timeout -> BOOLEAN]
    OBVIOUS
  <2>4. Len(sQueue) = 0 /\ Len(sQueue) <= app.queue
    BY <2>1
  <2>5. cnt <= Len(sQueue) /\ sent <= MaxSends
    BY <2>4
  <2>6. i \in Nat \ {0} /\ cnt \in Nat /\ sent \in Nat
    OBVIOUS
  <2>8. overflow \in BOOLEAN /\ pc = "idle" /\ app \in Applications
    OBVIOUS
  <2>7. signalNot \in signal_t /\ local \in signal_t
    BY SignalTypes
  <2>. HIDE DEF DeliveryInit
  <2>. QED BY <2>2, <2>3, <2>4, <2>5, <2>6, <2>7, <2>8 DEF DeliveryTypes
<1>2. Places /\ Exclusive /\ Silent
  BY DEF Places, Exclusive, Silent, Sending, Reporting, Rotating, StoppedIsOff, NoneWaits, NonePassed, NoSignal
<1>3. DOMAIN accepted = {} /\ DOMAIN delivered = {} /\ DOMAIN sQueue = {}
  OBVIOUS
<1>4. Fresh
  BY <1>3 DEF Fresh, Sending
<1>5. ~HasKept /\ ~HasExcluded
  BY DEF HasKept, HasExcluded, NoSignal
<1>6. Conserved /\ Ordered
  BY <1>3, <1>5 DEF Conserved, InPlace, InOnePlace, InSomePlace, Intact, Ordered, Users, Elements
<1>. QED BY <1>1, <1>2, <1>4, <1>6 DEF DeliveryInv

LEMMA DeliveryInvKept == DeliveryInv /\ [DeliveryNext]_deliveryVars => DeliveryInv'
<1>. SUFFICES ASSUME DeliveryInv, [DeliveryNext]_deliveryVars PROVE DeliveryInv'
  OBVIOUS
<1>1. CASE DeliveryNext
  BY <1>1, TypesKept, PlacesKept, ExclusiveKept, FreshKept, ConservedKept, OrderedKept, SilentKept
     DEF DeliveryInv
<1>2. CASE UNCHANGED deliveryVars
  <2>. USE <1>2 DEF deliveryVars, machine, timers, log, DeliveryInv
  <2>1. DeliveryTypes' /\ Places' /\ Exclusive'
    BY DEF DeliveryTypes, Places, Exclusive, Sending, Reporting, Rotating
  <2>2. Fresh'
    BY DEF Fresh, Sending
  <2>3. Conserved'
    BY StillConserved DEF Conserved, Carried, Protected, HasKept, HasExcluded
  <2>4. Ordered'
    <3>1. InTurn' => InTurn
      BY DEF InTurn
    <3>2. InTurn => Ordered'
      BY OrderedStill DEF HasKept
    <3>. QED BY <3>1, <3>2 DEF Ordered
  <2>5. Silent'
    BY DEF Silent, StoppedIsOff, NoneWaits, NonePassed, Undisturbed, Reporting, Sending, Rotating
  <2>. QED BY <2>1, <2>2, <2>3, <2>4, <2>5
<1>. QED BY <1>1, <1>2

LEMMA DeliveryInvariant == DeliverySpec => []DeliveryInv
BY DeliveryStarts, DeliveryInvKept, PTL DEF DeliverySpec

-----------------------------------------------------------------------------
LEMMA ConcatFacts ==
  ASSUME NEW S, NEW p \in Seq(S), NEW q \in Seq(S), NEW r, r = p \o q, NEW m, m = Len(p), NEW n, n = Len(q)
  PROVE  /\ r \in Seq(S) /\ Len(r) = m + n /\ DOMAIN r = 1 .. m + n
         /\ \A k \in 1 .. m : r[k] = p[k]
         /\ \A k \in 1 .. n : r[m + k] = q[k]
OBVIOUS

(* The signals that wait are those of the queue, the one timeoutStop() holds, *)
(* if it holds one, and the one in the exclusion variable, if there is one.   *)
LEMMA WaitingPlaces ==
  ASSUME DeliveryTypes
  PROVE  \E h \in {0, 1} :
    LET L == Len(sQueue) IN
    /\ h = 1 <=> pc = "keep"
    /\ Len(sQueue) \in Nat /\ DOMAIN sQueue = 1 .. L
    /\ DOMAIN Waiting = 1 .. h + L + Len(Excluded)
    /\ Len(Excluded) = IF signalNot.id = SIGNAL_NONE THEN 0 ELSE 1
    /\ h = 1 => Waiting[1] = local
    /\ \A k \in DOMAIN sQueue : h + k \in DOMAIN Waiting /\ Waiting[h + k] = sQueue[k]
    /\ \A k \in DOMAIN Waiting :
         \/ k = 1 /\ h = 1
         \/ k - h \in DOMAIN sQueue
         \/ k = h + L + 1 /\ signalNot.id # SIGNAL_NONE /\ Waiting[k] = signalNot
    /\ signalNot.id # SIGNAL_NONE =>
         h + L + 1 \in DOMAIN Waiting /\ Waiting[h + L + 1] = signalNot
<1>1. sQueue \in Seq(signal_t) /\ signalNot \in signal_t /\ local \in signal_t
  BY DEF DeliveryTypes
<1>2. Kept \in Seq(signal_t) /\ Excluded \in Seq(signal_t)
  BY <1>1 DEF Kept, Excluded
<1>3. PICK L \in Nat : L = Len(sQueue) /\ DOMAIN sQueue = 1 .. L
  BY <1>1
<1>4. PICK h \in {0, 1} : /\ h = Len(Kept) /\ (h = 1 <=> pc = "keep")
                          /\ h = 1 => Kept[1] = local
  <2>1. CASE pc = "keep"
    BY <2>1 DEF Kept
  <2>2. CASE pc # "keep"
    BY <2>2 DEF Kept
  <2>. QED BY <2>1, <2>2
<1>5. PICK e \in {0, 1} : /\ e = Len(Excluded) /\ (e = 1 <=> signalNot.id # SIGNAL_NONE)
                          /\ e = 1 => Excluded[1] = signalNot
  <2>1. CASE signalNot.id = SIGNAL_NONE
    BY <2>1 DEF Excluded
  <2>2. CASE signalNot.id # SIGNAL_NONE
    BY <2>2 DEF Excluded
  <2>. QED BY <2>1, <2>2
<1>6. PICK q : q = Kept \o sQueue
  OBVIOUS
<1>7. /\ q \in Seq(signal_t) /\ DOMAIN q = 1 .. h + L /\ Len(q) = h + L
      /\ \A k \in 1 .. h : q[k] = Kept[k]
      /\ \A k \in 1 .. L : q[h + k] = sQueue[k]
  BY <1>1, <1>2, <1>3, <1>4, <1>6, ConcatFacts
<1>8. PICK w : w = q \o Excluded
  OBVIOUS
<1>9. /\ DOMAIN w = 1 .. h + L + e
      /\ \A k \in 1 .. h + L : w[k] = q[k]
      /\ \A k \in 1 .. e : w[h + L + k] = Excluded[k]
  <2>1. PICK m : m = h + L
    OBVIOUS
  <2>2. m = Len(q) /\ e = Len(Excluded) /\ q \in Seq(signal_t) /\ Excluded \in Seq(signal_t)
    BY <1>2, <1>5, <1>7, <2>1
  <2>3. /\ DOMAIN w = 1 .. m + e
        /\ \A k \in 1 .. m : w[k] = q[k]
        /\ \A k \in 1 .. e : w[m + k] = Excluded[k]
    BY <1>8, <2>2, ConcatFacts
  <2>. QED BY <2>1, <2>3
<1>10. Waiting = w
  BY <1>6, <1>8 DEF Waiting
<1>11. h = 1 => w[1] = local
  BY <1>3, <1>4, <1>7, <1>9
<1>12. \A k \in 1 .. L : h + k \in DOMAIN w /\ w[h + k] = sQueue[k]
  BY <1>3, <1>7, <1>9
<1>13. signalNot.id # SIGNAL_NONE => h + L + 1 \in DOMAIN w /\ w[h + L + 1] = signalNot
  BY <1>3, <1>5, <1>9
<1>14. \A k \in DOMAIN w : (k = 1 /\ h = 1) \/ k - h \in 1 .. L \/ (k = h + L + 1 /\ e = 1)
  BY <1>3, <1>9
<1>. QED BY <1>3, <1>4, <1>5, <1>9, <1>10, <1>11, <1>12, <1>13, <1>14

(* The same for the user's signals: where one waits, and what waits there.    *)
LEMMA WaitingUsers ==
  ASSUME DeliveryTypes
  PROVE  \E h \in {0, 1} : \E L \in Nat :
    /\ h = 1 <=> pc = "keep"
    /\ DOMAIN sQueue = 1 .. L
    /\ \A n \in Users(Waiting) :
         \/ n = 1 /\ h = 1 /\ HasKept /\ Waiting[n] = local
         \/ n > h /\ n < h + L + 1 /\ n - h \in Users(sQueue) /\ Waiting[n] = sQueue[n - h]
         \/ n = h + L + 1 /\ HasExcluded /\ Waiting[n] = signalNot
    /\ \A k \in Users(sQueue) : h + k \in Users(Waiting) /\ Waiting[h + k] = sQueue[k]
    /\ HasKept => 1 \in Users(Waiting) /\ Waiting[1] = local
    /\ HasExcluded => h + L + 1 \in Users(Waiting) /\ Waiting[h + L + 1] = signalNot
    /\ Users(Waiting) \subseteq Nat \ {0}
<1>1. PICK h \in {0, 1} :
        LET L == Len(sQueue) IN
        /\ h = 1 <=> pc = "keep"
        /\ Len(sQueue) \in Nat /\ DOMAIN sQueue = 1 .. L
        /\ DOMAIN Waiting = 1 .. h + L + Len(Excluded)
        /\ Len(Excluded) = IF signalNot.id = SIGNAL_NONE THEN 0 ELSE 1
        /\ h = 1 => Waiting[1] = local
        /\ \A k \in DOMAIN sQueue : h + k \in DOMAIN Waiting /\ Waiting[h + k] = sQueue[k]
        /\ \A k \in DOMAIN Waiting :
             \/ k = 1 /\ h = 1
             \/ k - h \in DOMAIN sQueue
             \/ k = h + L + 1 /\ signalNot.id # SIGNAL_NONE /\ Waiting[k] = signalNot
        /\ signalNot.id # SIGNAL_NONE =>
             h + L + 1 \in DOMAIN Waiting /\ Waiting[h + L + 1] = signalNot
  BY WaitingPlaces
<1>2. PICK L \in Nat : L = Len(sQueue)
  BY <1>1
<1>3. PICK e \in Nat : e = Len(Excluded)
  BY <1>1
<1>4. DOMAIN sQueue = 1 .. L /\ DOMAIN Waiting = 1 .. h + L + e
  BY <1>1, <1>2, <1>3
<1>5. /\ h = 1 => Waiting[1] = local
      /\ \A k \in DOMAIN sQueue : h + k \in DOMAIN Waiting /\ Waiting[h + k] = sQueue[k]
      /\ \A k \in DOMAIN Waiting :
           \/ k = 1 /\ h = 1
           \/ k - h \in DOMAIN sQueue
           \/ k = h + L + 1 /\ signalNot.id # SIGNAL_NONE /\ Waiting[k] = signalNot
      /\ signalNot.id # SIGNAL_NONE =>
           h + L + 1 \in DOMAIN Waiting /\ Waiting[h + L + 1] = signalNot
  BY <1>1, <1>2
<1>6. ASSUME NEW n \in Users(Waiting)
      PROVE  \/ n = 1 /\ h = 1 /\ HasKept /\ Waiting[n] = local
             \/ n > h /\ n < h + L + 1 /\ n - h \in Users(sQueue) /\ Waiting[n] = sQueue[n - h]
             \/ n = h + L + 1 /\ HasExcluded /\ Waiting[n] = signalNot
  <2>1. n \in DOMAIN Waiting /\ Waiting[n].id = USER /\ n \in Nat \ {0}
    BY <1>4 DEF Users
  <2>2. CASE n = 1 /\ h = 1
    BY <1>1, <1>5, <2>1, <2>2 DEF HasKept
  <2>3. CASE n - h \in DOMAIN sQueue
    <3>1. n > h /\ n < h + L + 1 /\ h + (n - h) = n
      BY <1>4, <2>1, <2>3
    <3>2. Waiting[n] = sQueue[n - h]
      BY <1>5, <2>3, <3>1
    <3>. QED BY <2>1, <2>3, <3>1, <3>2 DEF Users
  <2>4. CASE n = h + L + 1 /\ signalNot.id # SIGNAL_NONE /\ Waiting[n] = signalNot
    BY <2>1, <2>4 DEF HasExcluded
  <2>. QED BY <1>5, <2>1, <2>2, <2>3, <2>4
<1>7. \A k \in Users(sQueue) : h + k \in Users(Waiting) /\ Waiting[h + k] = sQueue[k]
  BY <1>5 DEF Users
<1>8. HasKept => 1 \in Users(Waiting) /\ Waiting[1] = local
  <2>1. ASSUME HasKept PROVE 1 \in DOMAIN Waiting /\ Waiting[1] = local
    <3>1. h = 1
      BY <1>1, <2>1 DEF HasKept
    <3>. QED BY <1>4, <1>5, <3>1
  <2>. QED BY <2>1 DEF HasKept, Users
<1>9. HasExcluded => h + L + 1 \in Users(Waiting) /\ Waiting[h + L + 1] = signalNot
  BY <1>5, SignalTypes DEF HasExcluded, Users
<1>10. Users(Waiting) \subseteq Nat \ {0}
  BY <1>4 DEF Users
<1>11. h = 1 <=> pc = "keep"
  BY <1>1
<1>. QED BY ZenonT(60), <1>4, <1>6, <1>7, <1>8, <1>9, <1>10, <1>11

LEMMA KeptInPlace == DeliveryInv => AcceptedKept
<1>. SUFFICES ASSUME DeliveryInv PROVE AcceptedKept
  OBVIOUS
<1>1. InPlace /\ InOnePlace /\ (Protected => Intact /\ InSomePlace)
  BY DEF DeliveryInv, Conserved
<1>2. PICK h \in {0, 1}, L \in Nat :
        /\ h = 1 <=> pc = "keep"
        /\ DOMAIN sQueue = 1 .. L
        /\ \A n \in Users(Waiting) :
             \/ n = 1 /\ h = 1 /\ HasKept /\ Waiting[n] = local
             \/ n > h /\ n < h + L + 1 /\ n - h \in Users(sQueue) /\ Waiting[n] = sQueue[n - h]
             \/ n = h + L + 1 /\ HasExcluded /\ Waiting[n] = signalNot
        /\ \A k \in Users(sQueue) : h + k \in Users(Waiting) /\ Waiting[h + k] = sQueue[k]
        /\ HasKept => 1 \in Users(Waiting) /\ Waiting[1] = local
        /\ HasExcluded => h + L + 1 \in Users(Waiting) /\ Waiting[h + L + 1] = signalNot
        /\ Users(Waiting) \subseteq Nat \ {0}
  BY WaitingUsers DEF DeliveryInv
<1>3. \A d \in WaitingData : Held(d)
  BY <1>1, <1>2 DEF InPlace, WaitingData
<1>4. Protected => Elements(accepted) \subseteq WaitingData \cup Elements(delivered)
  BY <1>1, <1>2 DEF InSomePlace, WaitingData
<1>5. Elements(delivered) \ {0} \subseteq Elements(accepted)
  BY <1>1 DEF InPlace, Elements
<1>6. ASSUME NEW k \in Users(Waiting), NEW n \in Users(Waiting), Waiting[k].data = Waiting[n].data,
             Waiting[k].data # 0
      PROVE  k = n
  <2>0. k \in Nat /\ n \in Nat
    BY <1>2
  <2>1. CASE k > h /\ k < h + L + 1 /\ n > h /\ n < h + L + 1
    <3>1. /\ k - h \in Users(sQueue) /\ Waiting[k] = sQueue[k - h]
          /\ n - h \in Users(sQueue) /\ Waiting[n] = sQueue[n - h]
      BY <1>2, <2>0, <2>1
    <3>2. k - h = n - h
      BY <1>1, <1>6, <3>1 DEF InOnePlace
    <3>. QED BY <2>0, <3>2
  <2>2. CASE ~(k > h /\ k < h + L + 1) /\ ~(n > h /\ n < h + L + 1)
    BY <1>1, <1>2, <1>6, <2>0, <2>2 DEF InOnePlace
  <2>3. CASE (k > h /\ k < h + L + 1) /\ ~(n > h /\ n < h + L + 1)
    BY <1>1, <1>2, <1>6, <2>0, <2>3 DEF InOnePlace
  <2>4. CASE ~(k > h /\ k < h + L + 1) /\ (n > h /\ n < h + L + 1)
    BY <1>1, <1>2, <1>6, <2>0, <2>4 DEF InOnePlace
  <2>. QED BY <2>1, <2>2, <2>3, <2>4
<1>7. \A k, n \in DOMAIN delivered : delivered[k] = delivered[n] => k = n \/ delivered[k] = 0
  BY <1>1 DEF InOnePlace
<1>8. Protected => 0 \notin WaitingData /\ 0 \notin Elements(delivered)
  BY <1>1, <1>2 DEF Intact, WaitingData, Elements
<1>9. (WaitingData \cup Elements(delivered)) \ {0} \subseteq Elements(accepted)
  BY <1>3, <1>5 DEF Held
<1>10. WaitingData \cap Elements(delivered) \subseteq {0}
  BY <1>3 DEF Held
<1>11. Protected => Elements(accepted) = WaitingData \cup Elements(delivered)
  BY <1>4, <1>8, <1>9
<1>. QED BY <1>6, <1>7, <1>9, <1>10, <1>11 DEF AcceptedKept, Protected

LEMMA OrderedInTurn == DeliveryInv => DeliveredInOrder
<1>. SUFFICES ASSUME DeliveryInv, InTurn
              PROVE  /\ \A k \in DOMAIN delivered : k \in DOMAIN accepted /\ delivered[k] = accepted[k]
                     /\ pc \notin {"rotate", "keep"} =>
                          \A k, n \in Users(Waiting) : \A a, b \in DOMAIN accepted :
                            k < n /\ accepted[a] = Waiting[k].data /\ accepted[b] = Waiting[n].data => a < b
  BY DEF DeliveredInOrder, InTurn
<1>1. /\ \A k \in DOMAIN delivered : k \in DOMAIN accepted /\ delivered[k] = accepted[k]
      /\ \A k, n \in Users(sQueue) :
           Before(cnt, k, n) => InOrder(accepted, sQueue[k].data, sQueue[n].data)
  BY DEF DeliveryInv, Ordered
<1>2. PICK h \in {0, 1}, L \in Nat :
        /\ h = 1 <=> pc = "keep"
        /\ DOMAIN sQueue = 1 .. L
        /\ \A n \in Users(Waiting) :
             \/ n = 1 /\ h = 1 /\ HasKept /\ Waiting[n] = local
             \/ n > h /\ n < h + L + 1 /\ n - h \in Users(sQueue) /\ Waiting[n] = sQueue[n - h]
             \/ n = h + L + 1 /\ HasExcluded /\ Waiting[n] = signalNot
        /\ Users(Waiting) \subseteq Nat \ {0}
  BY WaitingUsers DEF DeliveryInv
<1>3. ~HasExcluded
  BY SignalTypes DEF HasExcluded, DeliveryInv, Exclusive, InTurn
<1>4. ASSUME pc \notin {"rotate", "keep"}, NEW k \in Users(Waiting), NEW n \in Users(Waiting), k < n
      PROVE  InOrder(accepted, Waiting[k].data, Waiting[n].data)
  <2>1. h = 0 /\ cnt = 0 /\ k \in Nat \ {0} /\ n \in Nat \ {0}
    BY <1>2, <1>4 DEF DeliveryInv, Places, Rotating
  <2>2. /\ k \in Users(sQueue) /\ Waiting[k] = sQueue[k]
        /\ n \in Users(sQueue) /\ Waiting[n] = sQueue[n]
    <3>1. k - h = k /\ n - h = n
      BY <2>1
    <3>2. h # 1
      BY <2>1
    <3>. QED BY <1>2, <1>3, <3>1, <3>2
  <2>3. Before(cnt, k, n)
    BY <1>4, <2>1 DEF Before
  <2>. QED BY <1>1, <2>2, <2>3
<1>. QED BY <1>1, <1>4 DEF InOrder

LEMMA SilentStep ==
  ASSUME DeliveryInv, [DeliveryNext]_deliveryVars
  PROVE  \A t \in Timeout : xSignal'.id = t /\ xSignal' # xSignal =>
           overflow \/ (app.urgent /\ "handler" \in app.senders) \/ ~silenced[t]
<1>. SUFFICES ASSUME NEW t \in Timeout, xSignal'.id = t, xSignal' # xSignal, Undisturbed
              PROVE  ~silenced[t]
  BY DEF Undisturbed, DeliveryInv, DeliveryTypes
<1>1. NoneWaits /\ signalNot.id = SIGNAL_NONE /\ sQueue \in Seq(signal_t)
  BY DEF DeliveryInv, Silent, Exclusive, Undisturbed, DeliveryTypes
<1>2. DeliveryNext
  BY DEF deliveryVars, machine
<1>3. Receive \/ Exclusion \/ Return
  BY <1>2, Moves DEF Run, CheckExpired, RestartTimeout, EndTimeouts, ClearData, TrySend, Store, Rotate, Keep,
     EndStop, CallSend, TimeoutSet, TimerSet, ResetByState, SetByState, KeepByState, TimeoutStop, HandlerSend,
     TimerElapses, machine
<1>4. CASE Receive
  <2>1. sQueue # <<>> /\ xSignal' = Head(sQueue)
    BY <1>4 DEF Receive, Given
  <2>2. 1 \in DOMAIN sQueue /\ xSignal' = sQueue[1]
    BY <1>1, <2>1, TailFacts
  <2>. QED BY <1>1, <2>2 DEF NoneWaits
<1>5. CASE Exclusion
  BY <1>1, <1>5, SignalTypes DEF Exclusion, Given
<1>6. CASE Return
  BY <1>6, SignalTypes DEF Return, NoSignal
<1>. QED BY <1>3, <1>4, <1>5, <1>6

-----------------------------------------------------------------------------
(* A signal that sendSignal() accepted (fsm.cpp 253-287) is never delivered   *)
(* twice by run(), nor delivered while it waits (686-720) in the queue, in    *)
(* the hands of timeoutStop() or in the exclusion variable, whoever sends;    *)
(* and it is delivered or waits, unless handlers send and signals overflow.   *)
THEOREM AcceptedIsDeliveredOnce == DeliverySpec => []AcceptedKept
BY DeliveryInvariant, KeptInPlace, PTL

(* Signals are delivered in the order in which they were accepted (fsm.cpp    *)
(* 253-287, 686-720), timeoutStop() rotating the queue included (385-408), as *)
(* long as the queue does not overflow, none is urgent, and no handler sends  *)
(* while timeouts are stopped.                                                *)
THEOREM SignalsKeepOrder == DeliverySpec => []DeliveredInOrder
BY DeliveryInvariant, OrderedInTurn, PTL

(* After timeoutStop() (fsm.cpp 385-408) no signal of the timeout reaches the *)
(* machine until it is set again, unless signals overflowed or a handler      *)
(* sends urgent ones.                                                         *)
THEOREM StoppedTimeoutIsSilent == DeliverySpec => StoppedStaysSilent
<1>1. DeliveryInv /\ [DeliveryNext]_deliveryVars =>
        [\A t \in Timeout : xSignal'.id = t /\ xSignal' # xSignal =>
           overflow \/ (app.urgent /\ "handler" \in app.senders) \/ ~silenced[t]]_deliveryVars
  BY SilentStep
<1>. QED BY <1>1, DeliveryInvariant, PTL DEF DeliverySpec, StoppedStaysSilent
====
