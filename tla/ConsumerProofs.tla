--------------------------- MODULE ConsumerProofs ---------------------------
(***************************************************************************)
(* Proofs about Consumer, for any envelopes and message ids, any capacity  *)
(* of the deduplication window, any prefetch and any number of lost        *)
(* connections, closed channels, restarts and resets.                      *)
(***************************************************************************)
EXTENDS Consumer, TLAPS

----------------------------------------------------------------------------
(* The supervisor *)

(* Until a shutdown, exactly one of the three, without arithmetic. *)
ExactlyOne ==
    \/ reconnectTimer /\ pc = "idle" /\ ~isRunning
    \/ ~reconnectTimer /\ pc # "idle" /\ ~isRunning
    \/ ~reconnectTimer /\ pc = "idle" /\ isRunning

(* The inductive form of Supervised. *)
SuperInv ==
    /\ ~stopping => ExactlyOne
    /\ stopping => ~reconnectTimer
    /\ halting # "none" => stopping

LEMMA OneHolds == ExactlyOne => Holds(reconnectTimer) + Holds(pc # "idle") + Holds(isRunning) = 1
<1> SUFFICES ASSUME ExactlyOne
             PROVE  Holds(reconnectTimer) + Holds(pc # "idle") + Holds(isRunning) = 1
  OBVIOUS
<1> DEFINE Sum(a, b, c) == a + b + c = 1
<1>1. Sum(1, 0, 0) /\ Sum(0, 1, 0) /\ Sum(0, 0, 1)
  BY SMT
<1> HIDE DEF Sum
<1>2. Sum(Holds(reconnectTimer), Holds(pc # "idle"), Holds(isRunning))
  <2>1. CASE reconnectTimer /\ pc = "idle" /\ ~isRunning
    <3>1. Holds(reconnectTimer) = 1 /\ Holds(pc # "idle") = 0 /\ Holds(isRunning) = 0
      BY <2>1, Zenon DEF Holds
    <3> QED
      BY <3>1, <1>1, Zenon
  <2>2. CASE ~reconnectTimer /\ pc # "idle" /\ ~isRunning
    <3>1. Holds(reconnectTimer) = 0 /\ Holds(pc # "idle") = 1 /\ Holds(isRunning) = 0
      BY <2>2, Zenon DEF Holds
    <3> QED
      BY <3>1, <1>1, Zenon
  <2>3. CASE ~reconnectTimer /\ pc = "idle" /\ isRunning
    <3>1. Holds(reconnectTimer) = 0 /\ Holds(pc # "idle") = 0 /\ Holds(isRunning) = 1
      BY <2>3, Zenon DEF Holds
    <3> QED
      BY <3>1, <1>1, Zenon
  <2> QED
    BY <2>1, <2>2, <2>3, Zenon DEF ExactlyOne
<1> QED
  BY <1>2 DEF Sum

LEMMA SuperImplies == SuperInv => Supervised
BY OneHolds, Zenon DEF SuperInv, Supervised

LEMMA SuperInit == Init => SuperInv
BY DEF Init, SuperInv, ExactlyOne

LEMMA SuperSteps ==
    ASSUME SuperInv, Supervision
    PROVE  SuperInv'
<1> USE DEF SuperInv, ExactlyOne, stopVars
<1>1. CASE ReconnectTimerFires
  BY <1>1 DEF ReconnectTimerFires
<1>2. CASE Connect
  BY <1>2 DEF Connect
<1>3. CASE Declare
  BY <1>3 DEF Declare
<1>4. CASE Started
  BY <1>4 DEF Started
<1>5. CASE StartFailed
  BY <1>5 DEF StartFailed, Schedule, FailureSchedules
<1> QED
  BY <1>1, <1>2, <1>3, <1>4, <1>5 DEF Supervision

(* A connection that closes schedules a reconnect exactly when it had been *)
(* running; otherwise the start() in flight fails, or a timer is pending.  *)
LEMMA SuperClose ==
    ASSUME SuperInv, ConnectionClosed, UNCHANGED stopVars
    PROVE  SuperInv'
BY DEF SuperInv, ExactlyOne, ConnectionClosed, Schedule, CloseSchedules,
       RunningOnClose, Pending, stopVars

LEMMA SuperNext == SuperInv /\ [Next]_vars => SuperInv'
<1> SUFFICES ASSUME SuperInv, [Next]_vars PROVE SuperInv'
  OBVIOUS
<1> USE DEF SuperInv, ExactlyOne, superVars, stopVars
<1>1. CASE \E c \in Copies : Publish(c) \/ Deliver(c) \/ Settle(c) \/ Handle(c)
  BY <1>1 DEF Publish, Deliver, Settle, Handle
<1>2. CASE Supervision
  BY <1>2, SuperSteps
<1>3. CASE DropConnection
  BY <1>3, SuperClose DEF DropConnection
<1>4. CASE BrokerStarts \/ Reset
  BY <1>4 DEF BrokerStarts, Reset
<1>5. CASE CloseChannel
  BY <1>5 DEF CloseChannel, Pending
<1>6. CASE Restart \/ Exit
  BY <1>6 DEF Restart, Exit
<1>7. CASE Stop
  BY <1>7 DEF Stop
<1>8. CASE Cancelled
  <2>1. UNCHANGED <<stopping, isRunning, reconnectTimer, pc>> /\ stopping
    BY <1>8 DEF Cancelled
  <2> QED
    BY <2>1
<1>9. CASE ChannelClosed
  <2>1. UNCHANGED <<stopping, isRunning, reconnectTimer>> /\ stopping
    BY <1>9 DEF ChannelClosed
  <2> QED
    BY <2>1
<1>10. CASE UNCHANGED vars
  BY <1>10 DEF vars
<1> QED
  BY <1>1, <1>2, <1>3, <1>4, <1>5, <1>6, <1>7, <1>8, <1>9, <1>10 DEF Next

(* Until a shutdown exactly one of a scheduled reconnect, a start() in     *)
(* flight and a running consumer exists; from then on no reconnect is      *)
(* scheduled (consumer.service.ts:91-184).                                 *)
THEOREM SupervisionNeverEnds == Spec => []Supervised
BY SuperInit, SuperNext, SuperImplies, PTL DEF Spec

----------------------------------------------------------------------------
(* Health *)

(* The window between the reply to basic.consume and the rest of start()   *)
(* belongs to the running consumer; only stop() cancels one.               *)
HealthInv ==
    /\ channelCloses = 0 /\ ~stopping => (isRunning \/ pc = "consumed" => consuming)
    /\ halting # "none" => stopping

LEMMA HealthNext == HealthInv /\ channelCloses \in Nat /\ [Next]_vars => HealthInv'
<1> SUFFICES ASSUME HealthInv, channelCloses \in Nat, [Next]_vars PROVE HealthInv'
  OBVIOUS
<1> USE DEF HealthInv, superVars, brokerVars, boundVars, stopVars
<1>1. CASE \E c \in Copies : Publish(c) \/ Deliver(c) \/ Settle(c) \/ Handle(c)
  BY <1>1 DEF Publish, Deliver, Settle, Handle
<1>2. CASE Supervision
  BY <1>2 DEF Supervision, ReconnectTimerFires, Connect, Declare, Started, StartFailed
<1>3. CASE DropConnection
  BY <1>3 DEF DropConnection, ConnectionClosed, RunningOnClose, Pending
<1>4. CASE BrokerStarts \/ Reset
  BY <1>4 DEF BrokerStarts, Reset
<1>5. CASE CloseChannel
  BY <1>5 DEF CloseChannel
<1>6. CASE Restart \/ Stop \/ Cancelled \/ ChannelClosed \/ Exit
  BY <1>6 DEF Restart, Stop, Cancelled, ChannelClosed, Exit
<1>7. CASE UNCHANGED vars
  BY <1>7 DEF vars
<1> QED
  BY <1>1, <1>2, <1>3, <1>4, <1>5, <1>6, <1>7 DEF Next

LEMMA ClosesCounted == channelCloses \in Nat /\ [Next]_vars => (channelCloses \in Nat)'
BY DEF Next, vars, boundVars, Publish, Deliver, Settle, Handle, Supervision,
       ReconnectTimerFires, Connect, Declare, Started, StartFailed, DropConnection,
       BrokerStarts, CloseChannel, Reset, Restart, Stop, Cancelled, ChannelClosed, Exit

(* GET /health says UP only of a consumer that is registered with the      *)
(* broker, until a shutdown and as long as no channel was closed alone.    *)
THEOREM HealthIsHonest == Spec => []HealthyMeansConsuming
<1>1. Init => HealthInv /\ channelCloses \in Nat
  BY DEF Init, HealthInv
<1>2. HealthInv => HealthyMeansConsuming
  BY DEF HealthInv, HealthyMeansConsuming
<1> QED
  BY <1>1, <1>2, HealthNext, ClosesCounted, PTL DEF Spec

----------------------------------------------------------------------------
(* Envelopes *)

(* NoEnvelopeLost, with what makes it inductive: only what does not        *)
(* validate is nacked, and the window only names what was executed.        *)
EnvelopeInv ==
    /\ NoEnvelopeLost
    /\ nacks \subseteq Malformed
    /\ window \in Seq(executed)

LEMMA EnvelopeInit == Init => EnvelopeInv
BY DEF Init, EnvelopeInv, NoEnvelopeLost

(* What only hands copies back to the queue loses none, whether the store  *)
(* keeps its window or is emptied.                                         *)
LEMMA EnvelopeRequeue ==
    ASSUME EnvelopeInv, Requeue,
           coming' = coming, deadLettered' = deadLettered, executed' = executed,
           window' = window \/ window' = <<>>
    PROVE  EnvelopeInv'
<1>1. window' \in Seq(executed')
  <2>1. window \in Seq(executed') /\ <<>> \in Seq(executed')
    BY SMT DEF EnvelopeInv
  <2> QED
    BY <2>1, Zenon
<1>2. nacks' \subseteq Malformed
  BY DEF Requeue
<1>3. NoEnvelopeLost'
  BY Zenon DEF EnvelopeInv, NoEnvelopeLost, Requeue, Unconfirmed
<1> QED
  BY <1>1, <1>2, <1>3 DEF EnvelopeInv

LEMMA EnvelopeHandle ==
    ASSUME EnvelopeInv, NEW c \in Copies, Handle(c)
    PROVE  EnvelopeInv'
<1> USE DEF EnvelopeInv, NoEnvelopeLost, Handle, Nacked, queueVars
<1>1. CASE c \in Malformed
  BY <1>1 DEF dedupVars
<1>2. CASE c \notin Malformed /\ Contains(window, MessageId[c])
  <2>1. MessageId[c] \in executed
    BY <1>2 DEF Contains
  <2> QED
    BY <1>2, <2>1 DEF dedupVars
<1>3. CASE c \notin Malformed /\ ~Contains(window, MessageId[c])
  <2>1. /\ window' = Recorded(MessageId[c])
        /\ executed' = executed \cup {MessageId[c]}
        /\ nacks' = nacks /\ inbox' = inbox \ {c}
        /\ UNCHANGED <<coming, ready, deadLettered>>
    BY <1>3
  <2>2. window \in Seq(executed')
    BY <2>1
  <2>3. window' \in Seq(executed')
    <3>1. CASE Len(window) >= Capacity
      <4>1. Len(window) > 0
        BY <3>1, OptionsAssumption
      <4>2. Tail(window) \in Seq(executed')
        BY <4>1, <2>2
      <4> QED
        BY <4>2, <3>1, <2>1 DEF Recorded
    <3>2. CASE ~(Len(window) >= Capacity)
      BY <3>2, <2>2, <2>1 DEF Recorded
    <3> QED
      BY <3>1, <3>2
  <2>4. NoEnvelopeLost'
    BY <2>1 DEF NoEnvelopeLost
  <2> QED
    BY <2>1, <2>3, <2>4
<1> QED
  BY <1>1, <1>2, <1>3

LEMMA EnvelopeNext == EnvelopeInv /\ [Next]_vars => EnvelopeInv'
<1> SUFFICES ASSUME EnvelopeInv, [Next]_vars PROVE EnvelopeInv'
  OBVIOUS
<1> USE DEF queueVars, frameVars, brokerVars, dedupVars
<1>1. ASSUME NEW c \in Copies, Publish(c) \/ Deliver(c) PROVE EnvelopeInv'
  BY <1>1 DEF Publish, Deliver, EnvelopeInv, NoEnvelopeLost
<1>2. ASSUME NEW c \in Copies, Settle(c) PROVE EnvelopeInv'
  BY <1>2 DEF Settle, EnvelopeInv, NoEnvelopeLost
<1>3. ASSUME NEW c \in Copies, Handle(c) PROVE EnvelopeInv'
  BY <1>3, EnvelopeHandle
<1>4. CASE \/ ReconnectTimerFires \/ Connect \/ Declare \/ Started \/ BrokerStarts
           \/ Stop \/ Cancelled
  BY <1>4 DEF ReconnectTimerFires, Connect, Declare, Started, BrokerStarts, Stop, Cancelled,
              EnvelopeInv, NoEnvelopeLost
<1>5. CASE \/ StartFailed \/ DropConnection \/ CloseChannel \/ Restart \/ Exit
           \/ ChannelClosed /\ Requeue
  <2>1. /\ Requeue
        /\ UNCHANGED <<coming, deadLettered, executed>>
        /\ window' = window \/ window' = <<>>
    BY <1>5 DEF StartFailed, DropConnection, ConnectionClosed, CloseChannel, Restart, ChannelClosed, Exit
  <2> QED
    BY <2>1, EnvelopeRequeue
<1>6. CASE Reset
  BY <1>6 DEF Reset, EnvelopeInv, NoEnvelopeLost
<1>7. CASE ChannelClosed /\ UNCHANGED <<ready, frameVars>>
  <2>1. UNCHANGED <<coming, ready, inbox, acks, nacks, deadLettered, window, executed>>
    BY <1>7 DEF ChannelClosed
  <2> QED
    BY <2>1 DEF EnvelopeInv, NoEnvelopeLost
<1>8. CASE UNCHANGED vars
  BY <1>8 DEF vars, EnvelopeInv, NoEnvelopeLost
<1>9. ChannelClosed => Requeue \/ UNCHANGED <<ready, frameVars>>
  BY DEF ChannelClosed
<1> QED
  BY <1>1, <1>2, <1>3, <1>4, <1>5, <1>6, <1>7, <1>8, <1>9 DEF Next, Supervision

(* No envelope disappears: whatever is lost on the way, each one is still  *)
(* to come, executed or dead-lettered, and only what does not validate is  *)
(* dead-lettered (consumer.service.ts:198-256).                            *)
THEOREM NothingLost == Spec => []NoEnvelopeLost
<1>1. EnvelopeInv => NoEnvelopeLost
  BY DEF EnvelopeInv
<1> QED
  BY <1>1, EnvelopeInit, EnvelopeNext, PTL DEF Spec

----------------------------------------------------------------------------
(* The deduplication window *)

Ids == {MessageId[c] : c \in Copies}

(* The window is the end of the log, and is full as soon as the log is     *)
(* longer than the window.                                                 *)
WindowInv ==
    /\ window \in Seq(Ids) /\ log \in Seq(Ids)
    /\ Len(window) <= Capacity /\ Len(window) <= Len(log)
    /\ \A k \in 1 .. Len(window) : window[k] = log[Len(log) - Len(window) + k]
    /\ Len(log) > Len(window) => Len(window) = Capacity

OnceInv == WindowInv /\ EffectivelyOnce

LEMMA OnceEmpty ==
    ASSUME window' = <<>>, log' = <<>>
    PROVE  OnceInv'
BY OptionsAssumption DEF OnceInv, WindowInv, EffectivelyOnce

LEMMA OnceUnchanged ==
    ASSUME OnceInv, window' = window, log' = log
    PROVE  OnceInv'
BY DEF OnceInv, WindowInv, EffectivelyOnce

(* record(): the new key is the last of both, and the evicted one is the   *)
(* oldest of the window.                                                   *)
LEMMA WindowAppend ==
    ASSUME WindowInv, NEW m \in Ids, window' = Recorded(m), log' = Append(log, m)
    PROVE  WindowInv'
<1> USE DEF WindowInv
<1>1. Len(log') = Len(log) + 1 /\ log' \in Seq(Ids) /\ log'[Len(log) + 1] = m
  OBVIOUS
<1>2. \A i \in 1 .. Len(log) : log'[i] = log[i]
  OBVIOUS
<1>3. Len(window) \in Nat /\ Len(log) \in Nat /\ Capacity \in Nat /\ Capacity > 0
  BY OptionsAssumption
<1>4. CASE Len(window) >= Capacity
  <2>1. window' = Append(Tail(window), m)
    BY <1>4 DEF Recorded
  <2>2. Len(window) = Capacity /\ window # <<>>
    BY <1>3, <1>4
  <2>3. /\ Tail(window) \in Seq(Ids) /\ Len(Tail(window)) = Len(window) - 1
        /\ \A k \in 1 .. Len(window) - 1 : Tail(window)[k] = window[k + 1]
    BY <2>2
  <2>4. window' \in Seq(Ids) /\ Len(window') = Len(window)
    <3> DEFINE rest == Tail(window)
    <3> HIDE DEF rest, WindowInv
    <3>1. rest \in Seq(Ids) /\ Len(rest) = Len(window) - 1 /\ window' = Append(rest, m)
      BY <2>1, <2>3 DEF rest
    <3>2. window' \in Seq(Ids) /\ Len(window') = Len(rest) + 1
      BY <3>1
    <3> QED
      BY <3>1, <3>2, <1>3
  <2>5. ASSUME NEW k \in 1 .. Len(window')
        PROVE  window'[k] = log'[Len(log') - Len(window') + k]
    <3>1. CASE k = Len(window)
      BY <3>1, <2>1, <2>3, <2>4, <1>1, <1>3
    <3>2. CASE k # Len(window)
      <4>1. k \in 1 .. Len(window) - 1 /\ k + 1 \in 1 .. Len(window)
        BY <3>2, <2>4, <1>3
      <4>2. window'[k] = window[k + 1]
        BY <4>1, <2>1, <2>3
      <4>3. window[k + 1] = log[Len(log) - Len(window) + (k + 1)]
        BY <4>1
      <4>4. /\ Len(log) - Len(window) + (k + 1) \in 1 .. Len(log)
            /\ Len(log') - Len(window') + k = Len(log) - Len(window) + (k + 1)
        BY <4>1, <2>4, <1>1, <1>3
      <4> QED
        BY <4>2, <4>3, <4>4, <1>2
    <3> QED
      BY <3>1, <3>2
  <2>6. /\ Len(window') <= Capacity /\ Len(window') <= Len(log')
        /\ Len(window') = Capacity
    BY <2>2, <2>4, <1>1, <1>3
  <2> QED
    BY <2>4, <2>5, <2>6, <1>1, Zenon
<1>5. CASE Len(window) < Capacity
  <2>1. window' = Append(window, m)
    BY <1>5, <1>3 DEF Recorded
  <2>2. Len(log) = Len(window)
    BY <1>5, <1>3
  <2>3. window' \in Seq(Ids) /\ Len(window') = Len(window) + 1
    BY <2>1
  <2>4. ASSUME NEW k \in 1 .. Len(window')
        PROVE  window'[k] = log'[Len(log') - Len(window') + k]
    BY <2>1, <2>2, <2>3, <1>1, <1>2, <1>3
  <2>5. /\ Len(window') <= Capacity /\ Len(window') <= Len(log')
        /\ ~(Len(log') > Len(window'))
    BY <2>2, <2>3, <1>1, <1>3, <1>5
  <2> QED
    BY <2>3, <2>4, <2>5, <1>1, Zenon
<1>6. Len(window) >= Capacity \/ Len(window) < Capacity
  BY <1>3
<1> QED
  BY <1>4, <1>5, <1>6, Zenon

(* A key the window does not hold was executed more than Capacity ago, if  *)
(* ever.                                                                   *)
LEMMA OnceAppend ==
    ASSUME OnceInv, NEW m \in Ids, ~Contains(window, m), log' = Append(log, m)
    PROVE  EffectivelyOnce'
<1> USE DEF OnceInv, WindowInv
<1>1. Len(log') = Len(log) + 1 /\ log'[Len(log) + 1] = m
  OBVIOUS
<1>2. \A i \in 1 .. Len(log) : log'[i] = log[i]
  OBVIOUS
<1>3. Len(window) \in Nat /\ Len(log) \in Nat /\ Capacity \in Nat
  BY OptionsAssumption
<1> SUFFICES ASSUME NEW i \in 1 .. Len(log) + 1, NEW j \in 1 .. Len(log) + 1,
                    i < j, log'[i] = log'[j]
             PROVE  j - i > Capacity
  BY <1>1 DEF EffectivelyOnce
<1>4. CASE j \in 1 .. Len(log)
  BY <1>2, <1>3, <1>4 DEF EffectivelyOnce
<1>5. CASE j = Len(log) + 1
  <2>1. i \in 1 .. Len(log) /\ log[i] = m
    BY <1>1, <1>2, <1>3, <1>5
  <2>2. ~(i > Len(log) - Len(window))
    <3> SUFFICES ASSUME i > Len(log) - Len(window) PROVE FALSE
      OBVIOUS
    <3> DEFINE k == i - (Len(log) - Len(window))
    <3>1. k \in 1 .. Len(window) /\ Len(log) - Len(window) + k = i
      BY <2>1, <1>3
    <3>2. window[k] = m
      BY <3>1, <2>1
    <3> QED
      BY <3>1, <3>2 DEF Contains
  <2> QED
    BY <2>1, <2>2, <1>3, <1>5
<1>6. j \in 1 .. Len(log) \/ j = Len(log) + 1
  <2> HIDE DEF OnceInv, WindowInv
  <2> QED
    BY <1>3
<1> QED
  BY <1>4, <1>5, <1>6, Zenon

LEMMA OnceNext == OnceInv /\ [Next]_vars => OnceInv'
<1> SUFFICES ASSUME OnceInv, [Next]_vars PROVE OnceInv'
  OBVIOUS
<1>1. ASSUME NEW c \in Copies, Handle(c) PROVE OnceInv'
  <2>1. CASE c \in Malformed \/ Contains(window, MessageId[c])
    BY <1>1, <2>1, OnceUnchanged DEF Handle, dedupVars
  <2>2. CASE ~(c \in Malformed \/ Contains(window, MessageId[c]))
    <3>1. window' = Recorded(MessageId[c]) /\ log' = Append(log, MessageId[c])
      BY <1>1, <2>2 DEF Handle
    <3>2. MessageId[c] \in Ids
      BY <1>1 DEF Ids
    <3> QED
      BY <2>2, <3>1, <3>2, WindowAppend, OnceAppend DEF OnceInv
  <2> QED
    BY <2>1, <2>2
<1>2. CASE Reset \/ Restart
  BY <1>2, OnceEmpty DEF Reset, Restart
<1>3. CASE \E c \in Copies : Publish(c) \/ Deliver(c) \/ Settle(c)
  BY <1>3, OnceUnchanged DEF Publish, Deliver, Settle, dedupVars
<1>4. CASE Supervision
  BY <1>4, OnceUnchanged DEF Supervision, ReconnectTimerFires, Connect, Declare, Started,
                             StartFailed, dedupVars
<1>5. CASE \/ DropConnection \/ BrokerStarts \/ CloseChannel
           \/ Stop \/ Cancelled \/ ChannelClosed \/ Exit \/ UNCHANGED vars
  BY <1>5, OnceUnchanged DEF DropConnection, BrokerStarts, CloseChannel, Stop, Cancelled,
                             ChannelClosed, Exit, vars, dedupVars
<1> QED
  BY <1>1, <1>2, <1>3, <1>4, <1>5 DEF Next

LEMMA OnceInvariant == Spec => []OnceInv
<1>1. Init => OnceInv
  BY OptionsAssumption DEF Init, OnceInv, WindowInv, EffectivelyOnce
<1> QED
  BY <1>1, OnceNext, PTL DEF Spec

(* A message is executed twice only when at least Capacity others were     *)
(* executed in between, or the store was emptied (deduplication.ts:18-42). *)
THEOREM ExecutedOnce == Spec => []EffectivelyOnce
<1>1. OnceInv => EffectivelyOnce
  BY DEF OnceInv
<1> QED
  BY <1>1, OnceInvariant, PTL

----------------------------------------------------------------------------
(* Types *)

(* TypeOK without the bound of the window, which WindowInv gives. *)
FieldsOK ==
    /\ brokerUp \in BOOLEAN /\ link \in BOOLEAN /\ consuming \in BOOLEAN
    /\ coming \subseteq Copies /\ ready \subseteq Copies /\ inbox \subseteq Copies
    /\ acks \subseteq Copies /\ nacks \subseteq Copies /\ deadLettered \subseteq Copies
    /\ alive \in BOOLEAN /\ stopping \in BOOLEAN
    /\ halting \in {"none", "cancel", "channel", "connection"}
    /\ pc \in Awaits
    /\ isRunning \in BOOLEAN /\ reconnectTimer \in BOOLEAN

LEMMA FieldsNext == FieldsOK /\ [Next]_vars => FieldsOK'
<1> SUFFICES ASSUME FieldsOK, [Next]_vars PROVE FieldsOK'
  OBVIOUS
<1> USE DEF FieldsOK, queueVars, frameVars, brokerVars, superVars, stopVars
<1>1. ASSUME NEW c \in Copies, Publish(c) \/ Deliver(c) \/ Settle(c) PROVE FieldsOK'
  BY <1>1 DEF Publish, Deliver, Settle
<1>2. ASSUME NEW c \in Copies, Handle(c) PROVE FieldsOK'
  BY <1>2 DEF Handle, Nacked
<1>3. CASE ReconnectTimerFires
  BY <1>3 DEF ReconnectTimerFires, Awaits
<1>4. CASE Connect
  BY <1>4 DEF Connect, Awaits
<1>5. CASE Declare \/ Started
  BY <1>5 DEF Declare, Started, Awaits
<1>6. CASE StartFailed
  BY <1>6 DEF StartFailed, Schedule, Requeue, Unconfirmed, Awaits
<1>7. CASE DropConnection
  BY <1>7 DEF DropConnection, ConnectionClosed, RunningOnClose, Schedule, Requeue,
              Unconfirmed, Awaits
<1>8. CASE CloseChannel
  BY <1>8 DEF CloseChannel, Requeue, Unconfirmed, Awaits
<1>9. CASE Restart \/ Cancelled \/ ChannelClosed \/ Exit
  BY <1>9 DEF Restart, Cancelled, ChannelClosed, Exit, Requeue, Unconfirmed, Awaits
<1>10. CASE BrokerStarts \/ Reset \/ Stop
  BY <1>10 DEF BrokerStarts, Reset, Stop
<1>11. CASE UNCHANGED vars
  BY <1>11 DEF vars
<1> QED
  BY <1>1, <1>2, <1>3, <1>4, <1>5, <1>6, <1>7, <1>8, <1>9, <1>10, <1>11
     DEF Next, Supervision

(* The fields hold what their declarations say, and the deduplication      *)
(* store never exceeds its capacity (consumer.service.ts, deduplication.ts *)
(* :18-42).                                                                *)
THEOREM TypeCorrect == Spec => []TypeOK
<1>1. Init => FieldsOK
  BY DEF Init, FieldsOK, Awaits
<1>2. FieldsOK /\ OnceInv => TypeOK
  BY DEF FieldsOK, OnceInv, WindowInv, TypeOK
<1> QED
  BY <1>1, <1>2, FieldsNext, OnceInvariant, PTL DEF Spec
=============================================================================
