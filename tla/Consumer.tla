------------------------------ MODULE Consumer ------------------------------
(***************************************************************************)
(* The event consumer: apps/consumer/src/consumer.service.ts (supervised   *)
(* start, reconnection, message handling, shutdown) with its               *)
(* deduplication.ts, POST /reset of its server and the signal handlers of  *)
(* its index.ts, in front of a RabbitMQ broker modelled from how the       *)
(* service uses it: what a lost connection or channel leaves unconfirmed   *)
(* goes back to the queue.                                                 *)
(*                                                                         *)
(* A copy is one envelope in the queue; several copies may carry the same  *)
(* message id (the pipeline republishes what it had not committed).        *)
(* handleMessage() never awaits, so it is one action; an ack is a frame on *)
(* its way to the broker.  The delay of a reconnect is left out.           *)
(***************************************************************************)
EXTENDS Naturals, Sequences, FiniteSets

CONSTANTS
    Copies,       \* envelopes the queue may receive
    MessageId,    \* [Copies -> ids]: rec_<id>_v<version>
    Malformed,    \* copies that do not parse or carry is_corrupted
    Capacity,     \* maxCapacity of the DeduplicationStore
    Prefetch,     \* options.prefetch
    MaxDrops,     \* bound: lost connections, stops of the broker
    MaxChannelCloses, \* bound: channels closed by the broker
    MaxRestarts,  \* bound: deaths of the process
    MaxResets,    \* bound: POST /reset
    MaxTrouble    \* bound: all of these together

ASSUME CopiesAssumption ==
    /\ IsFiniteSet(Copies)
    /\ Malformed \subseteq Copies
    /\ Copies \subseteq DOMAIN MessageId
ASSUME OptionsAssumption == Capacity \in Nat \ {0} /\ Prefetch \in Nat \ {0}
ASSUME BoundsAssumption ==
    /\ MaxDrops \in Nat /\ MaxChannelCloses \in Nat /\ MaxRestarts \in Nat
    /\ MaxResets \in Nat /\ MaxTrouble \in Nat

VARIABLES
    \* RabbitMQ
    brokerUp,
    coming,       \* copies not published yet
    ready,        \* copies waiting in the queue
    inbox,        \* delivered, not handled yet
    acks,         \* handled, the ack frame on its way
    nacks,        \* handled, the nack frame on its way
    deadLettered, \* copies in the dead letter queue
    link,         \* the connection is open
    consuming,    \* a consumer is registered on an open channel
    \* EventConsumerService
    alive,        \* the process runs
    pc,           \* await of the start() in flight
    isRunning,
    reconnectTimer,  \* a reconnect is scheduled
    stopping,
    halting,      \* await of the stop() in flight
    window,       \* keys of the deduplication store, oldest first
    log,          \* ids executed since the store was last empty
    executed,     \* ids ever executed
    \* bounds
    drops, channelCloses, restarts, resets

frameVars  == <<inbox, acks, nacks>>
queueVars  == <<coming, ready, deadLettered>>
brokerVars == <<brokerUp, queueVars, frameVars, link, consuming>>
superVars  == <<pc, isRunning, reconnectTimer>>
stopVars   == <<stopping, halting>>
dedupVars  == <<window, log, executed>>
boundVars  == <<drops, channelCloses, restarts, resets>>
vars == <<brokerVars, alive, superVars, stopVars, dedupVars, boundVars>>

Awaits == {"idle", "connect", "createChannel", "declare", "consume", "consumed", "failed"}

(* Room for one more of what the bounds count. *)
Trouble == drops + channelCloses + restarts + resets < MaxTrouble

----------------------------------------------------------------------------
(* The broker *)

Unconfirmed == inbox \cup acks \cup nacks

(* What was delivered and not confirmed returns to the queue. *)
Requeue ==
    /\ ready' = ready \cup Unconfirmed
    /\ inbox' = {} /\ acks' = {} /\ nacks' = {}
    /\ consuming' = FALSE

Publish(c) ==
    /\ c \in coming
    /\ coming' = coming \ {c}
    /\ ready' = ready \cup {c}
    /\ UNCHANGED <<brokerUp, deadLettered, frameVars, link, consuming,
                   alive, superVars, stopVars, dedupVars, boundVars>>

Deliver(c) ==
    /\ consuming
    /\ c \in ready
    /\ Cardinality(Unconfirmed) < Prefetch
    /\ ready' = ready \ {c}
    /\ inbox' = inbox \cup {c}
    /\ UNCHANGED <<brokerUp, coming, deadLettered, acks, nacks, link, consuming,
                   alive, superVars, stopVars, dedupVars, boundVars>>

(* The broker removes what was acked and dead-letters what was nacked      *)
(* without requeue.                                                        *)
Settle(c) ==
    /\ c \in acks \cup nacks
    /\ acks' = acks \ {c}
    /\ nacks' = nacks \ {c}
    /\ deadLettered' = deadLettered \cup ({c} \cap nacks)
    /\ UNCHANGED <<brokerUp, coming, ready, inbox, link, consuming,
                   alive, superVars, stopVars, dedupVars, boundVars>>

----------------------------------------------------------------------------
(* Supervision *)

(* scheduleReconnect: nothing while stopping; one timer at most. *)
Schedule(wanted) == reconnectTimer' = (reconnectTimer \/ (wanted /\ ~stopping))

(* Faulty: every close schedules a reconnect. *)
CloseSchedulesAlways == TRUE

(* wasRunning *)
CloseSchedules == isRunning

(* runSupervised, and the timer of scheduleReconnect: attemptStart. *)
ReconnectTimerFires ==
    /\ alive
    /\ reconnectTimer
    /\ reconnectTimer' = FALSE
    /\ pc' = IF stopping \/ isRunning THEN pc ELSE "connect"
    /\ UNCHANGED <<brokerVars, alive, isRunning, stopVars, dedupVars, boundVars>>

Connect ==
    /\ alive
    /\ pc = "connect"
    /\ \/ brokerUp /\ link' = TRUE /\ pc' = "createChannel"
       \/ ~brokerUp /\ link' = link /\ pc' = "failed"
    /\ UNCHANGED <<brokerUp, queueVars, frameVars, consuming, alive, isRunning,
                   reconnectTimer, stopVars, dedupVars, boundVars>>

(* createChannel; exchange, queue, binding and prefetch; consume.          *)
Declare ==
    /\ alive
    /\ \/ pc = "createChannel" /\ pc' = "declare" /\ UNCHANGED consuming
       \/ pc = "declare" /\ pc' = "consume" /\ UNCHANGED consuming
       \/ pc = "consume" /\ pc' = "consumed" /\ consuming' = TRUE
    /\ UNCHANGED <<brokerUp, queueVars, frameVars, link, alive, isRunning,
                   reconnectTimer, stopVars, dedupVars, boundVars>>

(* The rest of start(), which does not look at stopping. *)
Started ==
    /\ alive
    /\ pc = "consumed"
    /\ pc' = "idle"
    /\ isRunning' = TRUE
    /\ UNCHANGED <<brokerVars, alive, reconnectTimer, stopVars, dedupVars, boundVars>>

(* Faulty: a start() that fails is not tried again. *)
FailureSchedulesNever == FALSE

(* attemptStart schedules a retry for whatever start() throws. *)
FailureSchedules == TRUE

(* The catch block of start(): the half-open connection is released. *)
StartFailed ==
    /\ alive
    /\ pc = "failed"
    /\ pc' = "idle"
    /\ isRunning' = FALSE
    /\ link' = FALSE
    /\ Requeue
    /\ Schedule(FailureSchedules)
    /\ UNCHANGED <<brokerUp, coming, deadLettered, alive, stopVars, dedupVars, boundVars>>

(* Faulty: the handler of 'close' leaves isRunning alone. *)
RunningOnCloseKept == isRunning

RunningOnClose == FALSE

(* Awaits that reject when the connection or the channel goes away. *)
Pending == {"createChannel", "declare", "consume", "consumed"}

(* The connection closes: its handler runs, and the pending await rejects. *)
ConnectionClosed ==
    /\ link' = FALSE
    /\ Requeue
    /\ isRunning' = RunningOnClose
    /\ pc' = IF pc \in Pending THEN "failed" ELSE pc
    /\ Schedule(CloseSchedules)

DropConnection ==
    /\ link
    /\ Trouble /\ drops < MaxDrops
    /\ drops' = drops + 1
    /\ brokerUp' \in BOOLEAN
    /\ ConnectionClosed
    /\ UNCHANGED <<coming, deadLettered, alive, stopVars, dedupVars,
                   channelCloses, restarts, resets>>

BrokerStarts ==
    /\ ~brokerUp
    /\ brokerUp' = TRUE
    /\ UNCHANGED <<queueVars, frameVars, link, consuming, alive, superVars, stopVars,
                   dedupVars, boundVars>>

(* The broker closes the channel (an exception, an expired delivery, a     *)
(* deleted queue): the service logs it and keeps its fields.               *)
CloseChannel ==
    /\ link
    /\ Trouble /\ channelCloses < MaxChannelCloses
    /\ channelCloses' = channelCloses + 1
    /\ Requeue
    /\ pc' = IF pc \in Pending THEN "failed" ELSE pc
    /\ UNCHANGED <<brokerUp, coming, deadLettered, link, alive, isRunning, reconnectTimer,
                   stopVars, dedupVars, drops, restarts, resets>>

----------------------------------------------------------------------------
(* Messages *)

Contains(seq, m) == \E i \in 1 .. Len(seq) : seq[i] = m

(* Faulty: a full store takes no new key. *)
RecordedWhileRoom(m) == IF Len(window) >= Capacity THEN window ELSE Append(window, m)

(* record(): FIFO eviction at full capacity. *)
Recorded(m) == Append(IF Len(window) >= Capacity THEN Tail(window) ELSE window, m)

(* Faulty: what does not validate is acked like a duplicate. *)
NackedNever(c) == {}

(* nack(msg, false, false) for what does not validate *)
Nacked(c) == {c} \cap Malformed

Handle(c) ==
    /\ alive
    /\ c \in inbox
    /\ inbox' = inbox \ {c}
    /\ nacks' = nacks \cup Nacked(c)
    /\ acks' = acks \cup ({c} \ Nacked(c))
    /\ IF c \in Malformed \/ Contains(window, MessageId[c])
       THEN UNCHANGED dedupVars
       ELSE /\ window' = Recorded(MessageId[c])
            /\ log' = Append(log, MessageId[c])
            /\ executed' = executed \cup {MessageId[c]}
    /\ UNCHANGED <<brokerUp, queueVars, link, consuming, alive, superVars, stopVars, boundVars>>

(* POST /reset, between two gates. *)
Reset ==
    /\ alive
    /\ Trouble /\ resets < MaxResets
    /\ resets' = resets + 1
    /\ window' = <<>>
    /\ log' = <<>>
    /\ UNCHANGED <<brokerVars, alive, superVars, stopVars, executed,
                   drops, channelCloses, restarts>>

----------------------------------------------------------------------------
(* The process *)

(* It dies, its sockets are closed and the container runtime starts it     *)
(* again, with an empty store.                                             *)
Restart ==
    /\ alive
    /\ ~stopping
    /\ Trouble /\ restarts < MaxRestarts
    /\ restarts' = restarts + 1
    /\ Requeue
    /\ link' = FALSE
    /\ pc' = "connect"
    /\ isRunning' = FALSE
    /\ reconnectTimer' = FALSE
    /\ window' = <<>>
    /\ log' = <<>>
    /\ UNCHANGED <<brokerUp, coming, deadLettered, alive, stopVars, executed,
                   drops, channelCloses, resets>>

(* SIGTERM: the synchronous part of stop(), which awaits the cancellation  *)
(* of a consumer that runs.                                                *)
Stop ==
    /\ alive
    /\ ~stopping
    /\ stopping' = TRUE
    /\ halting' = IF isRunning THEN "cancel" ELSE "channel"
    /\ reconnectTimer' = FALSE
    /\ UNCHANGED <<brokerVars, alive, pc, isRunning, dedupVars, boundVars>>

(* channel.cancel: no more deliveries; what was delivered is still handled. *)
Cancelled ==
    /\ alive
    /\ halting = "cancel"
    /\ halting' = "channel"
    /\ consuming' = FALSE
    /\ UNCHANGED <<brokerUp, queueVars, frameVars, link, alive, superVars, stopping,
                   dedupVars, boundVars>>

(* Awaits of start() while this.channel is the new one. *)
OnChannel == {"declare", "consume", "consumed"}

(* channel.close, of the running consumer or of the start() in flight. *)
ChannelClosed ==
    /\ alive
    /\ halting = "channel"
    /\ halting' = "connection"
    /\ IF isRunning \/ pc \in OnChannel
       THEN Requeue /\ pc' = IF pc \in OnChannel THEN "failed" ELSE pc
       ELSE UNCHANGED <<ready, frameVars, consuming, pc>>
    /\ UNCHANGED <<brokerUp, coming, deadLettered, link, alive, isRunning, reconnectTimer,
                   stopping, dedupVars, boundVars>>

(* connection.close, then exit(0). *)
Exit ==
    /\ alive
    /\ halting = "connection"
    /\ alive' = FALSE
    /\ Requeue
    /\ link' = FALSE
    /\ pc' = "idle"
    /\ isRunning' = FALSE
    /\ UNCHANGED <<brokerUp, coming, deadLettered, reconnectTimer, stopVars, dedupVars, boundVars>>

----------------------------------------------------------------------------
Init ==
    /\ brokerUp \in BOOLEAN
    /\ coming = Copies
    /\ ready = {} /\ inbox = {} /\ acks = {} /\ nacks = {} /\ deadLettered = {}
    /\ link = FALSE /\ consuming = FALSE
    /\ alive = TRUE /\ stopping = FALSE /\ halting = "none"
    /\ pc = "connect"
    /\ isRunning = FALSE
    /\ reconnectTimer = FALSE
    /\ window = <<>> /\ log = <<>> /\ executed = {}
    /\ drops = 0 /\ channelCloses = 0 /\ restarts = 0 /\ resets = 0

Supervision == ReconnectTimerFires \/ Connect \/ Declare \/ Started \/ StartFailed

Next ==
    \/ \E c \in Copies : Publish(c) \/ Deliver(c) \/ Settle(c) \/ Handle(c)
    \/ Supervision
    \/ DropConnection \/ BrokerStarts \/ CloseChannel
    \/ Reset \/ Restart \/ Stop \/ Cancelled \/ ChannelClosed \/ Exit

Spec == Init /\ [][Next]_vars

(* The event loop runs, timers fire, a stopped broker is started again     *)
(* (restart: unless-stopped) and delivers what waits in the queue.         *)
Fairness ==
    /\ WF_vars(Supervision)
    /\ WF_vars(BrokerStarts)
    /\ \A c \in Copies : WF_vars(Deliver(c)) /\ WF_vars(Handle(c)) /\ WF_vars(Settle(c))

FairSpec == Spec /\ Fairness

----------------------------------------------------------------------------
(* Properties *)

(* The state is what the declarations say it is. *)
TypeOK ==
    /\ brokerUp \in BOOLEAN /\ link \in BOOLEAN /\ consuming \in BOOLEAN
    /\ \A set \in {coming, ready, inbox, acks, nacks, deadLettered} : set \subseteq Copies
    /\ alive \in BOOLEAN /\ stopping \in BOOLEAN
    /\ halting \in {"none", "cancel", "channel", "connection"}
    /\ pc \in Awaits
    /\ isRunning \in BOOLEAN /\ reconnectTimer \in BOOLEAN
    /\ Len(window) <= Capacity /\ Len(log) >= Len(window)

(* No envelope disappears: each one waits for the consumer, was executed   *)
(* (itself or a copy of it), or is dead-lettered, and only what does not   *)
(* validate is dead-lettered (lines 198-256).                              *)
NoEnvelopeLost ==
    /\ \A c \in Copies :
         \/ c \in coming \cup ready \cup inbox \cup nacks \cup deadLettered
         \/ MessageId[c] \in executed
    /\ deadLettered \subseteq Malformed

(* A message is executed twice only when at least Capacity others were     *)
(* executed in between, or the process or an operator emptied the store:   *)
(* whatever connections, channels and acks were lost (deduplication.ts:    *)
(* 18-42, consumer.service.ts:240-255).                                    *)
EffectivelyOnce ==
    \A i, j \in 1 .. Len(log) : i < j /\ log[i] = log[j] => j - i > Capacity

(* The supervisor never dies and never doubles: until a shutdown exactly   *)
(* one of a pending reconnect, a start() in flight and a running consumer  *)
(* exists; from the shutdown on no reconnect is pending (lines 91-184,     *)
(* 305-326).                                                               *)
Holds(p) == IF p THEN 1 ELSE 0
Supervised ==
    /\ ~stopping => Holds(reconnectTimer) + Holds(pc # "idle") + Holds(isRunning) = 1
    /\ stopping => ~reconnectTimer

(* A healthy answer of GET /health means that messages flow, until a       *)
(* shutdown and as long as the broker does not close the channel alone     *)
(* (lines 105-176, 289-300).                                               *)
HealthyMeansConsuming == isRunning /\ ~stopping /\ channelCloses = 0 => consuming

(* Every envelope is executed or dead-lettered in the end: broker restarts *)
(* and lost connections are survived without an operator (lines 85-176).   *)
Settled(c) == stopping \/ c \in deadLettered \/ MessageId[c] \in executed
AllSettled == \A c \in Copies : c \in ready ~> Settled(c) \/ channelCloses > 0

(* The same through a channel that the broker closes alone.                *)
AllSettledAnyway == \A c \in Copies : c \in ready ~> Settled(c)
=============================================================================
