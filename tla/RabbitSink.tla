----------------------------- MODULE RabbitSink -----------------------------
(***************************************************************************)
(* The RabbitMQ sink: apps/pipeline/src/sinks/rabbitmq/rabbitmq.sink.ts    *)
(* with the declarations of topology.ts, in front of a broker and of the   *)
(* confirm channel of amqplib modelled from how the sink uses them.        *)
(*                                                                         *)
(* The two runners and the DLQ replayer are publishers p that share the    *)
(* channel.  A message <<p, k, i>> is record i of the k-th batch of p.     *)
(* publishBatch() is synchronous between its awaits, so one action sends   *)
(* as many records as it does before it waits, for 'drain' or for the      *)
(* confirms.  The confirm of a message nobody waits for is dropped by the  *)
(* channel, be it a NACK.                                                  *)
(***************************************************************************)
EXTENDS Naturals, FiniteSets

CONSTANTS
    Publishers,   \* who calls publishBatch
    Size,         \* records of a batch
    Corrupt,      \* indices in a batch of the records with is_corrupted
    MaxCalls,     \* bound: batches of a publisher
    MaxFull,      \* bound: publish() returns false
    MaxNacks,     \* bound: NACKs of the broker
    MaxCloses,    \* bound: channels or connections that close
    MaxTrouble    \* bound: all of these together

ASSUME SinkAssumption ==
    /\ IsFiniteSet(Publishers)
    /\ Size \in Nat \ {0}
    /\ Corrupt \subseteq 1 .. Size
ASSUME BoundsAssumption ==
    /\ MaxCalls \in Nat /\ MaxFull \in Nat /\ MaxNacks \in Nat
    /\ MaxCloses \in Nat /\ MaxTrouble \in Nat

VARIABLES
    brokerUp,
    held,         \* messages the broker took over
    link,         \* the connection is open
    unconfirmed,  \* messages of the channel without a confirm
    choked,       \* the socket buffer is full: publish() returns false
    channel,      \* this.channel is set
    isConnected,
    connecting,   \* await of connect(): "dial", "channel", "topology", "done"
    pc,           \* await of the publishBatch() of a publisher
    call,         \* number of its batch
    next,         \* index of the record it sends next
    awaited,      \* messages its waitForConfirms() waits for
    answers,      \* how its batches ended: [call, ok, failed, thrown]
    full, nacks, closes   \* bounds

connVars  == <<channel, isConnected, connecting>>
callVars  == <<pc, call, next, awaited, answers>>
boundVars == <<full, nacks, closes>>
wireVars  == <<held, link, unconfirmed, choked>>
vars == <<brokerUp, wireVars, connVars, callVars, boundVars>>

(* Room for one more of what the bounds count. *)
Trouble == full + nacks + closes < MaxTrouble

Message(p, i) == <<p, call[p], i>>

(* The records of a batch that are sent: is_corrupted ones are failures.   *)
Sendable(from, to) == {i \in from .. to : i \notin Corrupt}

(* inFlightIds *)
InFlight(p) == {Message(p, i) : i \in Sendable(1, next[p] - 1)}

(* What a batch reports as failed before anything was confirmed. *)
Poisoned(p) == {Message(p, i) : i \in Corrupt}

----------------------------------------------------------------------------
(* connect(), called once by the coordinator *)

Dial ==
    /\ connecting = "dial"
    /\ \/ brokerUp /\ link' = TRUE /\ connecting' = "channel"
       \/ ~brokerUp /\ connecting' = "done" /\ UNCHANGED link
    /\ UNCHANGED <<brokerUp, held, unconfirmed, choked, channel, isConnected, callVars,
                   boundVars>>

OpenChannel ==
    /\ connecting = "channel"
    /\ link
    /\ channel' = TRUE
    /\ connecting' = "topology"
    /\ UNCHANGED <<brokerUp, wireVars, isConnected, callVars, boundVars>>

DeclareTopology ==
    /\ connecting = "topology"
    /\ channel
    /\ isConnected' = TRUE
    /\ connecting' = "done"
    /\ UNCHANGED <<brokerUp, wireVars, channel, callVars, boundVars>>

(* healthCheck(), the probe of the circuit breaker *)
Healthy == isConnected /\ channel

----------------------------------------------------------------------------
(* publishBatch() *)

Answer(p, ok, failed, thrown) ==
    /\ answers' = [answers EXCEPT ![p] =
         @ \cup {[call |-> call[p], ok |-> ok, failed |-> failed, thrown |-> thrown]}]
    /\ pc' = [pc EXCEPT ![p] = "idle"]
    /\ awaited' = [awaited EXCEPT ![p] = {}]

(* No channel: the only failure that the circuit breaker gets to see. *)
PublishWithoutChannel(p) ==
    /\ pc[p] = "idle" /\ call[p] < MaxCalls
    /\ ~channel
    /\ call' = [call EXCEPT ![p] = @ + 1]
    /\ answers' = [answers EXCEPT ![p] =
         @ \cup {[call |-> call[p] + 1, ok |-> {}, failed |-> {}, thrown |-> TRUE]}]
    /\ UNCHANGED <<brokerUp, wireVars, connVars, pc, next, awaited, boundVars>>

Publish(p) ==
    /\ pc[p] = "idle" /\ call[p] < MaxCalls
    /\ channel
    /\ call' = [call EXCEPT ![p] = @ + 1]
    /\ next' = [next EXCEPT ![p] = 1]
    /\ pc' = [pc EXCEPT ![p] = "send"]
    /\ UNCHANGED <<brokerUp, wireVars, connVars, awaited, answers, boundVars>>

(* publish() returns false: the records up to i are sent, the caller waits *)
(* for 'drain'.  In a choked socket that is the first one already.         *)
SendUntilFull(p) ==
    /\ pc[p] = "send"
    /\ \E i \in Sendable(next[p], Size) :
         /\ IF choked THEN Sendable(next[p], i) = {i} /\ full' = full
                      ELSE Trouble /\ full < MaxFull /\ full' = full + 1
         /\ unconfirmed' = unconfirmed \cup {Message(p, j) : j \in Sendable(next[p], i)}
         /\ next' = [next EXCEPT ![p] = i + 1]
    /\ choked' = TRUE
    /\ pc' = [pc EXCEPT ![p] = "drain"]
    /\ UNCHANGED <<brokerUp, held, link, connVars, call, awaited, answers, nacks, closes>>

(* waitForConfirms(): whatever is unconfirmed on the channel; it is not    *)
(* called for a batch of which nothing was sent.                           *)
Awaited(p) ==
    IF Sendable(1, Size) = {} THEN {}
    ELSE unconfirmed \cup {Message(p, j) : j \in Sendable(next[p], Size)}

(* The rest of the batch is sent, and its confirms are waited for. *)
SendRest(p) ==
    /\ pc[p] = "send"
    /\ choked => Sendable(next[p], Size) = {}
    /\ LET rest == {Message(p, j) : j \in Sendable(next[p], Size)}
       IN  /\ unconfirmed' = unconfirmed \cup rest
           /\ awaited' = [awaited EXCEPT ![p] = Awaited(p)]
    /\ next' = [next EXCEPT ![p] = Size + 1]
    /\ pc' = [pc EXCEPT ![p] = "confirm"]
    /\ UNCHANGED <<brokerUp, held, link, choked, connVars, call, answers, boundVars>>

(* Faulty: one caller is woken. *)
WokenByDrainOne ==
    {CHOOSE p \in Publishers : pc[p] = "drain"} \cap {p \in Publishers : pc[p] = "drain"}

(* Every caller registered a listener. *)
WokenByDrain == {p \in Publishers : pc[p] = "drain"}

(* None comes from a channel that has closed. *)
Drain ==
    /\ channel
    /\ choked
    /\ choked' = FALSE
    /\ pc' = [p \in Publishers |-> IF p \in WokenByDrain THEN "send" ELSE pc[p]]
    /\ UNCHANGED <<brokerUp, held, link, unconfirmed, connVars, call, next, awaited, answers,
                   boundVars>>

Confirmed(p) ==
    /\ pc[p] = "confirm"
    /\ awaited[p] = {}
    /\ Answer(p, InFlight(p), Poisoned(p), FALSE)
    /\ UNCHANGED <<brokerUp, wireVars, connVars, call, next, boundVars>>

(* Every waiting caller of Q fails all of its records. *)
Reject(Q) ==
    /\ pc' = [p \in Publishers |-> IF p \in Q THEN "idle" ELSE pc[p]]
    /\ answers' = [p \in Publishers |->
         IF p \in Q
         THEN answers[p] \cup {[call |-> call[p], ok |-> {}, thrown |-> FALSE,
                                failed |-> InFlight(p) \cup Poisoned(p)]}
         ELSE answers[p]]

----------------------------------------------------------------------------
(* The broker and the connection *)

Ack(m) ==
    /\ link
    /\ m \in unconfirmed
    /\ unconfirmed' = unconfirmed \ {m}
    /\ held' = held \cup {m}
    /\ awaited' = [p \in Publishers |-> awaited[p] \ {m}]
    /\ UNCHANGED <<brokerUp, link, choked, connVars, pc, call, next, answers, boundVars>>

(* Faulty: a NACK is ignored. *)
RejectedByNobody(m) == {}

(* Promise.all rejects for every caller that waits for the message. *)
RejectedBy(m) == {p \in Publishers : pc[p] = "confirm" /\ m \in awaited[p]}

Nack(m) ==
    /\ link
    /\ m \in unconfirmed
    /\ Trouble /\ nacks < MaxNacks
    /\ nacks' = nacks + 1
    /\ unconfirmed' = unconfirmed \ {m}
    /\ Reject(RejectedBy(m))
    /\ awaited' = [p \in Publishers |->
         IF p \in RejectedBy(m) THEN {} ELSE awaited[p] \ {m}]
    /\ UNCHANGED <<brokerUp, held, link, choked, connVars, call, next, full, closes>>

(* waitForConfirms() rejects for what a closing channel left unconfirmed.  *)
FailedByClose == {p \in Publishers : pc[p] = "confirm" /\ awaited[p] # {}}

(* The channel closes, alone or with its connection or the broker; the     *)
(* messages on their way were taken over or not.  A connect() in progress  *)
(* fails.  A publisher that waits for 'drain' learns nothing.              *)
Close ==
    /\ link
    /\ Trouble /\ closes < MaxCloses
    /\ closes' = closes + 1
    /\ \/ link' = FALSE /\ isConnected' = FALSE /\ brokerUp' \in BOOLEAN
       \/ channel /\ UNCHANGED <<brokerUp, link, isConnected>>
    /\ channel' = FALSE
    /\ connecting' = "done"
    /\ \E taken \in SUBSET unconfirmed : held' = held \cup taken
    /\ unconfirmed' = {}
    /\ choked' = FALSE
    /\ Reject(FailedByClose)
    /\ awaited' = [p \in Publishers |-> IF p \in FailedByClose THEN {} ELSE awaited[p]]
    /\ UNCHANGED <<call, next, full, nacks>>

BrokerStarts ==
    /\ ~brokerUp
    /\ brokerUp' = TRUE
    /\ UNCHANGED <<wireVars, connVars, callVars, boundVars>>

----------------------------------------------------------------------------
Init ==
    /\ brokerUp \in BOOLEAN
    /\ held = {} /\ unconfirmed = {} /\ choked = FALSE
    /\ link = FALSE /\ channel = FALSE /\ isConnected = FALSE
    /\ connecting = "dial"
    /\ pc = [p \in Publishers |-> "idle"]
    /\ call = [p \in Publishers |-> 0]
    /\ next = [p \in Publishers |-> 1]
    /\ awaited = [p \in Publishers |-> {}]
    /\ answers = [p \in Publishers |-> {}]
    /\ full = 0 /\ nacks = 0 /\ closes = 0

Connecting == Dial \/ OpenChannel \/ DeclareTopology

Send(p) == SendUntilFull(p) \/ SendRest(p)

(* A caller that can send does so before anything else happens: the call   *)
(* has not reached an await yet, or is the continuation of one.            *)
Next ==
    \/ \E p \in Publishers : Send(p)
    \/ /\ \A p \in Publishers : pc[p] # "send"
       /\ \/ Connecting
          \/ \E p \in Publishers : PublishWithoutChannel(p) \/ Publish(p) \/ Confirmed(p)
          \/ Drain
          \/ \E m \in unconfirmed : Ack(m) \/ Nack(m)
          \/ Close
          \/ BrokerStarts

Spec == Init /\ [][Next]_vars

(* The event loop runs, the socket drains while the channel is open, the   *)
(* broker confirms what it receives and is started again when it stops.    *)
Fairness ==
    /\ WF_vars(Connecting) /\ WF_vars(Drain) /\ WF_vars(BrokerStarts)
    /\ \A p \in Publishers : WF_vars(Send(p)) /\ WF_vars(Confirmed(p))
    /\ WF_vars(\E m \in unconfirmed : Ack(m))

FairSpec == Spec /\ Fairness

----------------------------------------------------------------------------
(* Properties *)

Messages == Publishers \X Nat \X (1 .. Size)

(* The state is what the declarations say it is; a batch is answered once, *)
(* and an answer accounts for each of its records.                         *)
TypeOK ==
    /\ brokerUp \in BOOLEAN /\ link \in BOOLEAN /\ channel \in BOOLEAN /\ isConnected \in BOOLEAN
    /\ held \subseteq Messages /\ unconfirmed \subseteq Messages
    /\ channel => link
    /\ pc \in [Publishers -> {"idle", "send", "drain", "confirm"}]
    /\ \A p \in Publishers :
         /\ awaited[p] \subseteq unconfirmed
         /\ Cardinality(answers[p]) = IF pc[p] = "idle" THEN call[p] ELSE call[p] - 1
         /\ \A a \in answers[p] :
              ~a.thrown => a.ok \cup a.failed = {<<p, a.call, i>> : i \in 1 .. Size}

(* What publishBatch reports as a success is in the hands of the broker:   *)
(* no watermark is committed over an event that was not confirmed (lines   *)
(* 265-283).  A NACK that may meet a caller waiting for 'drain' is left    *)
(* out: nobody listens for it then (lines 250-254).                        *)
HeldIfConfirmed == \A p \in Publishers : \A a \in answers[p] : a.ok \subseteq held
ConfirmedMeansHeld == full = 0 \/ nacks = 0 => HeldIfConfirmed

(* "Broker NACKed the batch": without a NACK of its own records, or a      *)
(* channel that closed, a batch reports its corrupted records only.        *)
FailuresAreOwn ==
    \A p \in Publishers : \A a \in answers[p] :
        (~a.thrown /\ closes = 0 /\ \A i \in 1 .. Size \ Corrupt : <<p, a.call, i>> \in held)
            => a.failed = {<<p, a.call, i>> : i \in Corrupt}

(* Every publishBatch() returns, whatever becomes of the channel (lines    *)
(* 250-254, 266-282): a batch that never returns stops its runner.         *)
CallsReturn == \A p \in Publishers : pc[p] # "idle" ~> pc[p] = "idle"

(* The same but for a channel that closes where a buffer has been full:    *)
(* the wait for 'drain' has no end then.                                   *)
CallsReturnUnlessChoked ==
    \A p \in Publishers : pc[p] # "idle" ~> pc[p] = "idle" \/ (full > 0 /\ closes > 0)

(* Once the broker is up for good the probe of the circuit breaker is      *)
(* answered again, which is what closes the breaker (lines 59-91).         *)
SinkRecovers == <>[]Healthy
=============================================================================
