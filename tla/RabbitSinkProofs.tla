-------------------------- MODULE RabbitSinkProofs --------------------------
(***************************************************************************)
(* Proofs about RabbitSink, for any number of publishers and calls, any    *)
(* batch, and any number of full buffers, NACKs and closes.                *)
(***************************************************************************)
EXTENDS RabbitSink, FiniteSetTheorems, TLAPS

----------------------------------------------------------------------------
(* Types *)

Answers == [call : Nat, ok : SUBSET Messages, failed : SUBSET Messages, thrown : BOOLEAN]

TypeInv ==
    /\ brokerUp \in BOOLEAN /\ link \in BOOLEAN /\ channel \in BOOLEAN /\ isConnected \in BOOLEAN
    /\ choked \in BOOLEAN
    /\ held \subseteq Messages /\ unconfirmed \subseteq Messages
    /\ connecting \in {"dial", "channel", "topology", "done"}
    /\ pc \in [Publishers -> {"idle", "send", "drain", "confirm"}]
    /\ call \in [Publishers -> Nat]
    /\ next \in [Publishers -> 1 .. Size + 1]
    /\ awaited \in [Publishers -> SUBSET Messages]
    /\ answers \in [Publishers -> SUBSET Answers]
    /\ full \in Nat /\ nacks \in Nat

LEMMA MessagesTyped ==
    ASSUME TypeInv, NEW p \in Publishers
    PROVE  /\ \A i \in 1 .. Size : Message(p, i) \in Messages
           /\ InFlight(p) \subseteq Messages /\ Poisoned(p) \subseteq Messages
           /\ Awaited(p) \subseteq Messages
           /\ {Message(p, j) : j \in Sendable(next[p], Size)} \subseteq Messages
<1>1. call[p] \in Nat /\ next[p] \in 1 .. Size + 1 /\ Size \in Nat /\ Corrupt \subseteq 1 .. Size
  BY SinkAssumption DEF TypeInv
<1>2. \A i \in 1 .. Size : Message(p, i) \in Messages
  BY <1>1 DEF Message, Messages
<1>3. Sendable(1, next[p] - 1) \subseteq 1 .. Size /\ Sendable(next[p], Size) \subseteq 1 .. Size
  BY <1>1 DEF Sendable
<1>4. unconfirmed \subseteq Messages
  BY DEF TypeInv
<1> QED
  BY <1>1, <1>2, <1>3, <1>4 DEF InFlight, Poisoned, Awaited

LEMMA TypeInit == Init => TypeInv
<1> SUFFICES ASSUME Init PROVE TypeInv
  OBVIOUS
<1>1. /\ pc \in [Publishers -> {"idle", "send", "drain", "confirm"}]
      /\ call \in [Publishers -> Nat] /\ next \in [Publishers -> 1 .. Size + 1]
  BY SinkAssumption DEF Init
<1>2. /\ awaited \in [Publishers -> SUBSET Messages]
      /\ answers \in [Publishers -> SUBSET Answers]
  BY DEF Init
<1> QED
  BY <1>1, <1>2 DEF Init, TypeInv

(* What a publisher does by itself. *)
Local(p) == Send(p) \/ PublishWithoutChannel(p) \/ Publish(p) \/ Confirmed(p)

LEMMA TypeLocal ==
    ASSUME TypeInv, NEW p \in Publishers, Local(p)
    PROVE  TypeInv'
<1>0. Size \in Nat
  BY SinkAssumption
<1> USE <1>0 DEF TypeInv, wireVars, connVars, callVars, boundVars
<1>1. CASE SendUntilFull(p)
  <2>1. PICK i \in Sendable(next[p], Size) :
          /\ full' \in {full, full + 1}
          /\ unconfirmed' = unconfirmed \cup {Message(p, j) : j \in Sendable(next[p], i)}
          /\ next' = [next EXCEPT ![p] = i + 1]
    BY <1>1 DEF SendUntilFull
  <2>2. i \in 1 .. Size /\ Sendable(next[p], i) \subseteq 1 .. Size
    BY <2>1 DEF Sendable
  <2>3. unconfirmed' \subseteq Messages
    BY <2>1, <2>2, MessagesTyped
  <2>4. next' \in [Publishers -> 1 .. Size + 1]
    BY <2>1, <2>2
  <2>5. full' \in Nat
    BY <2>1
  <2> QED
    BY <1>1, <2>3, <2>4, <2>5 DEF SendUntilFull
<1>2. CASE SendRest(p)
  <2>1. /\ unconfirmed' = unconfirmed \cup {Message(p, j) : j \in Sendable(next[p], Size)}
        /\ awaited' = [awaited EXCEPT ![p] = Awaited(p)]
        /\ Awaited(p) \subseteq unconfirmed'
    BY <1>2 DEF SendRest, Awaited
  <2>2. unconfirmed' \subseteq Messages /\ awaited' \in [Publishers -> SUBSET Messages]
    BY <2>1, MessagesTyped
  <2>3. next' \in [Publishers -> 1 .. Size + 1]
    BY <1>2 DEF SendRest
  <2> QED
    BY <1>2, <2>2, <2>3 DEF SendRest
<1>3. CASE PublishWithoutChannel(p)
  <2>1. [call |-> call[p] + 1, ok |-> {}, failed |-> {}, thrown |-> TRUE] \in Answers
    BY DEF Answers
  <2>2. answers' \in [Publishers -> SUBSET Answers]
    BY <1>3, <2>1 DEF PublishWithoutChannel
  <2>3. call' \in [Publishers -> Nat]
    BY <1>3 DEF PublishWithoutChannel
  <2> QED
    BY <1>3, <2>2, <2>3 DEF PublishWithoutChannel
<1>4. CASE Publish(p)
  BY <1>4 DEF Publish
<1>5. CASE Confirmed(p)
  <2>1. [call |-> call[p], ok |-> InFlight(p), failed |-> Poisoned(p), thrown |-> FALSE] \in Answers
    BY MessagesTyped DEF Answers
  <2> QED
    BY <1>5, <2>1 DEF Confirmed, Answer
<1> QED
  BY <1>1, <1>2, <1>3, <1>4, <1>5 DEF Local, Send

LEMMA RejectTyped ==
    ASSUME TypeInv, NEW Q, Reject(Q)
    PROVE  /\ pc' \in [Publishers -> {"idle", "send", "drain", "confirm"}]
           /\ answers' \in [Publishers -> SUBSET Answers]
<1>1. ASSUME NEW p \in Publishers
      PROVE  [call |-> call[p], ok |-> {}, thrown |-> FALSE,
              failed |-> InFlight(p) \cup Poisoned(p)] \in Answers
  BY MessagesTyped DEF Answers, TypeInv
<1> QED
  BY <1>1 DEF Reject, TypeInv

LEMMA TypeNext ==
    ASSUME TypeInv, Next
    PROVE  TypeInv'
<1> USE DEF wireVars, connVars, callVars, boundVars
<1>1. ASSUME NEW p \in Publishers, Local(p) PROVE TypeInv'
  BY <1>1, TypeLocal
<1>2. CASE Connecting
  BY <1>2 DEF Connecting, Dial, OpenChannel, DeclareTopology, TypeInv
<1>3. CASE Drain
  BY <1>3 DEF Drain, TypeInv
<1>4. ASSUME NEW m \in unconfirmed, Ack(m) PROVE TypeInv'
  BY <1>4 DEF Ack, TypeInv
<1>5. ASSUME NEW m \in unconfirmed, Nack(m) PROVE TypeInv'
  <2>1. Reject(RejectedBy(m))
    BY <1>5 DEF Nack
  <2>2. awaited' \in [Publishers -> SUBSET Messages]
    BY <1>5 DEF Nack, TypeInv
  <2>3. nacks' \in Nat
    BY <1>5 DEF Nack, TypeInv
  <2> QED
    BY <1>5, <2>1, <2>2, <2>3, RejectTyped DEF Nack, TypeInv
<1>6. CASE Close
  <2>1. Reject(FailedByClose)
    BY <1>6 DEF Close
  <2>2. awaited' \in [Publishers -> SUBSET Messages] /\ held' \subseteq Messages
    BY <1>6 DEF Close, TypeInv
  <2>3. brokerUp' \in BOOLEAN /\ link' \in BOOLEAN /\ isConnected' \in BOOLEAN
    BY <1>6 DEF Close, TypeInv
  <2> QED
    BY <1>6, <2>1, <2>2, <2>3, RejectTyped DEF Close, TypeInv
<1>7. CASE BrokerStarts
  BY <1>7 DEF BrokerStarts, TypeInv
<1> QED
  BY <1>1, <1>2, <1>3, <1>4, <1>5, <1>6, <1>7 DEF Next, Local

LEMMA TypeInvariant == Spec => []TypeInv
<1>1. TypeInv /\ UNCHANGED vars => TypeInv'
  BY DEF TypeInv, vars, wireVars, connVars, callVars, boundVars
<1> QED
  BY <1>1, TypeInit, TypeNext, PTL DEF Spec

----------------------------------------------------------------------------
(* A batch is answered once, and for all of its records *)

Records(p, k) == {<<p, k, i>> : i \in 1 .. Size}

CallInv(p) ==
    /\ pc[p] # "idle" => call[p] > 0
    /\ pc[p] = "confirm" => next[p] = Size + 1
    /\ pc[p] # "confirm" => awaited[p] = {}
    /\ awaited[p] \subseteq unconfirmed
    /\ IsFiniteSet(answers[p])
    /\ Cardinality(answers[p]) = IF pc[p] = "idle" THEN call[p] ELSE call[p] - 1
    /\ \A a \in answers[p] :
         /\ IF pc[p] = "idle" THEN a.call <= call[p] ELSE a.call < call[p]
         /\ ~a.thrown => a.ok \cup a.failed = Records(p, a.call)

CallsInv ==
    /\ channel => link
    /\ \A p \in Publishers : CallInv(p)

LEMMA AnswerCounted ==
    ASSUME NEW S, IsFiniteSet(S), NEW c \in Nat, c > 0, Cardinality(S) = c - 1,
           \A a \in S : a.call < c, NEW b, b.call = c
    PROVE  IsFiniteSet(S \cup {b}) /\ Cardinality(S \cup {b}) = c
<1>1. b \notin S
  OBVIOUS
<1>2. IsFiniteSet(S \cup {b}) /\ Cardinality(S \cup {b}) = Cardinality(S) + 1
  BY <1>1, FS_AddElement
<1> QED
  BY <1>2

(* A caller that waits for confirms has sent its whole batch. *)
LEMMA WholeBatchInFlight ==
    ASSUME TypeInv, NEW p \in Publishers, CallInv(p), pc[p] = "confirm"
    PROVE  InFlight(p) \cup Poisoned(p) = Records(p, call[p])
<1>1. next[p] - 1 = Size /\ Corrupt \subseteq 1 .. Size
  BY SinkAssumption DEF CallInv
<1> QED
  BY <1>1 DEF InFlight, Poisoned, Records, Sendable, Message

LEMMA CallAnswered ==
    ASSUME TypeInv, NEW p \in Publishers, CallInv(p), pc[p] = "confirm", pc'[p] = "idle",
           call'[p] = call[p], awaited'[p] = {},
           NEW b, b.call = call[p], b.ok \cup b.failed = Records(p, call[p]),
           answers'[p] = answers[p] \cup {b}
    PROVE  CallInv(p)'
<1>1. call[p] \in Nat /\ call[p] > 0
  BY DEF TypeInv, CallInv
<1>2. IsFiniteSet(answers'[p]) /\ Cardinality(answers'[p]) = call[p]
  BY <1>1, AnswerCounted DEF CallInv
<1>3. \A a \in answers[p] : a.call \in Nat /\ a.call < call[p]
  BY DEF TypeInv, Answers, CallInv
<1>4. \A a \in answers'[p] : a.call <= call[p]
  BY <1>1, <1>3
<1>5. \A a \in answers'[p] : ~a.thrown => a.ok \cup a.failed = Records(p, a.call)
  BY DEF CallInv
<1>6. \A q, k : Records(q, k)' = Records(q, k)
  BY DEF Records
<1> QED
  BY <1>2, <1>4, <1>5, <1>6 DEF CallInv

LEMMA CallStays ==
    ASSUME NEW p \in Publishers, CallInv(p), pc'[p] = pc[p], call'[p] = call[p],
           next'[p] = next[p], answers'[p] = answers[p],
           awaited'[p] \subseteq awaited[p], awaited'[p] \subseteq unconfirmed'
    PROVE  CallInv(p)'
BY DEF CallInv, Records

(* All of a batch that a caller waits for is answered at once. *)
LEMMA RejectAnswers ==
    ASSUME TypeInv, NEW Q, Reject(Q), NEW p \in Publishers, p \in Q, CallInv(p),
           pc[p] = "confirm", call'[p] = call[p], awaited'[p] = {}
    PROVE  CallInv(p)'
<1> DEFINE b == [call |-> call[p], ok |-> {}, thrown |-> FALSE,
                 failed |-> InFlight(p) \cup Poisoned(p)]
<1>1. answers'[p] = answers[p] \cup {b} /\ pc'[p] = "idle"
  BY DEF Reject
<1>2. b.call = call[p] /\ b.ok \cup b.failed = Records(p, call[p])
  BY WholeBatchInFlight
<1> HIDE DEF b
<1> QED
  BY <1>1, <1>2, CallAnswered

LEMMA CallLocal ==
    ASSUME TypeInv, NEW p \in Publishers, CallInv(p), Local(p)
    PROVE  CallInv(p)'
<1>0. /\ call \in [Publishers -> Nat] /\ next \in [Publishers -> 1 .. Size + 1]
      /\ pc \in [Publishers -> {"idle", "send", "drain", "confirm"}]
      /\ awaited \in [Publishers -> SUBSET Messages]
      /\ answers \in [Publishers -> SUBSET Answers]
  BY DEF TypeInv
<1>1. \A a \in answers[p] : a.call \in Nat
  BY <1>0 DEF Answers
<1>2. \A q, k : Records(q, k)' = Records(q, k)
  BY DEF Records
<1> USE <1>0
<1>3. CASE SendUntilFull(p)
  <2>1. /\ pc[p] = "send" /\ pc'[p] = "drain" /\ UNCHANGED <<call, awaited, answers>>
        /\ unconfirmed \subseteq unconfirmed'
    BY <1>3 DEF SendUntilFull
  <2> QED
    BY <1>2, <2>1 DEF CallInv
<1>4. CASE SendRest(p)
  <2>1. /\ pc[p] = "send" /\ pc'[p] = "confirm" /\ UNCHANGED <<call, answers>>
        /\ next'[p] = Size + 1
        /\ awaited'[p] \subseteq unconfirmed'
    BY <1>4 DEF SendRest, Awaited
  <2> QED
    BY <1>2, <2>1 DEF CallInv
<1>5. CASE PublishWithoutChannel(p)
  <2> DEFINE b == [call |-> call[p] + 1, ok |-> {}, failed |-> {}, thrown |-> TRUE]
             c == call[p] + 1
  <2>1. /\ pc[p] = "idle" /\ pc'[p] = "idle" /\ UNCHANGED <<awaited, unconfirmed>>
        /\ call'[p] = c /\ answers'[p] = answers[p] \cup {b}
    BY <1>5 DEF PublishWithoutChannel, wireVars
  <2>2. c \in Nat /\ c > 0 /\ b.call = c /\ b.thrown
        /\ Cardinality(answers[p]) = c - 1 /\ IsFiniteSet(answers[p])
        /\ \A a \in answers[p] : a.call < c
    BY <1>1, <2>1 DEF CallInv
  <2> HIDE DEF b, c
  <2>3. IsFiniteSet(answers'[p]) /\ Cardinality(answers'[p]) = c
    BY <2>1, <2>2, AnswerCounted
  <2>4. \A a \in answers'[p] : a.call <= c
    BY <1>1, <2>1, <2>2
  <2>5. \A a \in answers'[p] : ~a.thrown => a.ok \cup a.failed = Records(p, a.call)
    BY <2>1, <2>2 DEF CallInv
  <2> QED
    BY <1>2, <2>1, <2>3, <2>4, <2>5 DEF CallInv
<1>6. CASE Publish(p)
  <2>1. /\ pc[p] = "idle" /\ pc'[p] = "send" /\ UNCHANGED <<awaited, unconfirmed, answers>>
        /\ call'[p] = call[p] + 1
    BY <1>6 DEF Publish, wireVars
  <2> QED
    BY <1>1, <1>2, <2>1 DEF CallInv
<1>7. CASE Confirmed(p)
  <2> DEFINE b == [call |-> call[p], ok |-> InFlight(p), failed |-> Poisoned(p), thrown |-> FALSE]
  <2>1. /\ pc[p] = "confirm" /\ pc'[p] = "idle" /\ call' = call /\ awaited'[p] = {}
        /\ answers'[p] = answers[p] \cup {b}
    BY <1>7 DEF Confirmed, Answer
  <2>2. b.call = call[p] /\ b.ok \cup b.failed = Records(p, call[p])
    BY <2>1, WholeBatchInFlight
  <2> HIDE DEF b
  <2> QED
    BY <2>1, <2>2, CallAnswered
<1> QED
  BY <1>3, <1>4, <1>5, <1>6, <1>7 DEF Local, Send

(* What one publisher does leaves the calls of the others alone. *)
LEMMA OthersUntouched ==
    ASSUME TypeInv, NEW p \in Publishers, Local(p), NEW q \in Publishers, q # p
    PROVE  /\ pc'[q] = pc[q] /\ call'[q] = call[q] /\ next'[q] = next[q]
           /\ awaited'[q] = awaited[q] /\ answers'[q] = answers[q]
           /\ unconfirmed \subseteq unconfirmed'
BY DEF TypeInv, Local, Send, SendUntilFull, SendRest, PublishWithoutChannel, Publish, Confirmed,
       Answer, wireVars

LEMMA CallsInit == Init => CallsInv
<1> SUFFICES ASSUME Init PROVE CallsInv
  OBVIOUS
<1>1. ASSUME NEW p \in Publishers PROVE CallInv(p)
  BY FS_EmptySet DEF Init, CallInv
<1> QED
  BY <1>1 DEF Init, CallsInv

LEMMA CallsNext ==
    ASSUME TypeInv, CallsInv, Next
    PROVE  CallsInv'
<1> USE DEF wireVars, connVars, callVars, boundVars
<1>1. (channel => link)'
  <2>1. channel => link
    BY DEF CallsInv
  <2>2. ASSUME NEW p \in Publishers, Local(p) PROVE (channel => link)'
    BY <2>1, <2>2 DEF Local, Send, SendUntilFull, SendRest, PublishWithoutChannel, Publish, Confirmed
  <2>3. CASE Connecting \/ Drain \/ BrokerStarts
    BY <2>1, <2>3 DEF Connecting, Dial, OpenChannel, DeclareTopology, Drain, BrokerStarts, TypeInv
  <2>4. CASE (\E m \in unconfirmed : Ack(m) \/ Nack(m)) \/ Close
    BY <2>1, <2>4 DEF Ack, Nack, Close
  <2> QED
    BY <2>2, <2>3, <2>4 DEF Next, Local
<1>2. ASSUME NEW p \in Publishers PROVE CallInv(p)'
  <2>0. CallInv(p) /\ awaited \in [Publishers -> SUBSET Messages]
        /\ awaited[p] \subseteq unconfirmed
    BY DEF CallsInv, CallInv, TypeInv
  <2>1. CASE Local(p)
    BY <2>0, <2>1, CallLocal
  <2>2. ASSUME NEW q \in Publishers, Local(q), q # p PROVE CallInv(p)'
    BY <2>0, <2>2, OthersUntouched, CallStays
  <2>3. CASE Connecting \/ BrokerStarts
    <3>1. UNCHANGED <<callVars, unconfirmed>>
      BY <2>3 DEF Connecting, Dial, OpenChannel, DeclareTopology, BrokerStarts
    <3> QED
      BY <2>0, <3>1, CallStays
  <2>4. CASE Drain
    <3>1. UNCHANGED <<call, next, awaited, answers, unconfirmed>>
          /\ \/ pc'[p] = pc[p]
             \/ pc[p] = "drain" /\ pc'[p] = "send"
      BY <2>4 DEF Drain, WokenByDrain
    <3> QED
      BY <2>0, <3>1 DEF CallInv, Records
  <2>5. ASSUME NEW m \in unconfirmed, Ack(m) PROVE CallInv(p)'
    <3>1. UNCHANGED <<pc, call, next, answers>> /\ awaited'[p] = awaited[p] \ {m}
          /\ unconfirmed' = unconfirmed \ {m}
      BY <2>5 DEF Ack
    <3> QED
      BY <2>0, <3>1, CallStays
  <2>6. ASSUME NEW m \in unconfirmed, Nack(m) PROVE CallInv(p)'
    <3>1. UNCHANGED <<call, next>> /\ Reject(RejectedBy(m)) /\ unconfirmed' = unconfirmed \ {m}
          /\ awaited'[p] = IF p \in RejectedBy(m) THEN {} ELSE awaited[p] \ {m}
      BY <2>6 DEF Nack
    <3>2. CASE p \in RejectedBy(m)
      BY <2>0, <3>1, <3>2, RejectAnswers DEF RejectedBy
    <3>3. CASE p \notin RejectedBy(m)
      <4>1. pc'[p] = pc[p] /\ answers'[p] = answers[p]
        BY <3>1, <3>3 DEF Reject
      <4> QED
        BY <2>0, <3>1, <3>3, <4>1, CallStays
    <3> QED
      BY <3>2, <3>3
  <2>7. CASE Close
    <3>1. UNCHANGED <<call, next>> /\ Reject(FailedByClose) /\ unconfirmed' = {}
          /\ awaited'[p] = IF p \in FailedByClose THEN {} ELSE awaited[p]
      BY <2>7 DEF Close
    <3>2. CASE p \in FailedByClose
      BY <2>0, <3>1, <3>2, RejectAnswers DEF FailedByClose
    <3>3. CASE p \notin FailedByClose
      <4>1. pc'[p] = pc[p] /\ answers'[p] = answers[p]
        BY <3>1, <3>3 DEF Reject
      <4>2. awaited[p] = {}
        BY <2>0, <3>3 DEF FailedByClose, CallInv
      <4> QED
        BY <2>0, <3>1, <3>3, <4>1, <4>2, CallStays
    <3> QED
      BY <3>2, <3>3
  <2> QED
    BY <2>1, <2>2, <2>3, <2>4, <2>5, <2>6, <2>7 DEF Next, Local
<1> QED
  BY <1>1, <1>2 DEF CallsInv

LEMMA CallsInvariant == Spec => [](TypeInv /\ CallsInv)
<1>1. CallsInv /\ UNCHANGED vars => CallsInv'
  BY DEF CallsInv, CallInv, Records, vars, wireVars, connVars, callVars, boundVars
<1> QED
  BY <1>1, TypeInvariant, CallsInit, CallsNext, PTL DEF Spec

(* Every variable keeps its type, and every publishBatch() is answered at  *)
(* most once, by an answer that accounts for each record of its batch      *)
(* (rabbitmq.sink.ts:196-285).                                             *)
THEOREM TypeCorrect == Spec => []TypeOK
<1>1. TypeInv /\ CallsInv => TypeOK
  BY DEF TypeInv, CallsInv, CallInv, TypeOK, Records
<1> QED
  BY <1>1, CallsInvariant, PTL

----------------------------------------------------------------------------
(* What is confirmed is held *)

(* The channel is opened once, before anybody publishes; a buffer that was *)
(* never full keeps nobody waiting for 'drain'.                            *)
ConnInv ==
    /\ connecting \in {"dial", "channel"} => ~channel /\ \A p \in Publishers : pc[p] = "idle"
    /\ full = 0 => ~choked
    /\ \A p \in Publishers : pc[p] = "send" => channel
    /\ full = 0 => \A p \in Publishers : pc[p] # "drain" /\ (pc[p] = "send" => next[p] = 1)

LEMMA ConnNext ==
    ASSUME TypeInv, ConnInv, Next
    PROVE  ConnInv'
<1>0. /\ pc \in [Publishers -> {"idle", "send", "drain", "confirm"}]
      /\ next \in [Publishers -> 1 .. Size + 1] /\ full \in Nat /\ nacks \in Nat
  BY DEF TypeInv
<1> USE <1>0 DEF ConnInv, wireVars, connVars, callVars, boundVars
<1>1. ASSUME NEW p \in Publishers, SendUntilFull(p) PROVE ConnInv'
  BY <1>1 DEF SendUntilFull
<1>2. ASSUME NEW p \in Publishers, SendRest(p) PROVE ConnInv'
  BY <1>2 DEF SendRest
<1>3. ASSUME NEW p \in Publishers, PublishWithoutChannel(p) \/ Publish(p) PROVE ConnInv'
  BY <1>3 DEF PublishWithoutChannel, Publish
<1>4. ASSUME NEW p \in Publishers, Confirmed(p) PROVE ConnInv'
  BY <1>4 DEF Confirmed, Answer
<1>5. CASE Connecting
  <2>1. connecting # "done" /\ (connecting' \in {"dial", "channel"} => connecting = "dial")
        /\ (connecting = "dial" => channel' = channel) /\ (channel => channel')
        /\ UNCHANGED <<choked, full, pc, next>>
    BY <1>5 DEF Connecting, Dial, OpenChannel, DeclareTopology
  <2> QED
    BY <2>1
<1>6. CASE Drain
  <2>1. /\ \A p \in Publishers : pc'[p] = pc[p] \/ (pc[p] = "drain" /\ pc'[p] = "send")
        /\ channel /\ ~choked' /\ UNCHANGED <<channel, connecting, full, next>>
    BY <1>6 DEF Drain, WokenByDrain
  <2> QED
    BY <2>1
<1>7. ASSUME NEW m \in unconfirmed, Ack(m) \/ Nack(m) PROVE ConnInv'
  <2>1. /\ \A p \in Publishers : pc'[p] \in {pc[p], "idle"}
        /\ UNCHANGED <<channel, connecting, choked, full, next>>
    BY <1>7 DEF Ack, Nack, Reject
  <2> QED
    BY <2>1
<1>8. ASSUME Close, \A p \in Publishers : pc[p] # "send" PROVE ConnInv'
  <2>1. /\ \A p \in Publishers : pc[p] # "send" /\ pc'[p] \in {pc[p], "idle"}
        /\ UNCHANGED <<full, next>>
    BY <1>8 DEF Close, Reject, FailedByClose
  <2>2. connecting' = "done" /\ ~choked' /\ ~channel'
    BY <1>8 DEF Close
  <2> QED
    BY <2>1, <2>2
<1>9. CASE BrokerStarts
  BY <1>9 DEF BrokerStarts
<1> QED
  BY <1>1, <1>2, <1>3, <1>4, <1>5, <1>6, <1>7, <1>8, <1>9 DEF Next, Send

(* A record that a caller has sent is held by the broker or on its way,    *)
(* and waited for as soon as the caller waits for confirms.  The wait for  *)
(* 'drain' of a channel that closed never ends, and owes nothing.          *)
SentInv(p) ==
    /\ pc[p] \in {"send", "drain"} /\ channel => InFlight(p) \subseteq held \cup unconfirmed
    /\ pc[p] = "confirm" => InFlight(p) \subseteq held \cup awaited[p]
    /\ \A a \in answers[p] : a.ok \subseteq held

ConfirmInv == full = 0 \/ nacks = 0 => \A p \in Publishers : SentInv(p)

LEMMA SentStays ==
    ASSUME NEW p \in Publishers, SentInv(p), held \subseteq held',
           pc'[p] = pc[p], call'[p] = call[p], next'[p] = next[p], answers'[p] = answers[p],
           channel' => channel,
           held \cup unconfirmed \subseteq held' \cup unconfirmed' \/ ~channel'
               \/ pc[p] \in {"idle", "confirm"},
           held \cup awaited[p] \subseteq held' \cup awaited'[p] \/ pc[p] # "confirm"
    PROVE  SentInv(p)'
<1>1. InFlight(p)' = InFlight(p)
  BY DEF InFlight, Message
<1> QED
  BY <1>1 DEF SentInv

LEMMA SentLocal ==
    ASSUME TypeInv, ConnInv, NEW p \in Publishers, SentInv(p), Local(p)
    PROVE  SentInv(p)'
<1>0. /\ call \in [Publishers -> Nat] /\ next \in [Publishers -> 1 .. Size + 1]
      /\ pc \in [Publishers -> {"idle", "send", "drain", "confirm"}]
      /\ awaited \in [Publishers -> SUBSET Messages]
      /\ answers \in [Publishers -> SUBSET Answers]
      /\ Size \in Nat
  BY SinkAssumption DEF TypeInv
<1> USE <1>0 DEF wireVars, connVars, callVars, boundVars
<1>1. CASE SendUntilFull(p)
  <2>1. PICK i \in Sendable(next[p], Size) :
          /\ unconfirmed' = unconfirmed \cup {Message(p, j) : j \in Sendable(next[p], i)}
          /\ next' = [next EXCEPT ![p] = i + 1]
    BY <1>1 DEF SendUntilFull
  <2>2. /\ pc[p] = "send" /\ pc'[p] = "drain"
        /\ UNCHANGED <<held, channel, call, answers>>
    BY <1>1 DEF SendUntilFull
  <2>3. Sendable(1, i) = Sendable(1, next[p] - 1) \cup Sendable(next[p], i)
        /\ i \in 1 .. Size
    BY <2>1 DEF Sendable
  <2>4. InFlight(p)' = InFlight(p) \cup {Message(p, j) : j \in Sendable(next[p], i)}
    <3>1. next'[p] - 1 = i
      BY <2>1, <2>3
    <3>2. \A j : Message(p, j)' = Message(p, j)
      BY <2>2 DEF Message
    <3>3. InFlight(p)' = {Message(p, j) : j \in Sendable(1, i)}
      BY <3>1, <3>2 DEF InFlight, Sendable
    <3> QED
      BY <2>3, <3>3 DEF InFlight
  <2> QED
    BY <2>1, <2>2, <2>4 DEF SentInv
<1>2. CASE SendRest(p)
  <2>1. /\ pc[p] = "send" /\ pc'[p] = "confirm" /\ awaited'[p] = Awaited(p)
        /\ next'[p] = Size + 1 /\ UNCHANGED <<held, channel, call, answers>>
    BY <1>2 DEF SendRest, Awaited
  <2>2. Sendable(1, Size) = Sendable(1, next[p] - 1) \cup Sendable(next[p], Size)
    BY DEF Sendable
  <2>3. InFlight(p)' = InFlight(p) \cup {Message(p, j) : j \in Sendable(next[p], Size)}
    <3>1. next'[p] - 1 = Size
      BY <2>1
    <3>2. \A j : Message(p, j)' = Message(p, j)
      BY <2>1 DEF Message
    <3>3. InFlight(p)' = {Message(p, j) : j \in Sendable(1, Size)}
      BY <3>1, <3>2 DEF InFlight, Sendable
    <3> QED
      BY <2>2, <3>3 DEF InFlight
  <2>4. channel => InFlight(p) \subseteq held \cup unconfirmed
    BY <2>1 DEF SentInv
  <2>5. InFlight(p)' \subseteq held \cup Awaited(p)
    <3>1. CASE Sendable(1, Size) = {}
      <4>1. InFlight(p) = {} /\ Sendable(next[p], Size) = {}
        BY <2>2, <3>1 DEF InFlight
      <4> QED
        BY <2>3, <4>1
    <3>2. CASE Sendable(1, Size) # {}
      BY <2>1, <2>3, <2>4, <3>2 DEF Awaited, ConnInv
    <3> QED
      BY <3>1, <3>2
  <2> QED
    BY <2>1, <2>5 DEF SentInv
<1>3. CASE PublishWithoutChannel(p)
  BY <1>3 DEF PublishWithoutChannel, SentInv
<1>4. CASE Publish(p)
  <2>1. next'[p] = 1 /\ pc'[p] = "send" /\ UNCHANGED <<held, answers>>
    BY <1>4 DEF Publish
  <2>2. InFlight(p)' = {}
    BY <2>1 DEF InFlight, Sendable
  <2> QED
    BY <2>1, <2>2 DEF SentInv
<1>5. CASE Confirmed(p)
  BY <1>5 DEF Confirmed, Answer, SentInv
<1> QED
  BY <1>1, <1>2, <1>3, <1>4, <1>5 DEF Local, Send

LEMMA SentReject ==
    ASSUME NEW Q, Reject(Q), NEW p \in Publishers, p \in Q, SentInv(p), held \subseteq held'
    PROVE  SentInv(p)'
<1>1. /\ pc'[p] = "idle"
      /\ answers'[p] = answers[p] \cup {[call |-> call[p], ok |-> {}, thrown |-> FALSE,
                                         failed |-> InFlight(p) \cup Poisoned(p)]}
  BY DEF Reject
<1> QED
  BY <1>1 DEF SentInv

LEMMA ConfirmInit == Init => ConnInv /\ ConfirmInv
BY DEF Init, ConnInv, ConfirmInv, SentInv

LEMMA ConfirmNext ==
    ASSUME TypeInv, CallsInv, ConnInv, ConfirmInv, Next
    PROVE  ConfirmInv'
<1> USE DEF wireVars, connVars, callVars, boundVars
<1>1. ASSUME NEW p \in Publishers, Local(p) PROVE ConfirmInv'
  <2>1. nacks' = nacks /\ (full' = 0 => full = 0) /\ UNCHANGED <<held, channel>>
    <3>1. CASE SendUntilFull(p)
      <4>1. full' = full \/ full' = full + 1
        BY <3>1 DEF SendUntilFull
      <4> QED
        BY <3>1, <4>1 DEF SendUntilFull, TypeInv
    <3>2. CASE SendRest(p) \/ PublishWithoutChannel(p) \/ Publish(p) \/ Confirmed(p)
      BY <3>2 DEF SendRest, PublishWithoutChannel, Publish, Confirmed
    <3> QED
      BY <1>1, <3>1, <3>2 DEF Local, Send
  <2> SUFFICES ASSUME full' = 0 \/ nacks' = 0, NEW q \in Publishers PROVE SentInv(q)'
    BY DEF ConfirmInv
  <2>2. SentInv(q)
    BY <2>1 DEF ConfirmInv
  <2>3. CASE q = p
    BY <1>1, <2>2, <2>3, SentLocal
  <2>4. CASE q # p
    BY <1>1, <2>1, <2>2, <2>4, OthersUntouched, SentStays
  <2> QED
    BY <2>3, <2>4
<1>2. CASE Connecting \/ BrokerStarts
  <2>1. UNCHANGED <<callVars, held, unconfirmed, full, nacks>>
    BY <1>2 DEF Connecting, Dial, OpenChannel, DeclareTopology, BrokerStarts
  <2>2. channel' => channel \/ \A p \in Publishers : pc[p] = "idle"
    BY <1>2 DEF Connecting, Dial, OpenChannel, DeclareTopology, BrokerStarts, ConnInv
  <2>3. \A p \in Publishers : InFlight(p)' = InFlight(p)
    BY <2>1 DEF InFlight, Message
  <2> QED
    BY <2>1, <2>2, <2>3 DEF ConfirmInv, SentInv
<1>3. CASE Drain
  <2>1. /\ \A p \in Publishers : pc'[p] = pc[p] \/ (pc[p] = "drain" /\ pc'[p] = "send")
        /\ channel /\ UNCHANGED <<channel, held, unconfirmed, call, next, awaited, answers,
                                  full, nacks>>
    BY <1>3 DEF Drain, WokenByDrain
  <2>2. \A p \in Publishers : InFlight(p)' = InFlight(p)
    BY <2>1 DEF InFlight, Message
  <2> QED
    BY <2>1, <2>2 DEF ConfirmInv, SentInv
<1>4. ASSUME NEW m \in unconfirmed, Ack(m) PROVE ConfirmInv'
  <2>1. /\ UNCHANGED <<pc, call, next, answers, channel, full, nacks>>
        /\ held' = held \cup {m} /\ unconfirmed' = unconfirmed \ {m}
        /\ \A p \in Publishers : awaited'[p] = awaited[p] \ {m}
    BY <1>4 DEF Ack
  <2>2. held \cup unconfirmed \subseteq held' \cup unconfirmed'
        /\ \A p \in Publishers : held \cup awaited[p] \subseteq held' \cup awaited'[p]
    BY <2>1
  <2> SUFFICES ASSUME full' = 0 \/ nacks' = 0, NEW p \in Publishers PROVE SentInv(p)'
    BY DEF ConfirmInv
  <2>3. SentInv(p)
    BY <2>1 DEF ConfirmInv
  <2> QED
    BY <2>1, <2>2, <2>3, SentStays
<1>5. ASSUME NEW m \in unconfirmed, Nack(m), \A p \in Publishers : pc[p] # "send"
      PROVE  ConfirmInv'
  <2>1. /\ UNCHANGED <<call, next, channel, full, held>> /\ nacks' = nacks + 1
        /\ unconfirmed' = unconfirmed \ {m} /\ Reject(RejectedBy(m))
        /\ \A p \in Publishers :
             awaited'[p] = IF p \in RejectedBy(m) THEN {} ELSE awaited[p] \ {m}
    BY <1>5 DEF Nack
  <2> SUFFICES ASSUME full' = 0 \/ nacks' = 0, NEW p \in Publishers PROVE SentInv(p)'
    BY DEF ConfirmInv
  <2>2. full = 0
    BY <2>1 DEF TypeInv
  <2>3. SentInv(p) /\ pc[p] \in {"idle", "confirm"}
    BY <1>5, <2>2 DEF ConfirmInv, ConnInv, TypeInv
  <2>4. CASE p \in RejectedBy(m)
    BY <2>1, <2>3, <2>4, SentReject
  <2>5. CASE p \notin RejectedBy(m)
    <3>1. pc'[p] = pc[p] /\ answers'[p] = answers[p]
      BY <2>1, <2>5 DEF Reject
    <3>2. pc[p] = "confirm" => awaited'[p] = awaited[p]
      <4>1. pc[p] = "confirm" => m \notin awaited[p]
        BY <2>5 DEF RejectedBy
      <4>2. awaited'[p] = awaited[p] \ {m}
        BY <2>1, <2>5
      <4> QED
        BY <4>1, <4>2
    <3> QED
      BY <2>1, <2>3, <3>1, <3>2, SentStays
  <2> QED
    BY <2>4, <2>5
<1>6. CASE Close
  <2>1. /\ UNCHANGED <<call, next, full, nacks>> /\ ~channel'
        /\ held \subseteq held' /\ Reject(FailedByClose)
        /\ \A p \in Publishers : awaited'[p] = IF p \in FailedByClose THEN {} ELSE awaited[p]
    BY <1>6 DEF Close
  <2> SUFFICES ASSUME full' = 0 \/ nacks' = 0, NEW p \in Publishers PROVE SentInv(p)'
    BY DEF ConfirmInv
  <2>2. SentInv(p)
    BY <2>1 DEF ConfirmInv
  <2>3. CASE p \in FailedByClose
    BY <2>1, <2>2, <2>3, SentReject
  <2>4. CASE p \notin FailedByClose
    <3>1. pc'[p] = pc[p] /\ answers'[p] = answers[p] /\ awaited'[p] = awaited[p]
      BY <2>1, <2>4 DEF Reject
    <3> QED
      BY <2>1, <2>2, <3>1, SentStays
  <2> QED
    BY <2>3, <2>4
<1> QED
  BY <1>1, <1>2, <1>3, <1>4, <1>5, <1>6 DEF Next, Local

LEMMA ConfirmInvariant == Spec => [](TypeInv /\ CallsInv /\ ConnInv /\ ConfirmInv)
<1>1. ConnInv /\ UNCHANGED vars => ConnInv'
  BY DEF ConnInv, vars, wireVars, connVars, callVars, boundVars
<1>2. ConfirmInv /\ UNCHANGED vars => ConfirmInv'
  BY DEF ConfirmInv, SentInv, InFlight, Message, vars, wireVars, connVars, callVars, boundVars
<1> QED
  BY <1>1, <1>2, CallsInvariant, ConfirmInit, ConnNext, ConfirmNext, PTL DEF Spec

(* A record that a batch reports as confirmed is in the hands of the       *)
(* broker (rabbitmq.sink.ts:265-283), whoever else publishes on the        *)
(* channel and however often it closes, as long as no NACK can meet a      *)
(* caller that waits for 'drain' (lines 250-254).                          *)
THEOREM ConfirmedIsHeld == Spec => []ConfirmedMeansHeld
<1>1. ConfirmInv => ConfirmedMeansHeld
  BY DEF ConfirmInv, SentInv, ConfirmedMeansHeld, HeldIfConfirmed
<1> QED
  BY <1>1, ConfirmInvariant, PTL
=============================================================================
