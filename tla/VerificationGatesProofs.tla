----------------------- MODULE VerificationGatesProofs -----------------------
(***************************************************************************)
(* Proofs about VerificationGates, for any rows, any of them corrupted or  *)
(* lost, any plan of the suite and any trouble.                            *)
(***************************************************************************)
EXTENDS VerificationGates, FiniteSetTheorems, TLAPS

(* What holds of the world however it is watched: the index and the queue  *)
(* have rows of the table, an index that has had every version it has; as  *)
(* long as nobody replays an entry a queue whose entries wait, and an      *)
(* index without the poison pills.                                         *)
WorldInv ==
    /\ version \in [Rows -> Nat] /\ index \in [Rows -> Nat] /\ reached \in [Rows -> Nat]
    /\ entry \in [Rows -> {"NONE", "PENDING", "RESOLVED"}]
    /\ todo \subseteq Source /\ Documents \subseteq Source /\ visible \subseteq Documents
    /\ \A p \in flight : p \in Source \X (Nat \ {0})
    /\ replays \subseteq Documents
    /\ \A r \in Rows : index[r] <= reached[r]
    /\ \A r \in Rows : entry[r] # "NONE" => r \in Source

QueueInv ==
    "replay" \notin trouble =>
        /\ replays = {}
        /\ \A r \in Rows : entry[r] # "NONE" => entry[r] = "PENDING"
        /\ \A p \in flight : p[1] \notin Poison
        /\ \A r \in Poison : index[r] = 0

(* A step that loses nothing the index ever had, the rows in it and those  *)
(* of the queue; and that without a replay takes nothing from the queue    *)
(* and indexes only what was in flight, and without a write puts only in   *)
(* flight what was to do.                                                  *)
Gentle ==
    /\ trouble \subseteq trouble' /\ Source \subseteq Source'
    /\ \A r \in Valid \cup Poison : version[r] = 0 => version'[r] = 0
    /\ \A r \in Rows : /\ reached[r] <= reached'[r]
                       /\ index[r] > 0 => index'[r] > 0
                       /\ Accounted(r) => Accounted(r)'
    /\ "replay" \notin trouble' =>
         /\ \A r \in Rows : entry[r] = "PENDING" => entry'[r] = "PENDING"
         /\ \A r \in Rows : index'[r] # index[r] => \E p \in flight : p[1] = r
         /\ "write" \notin trouble' =>
              /\ todo' \subseteq todo
              /\ \A p \in flight' : p \in flight \/ p[1] \in todo

(* A step that only looks. *)
Looks ==
    /\ UNCHANGED <<version, index, reached, flight, entry, todo>>
    /\ trouble \subseteq trouble' /\ replays' \subseteq replays
    /\ visible' \in {visible, Documents}

LEMMA LooksIsGentle ==
    ASSUME WorldInv, QueueInv, Looks
    PROVE  WorldInv' /\ QueueInv' /\ Gentle /\ Documents' = Documents /\ Source' = Source
<1>1. Documents' = Documents /\ Source' = Source
  BY DEF Looks, Documents, Source
<1>2. WorldInv'
  BY <1>1 DEF WorldInv, Looks
<1>3. QueueInv'
  BY DEF QueueInv, Looks
<1>4. Gentle
  <2>1. \A r \in Rows : reached[r] <= reached'[r]
    BY DEF WorldInv, Looks
  <2> QED
    BY <1>1, <2>1 DEF Looks, Gentle, Accounted
<1> QED
  BY <1>1, <1>2, <1>3, <1>4

(* A step that asks and gets an answer only looks, and one that stands     *)
(* still.                                                                  *)
LEMMA AskingLooks ==
    ASSUME UNCHANGED <<version, sinkVars, queueVars, daemonVars, up>>, trouble \subseteq trouble'
    PROVE  Looks /\ UNCHANGED <<version, up, visible>>
BY DEF Looks, sinkVars, queueVars, daemonVars

LEMMA StillLooks ==
    ASSUME UNCHANGED world
    PROVE  Looks /\ UNCHANGED <<version, index, reached, flight, entry, todo, up, visible, trouble>>
BY DEF Looks, world, sinkVars, queueVars, daemonVars

(* A version that reaches the index. *)
LEMMA IndexingIsGentle ==
    ASSUME WorldInv, NEW r \in Source, NEW v \in Nat \ {0}, Index(r, v), UNCHANGED version
    PROVE  /\ index' \in [Rows -> Nat] /\ reached' \in [Rows -> Nat]
           /\ Source' = Source /\ Documents' = Documents \cup {r}
           /\ \A x \in Rows : /\ index'[x] <= reached'[x] /\ reached[x] <= reached'[x]
                              /\ index[x] > 0 => index'[x] > 0
                              /\ index'[x] # index[x] => x = r
<1>1. r \in Rows
  BY DEF Source
<1>2. /\ index' = [index EXCEPT ![r] = v]
      /\ reached' = [reached EXCEPT ![r] = IF v > reached[r] THEN v ELSE reached[r]]
  BY <1>1 DEF Index, WorldInv
<1>3. index' \in [Rows -> Nat] /\ reached' \in [Rows -> Nat]
  BY <1>1, <1>2 DEF WorldInv
<1>4. \A x \in Rows : /\ index'[x] <= reached'[x] /\ reached[x] <= reached'[x]
                      /\ index[x] > 0 => index'[x] > 0
                      /\ index'[x] # index[x] => x = r
  <2> TAKE x \in Rows
  <2>1. index[x] \in Nat /\ reached[x] \in Nat /\ index[x] <= reached[x]
    BY DEF WorldInv
  <2>2. CASE x = r
    <3>1. index'[x] = v /\ reached'[x] = IF v > reached[x] THEN v ELSE reached[x]
      BY <1>2, <2>2 DEF WorldInv
    <3> QED
      BY <2>1, <2>2, <3>1
  <2>3. CASE x # r
    <3>1. index'[x] = index[x] /\ reached'[x] = reached[x]
      BY <1>2, <2>3 DEF WorldInv
    <3> QED
      BY <2>1, <3>1
  <2> QED
    BY <2>2, <2>3
<1>5. Documents' = Documents \cup {r}
  BY <1>1, <1>2 DEF Documents, WorldInv
<1> QED
  BY <1>3, <1>4, <1>5 DEF Source

(* How the world goes on. *)
GoesGently == WorldInv' /\ QueueInv' /\ Gentle /\ UNCHANGED up

LEMMA DispatchIsGentle ==
    ASSUME WorldInv, QueueInv, NEW r \in Rows, Dispatch(r)
    PROVE  GoesGently
<1>1. /\ UNCHANGED <<version, index, reached, visible, entry, replays, todo, up, trouble>>
      /\ r \in todo \ Rejected /\ flight' = flight \cup {<<r, version[r]>>}
  BY DEF Dispatch, queueVars, daemonVars
<1>2. <<r, version[r]>> \in Source \X (Nat \ {0}) /\ r \notin Poison
  BY <1>1 DEF WorldInv, Source, Rejected
<1>3. Source' = Source /\ Documents' = Documents
  BY <1>1 DEF Source, Documents
<1>4. WorldInv'
  BY <1>1, <1>2, <1>3 DEF WorldInv
<1>5. QueueInv'
  BY <1>1, <1>2 DEF QueueInv
<1>6. Gentle
  <2>1. \A x \in Rows : reached[x] <= reached'[x]
    BY <1>1 DEF WorldInv
  <2> QED
    BY <1>1, <1>3, <2>1 DEF Gentle, Accounted
<1> QED
  BY <1>1, <1>4, <1>5, <1>6 DEF GoesGently

LEMMA LandIsGentle ==
    ASSUME WorldInv, QueueInv, NEW p \in flight, Land(p[1], p[2])
    PROVE  GoesGently
<1> DEFINE r == p[1]
           v == p[2]
<1>1. r \in Source /\ r \in Rows /\ v \in Nat \ {0} /\ p = <<r, v>>
  BY DEF WorldInv, Source
<1>2. /\ UNCHANGED <<version, visible, entry, replays, up, trouble>>
      /\ Index(r, v) /\ flight' = flight \ {p} /\ todo' \subseteq todo
  BY <1>1 DEF Land, queueVars, MayBeDone
<1> HIDE DEF r, v
<1>3. /\ index' \in [Rows -> Nat] /\ reached' \in [Rows -> Nat]
      /\ Source' = Source /\ Documents' = Documents \cup {r}
      /\ \A x \in Rows : /\ index'[x] <= reached'[x] /\ reached[x] <= reached'[x]
                         /\ index[x] > 0 => index'[x] > 0
                         /\ index'[x] # index[x] => x = r
  BY <1>1, <1>2, IndexingIsGentle
<1>4. WorldInv'
  BY <1>1, <1>2, <1>3 DEF WorldInv
<1>5. QueueInv'
  <2>1. Poison \subseteq Rows
    BY DEF Rows
  <2>2. "replay" \notin trouble => r \notin Poison
    BY <1>1 DEF QueueInv, r
  <2> QED
    BY <1>2, <1>3, <2>1, <2>2 DEF QueueInv
<1>6. Gentle
  <2>1. \A x \in Rows : Accounted(x) => Accounted(x)'
    BY <1>2, <1>3 DEF Accounted
  <2>2. p \in flight /\ p[1] = r
    BY DEF r
  <2> QED
    BY <1>2, <1>3, <2>1, <2>2 DEF Gentle
<1> QED
  BY <1>2, <1>4, <1>5, <1>6 DEF GoesGently

LEMMA QuarantineIsGentle ==
    ASSUME WorldInv, QueueInv, NEW r \in Rows, Quarantine(r)
    PROVE  GoesGently
<1>1. /\ UNCHANGED <<version, index, reached, visible, flight, replays, up>>
      /\ trouble \subseteq trouble' /\ ("replay" \in trouble' => "replay" \in trouble)
      /\ r \in todo /\ todo' \subseteq todo /\ entry' = [entry EXCEPT ![r] = "PENDING"]
  BY DEF Quarantine, sinkVars, MayBeDone
<1>2. Source' = Source /\ Documents' = Documents /\ r \in Source
  BY <1>1 DEF Source, Documents, WorldInv
<1>3. /\ entry' \in [Rows -> {"NONE", "PENDING", "RESOLVED"}]
      /\ \A x \in Rows : entry'[x] = IF x = r THEN "PENDING" ELSE entry[x]
  BY <1>1 DEF WorldInv
<1>4. WorldInv'
  BY <1>1, <1>2, <1>3 DEF WorldInv
<1>5. QueueInv'
  BY <1>1, <1>3 DEF QueueInv
<1>6. Gentle
  <2>1. \A x \in Rows : reached[x] <= reached'[x]
    BY <1>1 DEF WorldInv
  <2>2. \A x \in Rows : Accounted(x) => Accounted(x)'
    BY <1>1, <1>3 DEF Accounted
  <2> QED
    BY <1>1, <1>2, <1>3, <2>1, <2>2 DEF Gentle
<1> QED
  BY <1>1, <1>4, <1>5, <1>6 DEF GoesGently

LEMMA ReplayIsGentle ==
    ASSUME WorldInv, NEW r \in Rows, Replay(r)
    PROVE  GoesGently
<1>1. /\ UNCHANGED <<version, visible, entry, todo, up>> /\ trouble' = trouble \cup {"replay"}
      /\ entry[r] = "PENDING"
  BY DEF Replay, daemonVars
<1>2. r \in Source /\ Source' = Source
  BY <1>1 DEF WorldInv, Source
<1>3. CASE Index(r, 1) /\ replays' = replays \cup {r} /\ UNCHANGED flight
  <2>1. /\ index' \in [Rows -> Nat] /\ reached' \in [Rows -> Nat]
        /\ Source' = Source /\ Documents' = Documents \cup {r}
        /\ \A x \in Rows : /\ index'[x] <= reached'[x] /\ reached[x] <= reached'[x]
                           /\ index[x] > 0 => index'[x] > 0
                           /\ index'[x] # index[x] => x = r
    BY <1>1, <1>2, <1>3, IndexingIsGentle
  <2>2. WorldInv'
    BY <1>1, <1>2, <1>3, <2>1 DEF WorldInv
  <2> QED
    BY <1>1, <1>3, <2>1, <2>2 DEF GoesGently, QueueInv, Gentle, Accounted
<1>4. CASE flight' = flight \cup {<<r, 1>>} /\ UNCHANGED <<index, reached, replays>>
  <2>1. Documents' = Documents
    BY <1>4 DEF Documents
  <2>2. \A x \in Rows : reached[x] <= reached'[x]
    BY <1>4 DEF WorldInv
  <2>3. WorldInv'
    BY <1>1, <1>2, <1>4, <2>1 DEF WorldInv
  <2> QED
    BY <1>1, <1>2, <1>4, <2>2, <2>3 DEF GoesGently, QueueInv, Gentle, Accounted
<1> QED
  BY <1>3, <1>4 DEF Replay

LEMMA ResolveIsGentle ==
    ASSUME WorldInv, QueueInv, NEW r \in Rows, Resolve(r)
    PROVE  GoesGently
<1>1. /\ UNCHANGED <<version, index, reached, visible, flight, todo, up, trouble>>
      /\ r \in replays /\ replays' = replays \ {r}
      /\ entry' \in {entry, [entry EXCEPT ![r] = "RESOLVED"]}
  BY DEF Resolve, sinkVars, daemonVars
<1>2. Source' = Source /\ Documents' = Documents /\ index[r] > 0 /\ r \in Source
  BY <1>1 DEF Source, Documents, WorldInv
<1>3. /\ entry' \in [Rows -> {"NONE", "PENDING", "RESOLVED"}]
      /\ \A x \in Rows : x # r => entry'[x] = entry[x]
  BY <1>1 DEF WorldInv
<1>4. WorldInv'
  BY <1>1, <1>2, <1>3 DEF WorldInv
<1>5. "replay" \in trouble
  BY <1>1 DEF QueueInv
<1>6. Gentle
  <2>1. \A x \in Rows : reached[x] <= reached'[x]
    BY <1>1 DEF WorldInv
  <2>2. \A x \in Rows : Accounted(x) => Accounted(x)'
    BY <1>1, <1>2, <1>3 DEF Accounted
  <2> QED
    BY <1>1, <1>2, <1>5, <2>1, <2>2 DEF Gentle
<1> QED
  BY <1>1, <1>4, <1>5, <1>6 DEF GoesGently, QueueInv

LEMMA WriteIsGentle ==
    ASSUME WorldInv, QueueInv, NEW r \in Rows, Write(r)
    PROVE  GoesGently
<1>1. /\ UNCHANGED <<index, reached, visible, flight, entry, replays, up>>
      /\ trouble' = trouble \cup {"write"} /\ r \in Others \cup Source
      /\ version' = [version EXCEPT ![r] = version[r] + 1] /\ todo' \in {todo, todo \cup {r}}
  BY DEF Write, sinkVars, queueVars
<1>2. /\ version' \in [Rows -> Nat] /\ version'[r] > 0
      /\ \A x \in Rows : version[x] > 0 => version'[x] > 0
      /\ \A x \in Rows \ {r} : version'[x] = version[x]
  BY <1>1 DEF WorldInv
<1>3. Source \subseteq Source' /\ r \in Source' /\ Documents' = Documents
  BY <1>1, <1>2 DEF Source, Documents
<1>4. WorldInv'
  BY <1>1, <1>2, <1>3 DEF WorldInv
<1>5. QueueInv'
  BY <1>1 DEF QueueInv
<1>6. \A x \in Valid \cup Poison : version[x] = 0 => version'[x] = 0
  <2>1. Valid \cup Poison \subseteq Rows /\ (Valid \cup Poison) \cap Others = {}
    BY RowsAssumption DEF Rows
  <2>2. \A x \in Valid \cup Poison : version[x] = 0 => x # r
    BY <1>1, <2>1 DEF Source
  <2> QED
    BY <1>2, <2>1, <2>2
<1>7. Gentle
  <2>1. \A x \in Rows : reached[x] <= reached'[x]
    BY <1>1 DEF WorldInv
  <2> QED
    BY <1>1, <1>3, <1>6, <2>1 DEF Gentle, Accounted
<1> QED
  BY <1>1, <1>4, <1>5, <1>7 DEF GoesGently

LEMMA WorldGoesOn ==
    ASSUME WorldInv, QueueInv, World
    PROVE  GoesGently
<1>1. CASE Breaker \/ Refresh
  <2>1. Looks /\ UNCHANGED up
    BY <1>1 DEF Breaker, Refresh, Looks, sinkVars, queueVars, daemonVars
  <2> QED
    BY <2>1, LooksIsGentle DEF GoesGently
<1> QED
  BY <1>1, DispatchIsGentle, LandIsGentle, QuarantineIsGentle, ReplayIsGentle, ResolveIsGentle,
     WriteIsGentle DEF World

(* What a question answers, and what its failure leaves in trouble. *)
LEMMA AnswersTell ==
    ASSUME NEW kind, NEW answer, NEW a \in Answers(kind, answer)
    PROVE  /\ trouble \subseteq a.trouble
           /\ a.value = answer \/ (a.value = None /\ kind \in a.trouble)
BY DEF Answers

LEMMA IndexAnswersTell ==
    ASSUME NEW kind, NEW answer, NEW a \in IndexAnswers(kind, answer)
    PROVE  /\ trouble \subseteq a.trouble
           /\ up => a.value = answer \/ (a.value = None /\ kind \in a.trouble)
           /\ ~up => a.value = None
BY AnswersTell DEF IndexAnswers

----------------------------------------------------------------------------
(* The locals and the control of the gates *)

Fields == {"plan", "pc", "verdict", "quiesced", "again", "source", "expected", "quarantined", "absent",
           "es", "unique", "want", "matched", "base", "polled", "evidence", "down", "canaries", "got",
           "clean"}

Ended == {"verdict", "done"}
Pcs2 == {"count", "select", "mget", "quiesce", "refresh", "read", "consumer", "judge2"}
Pcs3 == {"count", "select", "probe", "quiesce", "stop", "mutate", "watch", "restore", "recover",
         "poll", "read", "docs", "judge3"}
Pcs4 == {"quiesce", "delete", "refresh", "initial", "seed", "poison", "refresh4", "both", "round",
         "last", "lastCount", "judge4"}

ControlInv ==
    /\ DOMAIN g = Fields
    /\ IsPlan(g.plan) /\ Gate \in {2, 3, 4}
    /\ g.pc \in {"start", "finally"} \cup Ended
                \cup (CASE Gate = 2 -> Pcs2 [] Gate = 3 -> Pcs3 [] Gate = 4 -> Pcs4)
    /\ g.pc \notin Ended \cup {"finally"} => g.verdict = "NONE"
    /\ Gate # 3 => ~g.down /\ g.pc # "finally"

LEMMA PlanGoesOn ==
    ASSUME NEW plan, IsPlan(plan)
    PROVE  /\ Head(plan) \in {2, 3, 4}
           /\ Len(plan) > 1 => IsPlan(Tail(plan)) /\ Head(plan) < Head(Tail(plan))
<1>1. plan \in Seq({2, 3, 4}) /\ Len(plan) \in Nat /\ Len(plan) > 0 /\ Head(plan) = plan[1]
  BY DEF IsPlan
<1>2. ASSUME Len(plan) > 1
      PROVE  IsPlan(Tail(plan)) /\ Head(plan) < Head(Tail(plan))
  <2>1. /\ Tail(plan) \in Seq({2, 3, 4}) /\ Len(Tail(plan)) = Len(plan) - 1
        /\ \A i \in 1..Len(Tail(plan)) : Tail(plan)[i] = plan[i + 1]
    BY <1>1, <1>2
  <2>2. Tail(plan) # <<>> /\ Head(Tail(plan)) = plan[2]
    <3> DEFINE t == Tail(plan)
    <3>1. t \in Seq({2, 3, 4}) /\ Len(t) \in Nat /\ Len(t) >= 1 /\ t[1] = plan[2]
      BY <1>1, <1>2, <2>1
    <3> HIDE DEF t
    <3>2. t # <<>> /\ Head(t) = t[1]
      BY <3>1
    <3> QED
      BY <3>1, <3>2 DEF t
  <2>3. plan[1] < plan[2]
    BY <1>1, <1>2 DEF IsPlan
  <2>4. \A i, j \in 1..Len(Tail(plan)) : i < j => Tail(plan)[i] < Tail(plan)[j]
    BY <1>1, <1>2, <2>1 DEF IsPlan
  <2> QED
    BY <1>1, <2>1, <2>2, <2>3, <2>4 DEF IsPlan
<1> QED
  BY <1>1, <1>2

LEMMA FreshIsControlled ==
    ASSUME NEW plan, IsPlan(plan)
    PROVE  /\ DOMAIN Fresh(plan) = Fields /\ Fresh(plan).plan = plan
           /\ Fresh(plan).pc = "start" /\ Fresh(plan).verdict = "NONE" /\ ~Fresh(plan).down
           /\ Fresh(plan).es = None /\ Fresh(plan).source = {} /\ Fresh(plan).quarantined = {}
           /\ Fresh(plan).absent = {} /\ Fresh(plan).want = Nobody
           /\ ~Fresh(plan).clean /\ Fresh(plan).base = 0
BY DEF Fresh, Fields

(* The steps of a gate are those that its number says. *)
LEMMA StepsOfGate ==
    ASSUME ControlInv, Suite
    PROVE  \/ StartGate \/ NextGate \/ Quiesce \/ Throws
           \/ Gate \in {2, 3} /\ (CountSource \/ SelectQuarantined)
           \/ Gate = 2 /\ Gate2
           \/ Gate3
           \/ Gate4
<1>1. CountSource => Gate \in {2, 3}
  BY DEF ControlInv, CountSource, At, Ended, Pcs4
<1>2. SelectQuarantined => Gate \in {2, 3}
  BY DEF ControlInv, SelectQuarantined, At, Ended, Pcs4
<1>3. ComputeExpectation \/ AskConsumer \/ Judge2 => Gate = 2
  BY DEF ControlInv, ComputeExpectation, AskConsumer, Judge2, At, Ended, Pcs3, Pcs4
<1> QED
  BY <1>1, <1>2, <1>3 DEF Suite, Gate2

(* How a step leaves the control: it goes on within the gate, or ends it. *)
GoesOn ==
    /\ DOMAIN g' = Fields /\ g'.plan = g.plan
    /\ g'.pc \in Ended \cup {"finally"}
                 \cup (CASE Gate = 2 -> Pcs2 [] Gate = 3 -> Pcs3 [] Gate = 4 -> Pcs4)
    /\ g'.pc \notin Ended \cup {"finally"} => g'.verdict = "NONE"
    /\ Gate # 3 => ~g'.down /\ g'.pc # "finally"

LEMMA GoingOnIsControlled ==
    ASSUME ControlInv, GoesOn
    PROVE  ControlInv'
BY DEF ControlInv, GoesOn, Gate

LEMMA EndingIsControlled ==
    ASSUME ControlInv, NEW verdict, g' = Ends(verdict)
    PROVE  /\ GoesOn /\ g'.verdict = verdict
           /\ g'.pc = IF g.down THEN "finally" ELSE "verdict"
           /\ \A f \in Fields \ {"pc", "verdict"} : g'[f] = g[f]
BY DEF ControlInv, GoesOn, Ends, Ended, Fields

LEMMA NextGateIsControlled ==
    ASSUME ControlInv, NextGate
    PROVE  /\ ControlInv' /\ UNCHANGED world
           /\ \/ g' = Fresh(g'.plan) /\ Gate # 4
              \/ g.pc = "verdict" /\ g'.pc = "done" /\ \A f \in Fields \ {"pc"} : g'[f] = g[f]
<1>1. CASE Len(g.plan) > 1 /\ Local(Fresh(Tail(g.plan)))
  <2>1. /\ IsPlan(Tail(g.plan)) /\ Head(g.plan) < Head(Tail(g.plan))
        /\ Head(g.plan) \in {2, 3, 4} /\ Head(Tail(g.plan)) \in {2, 3, 4}
    BY <1>1, PlanGoesOn DEF ControlInv
  <2>2. g' = Fresh(Tail(g.plan)) /\ UNCHANGED world
    BY <1>1 DEF Local
  <2>3. /\ DOMAIN g' = Fields /\ g'.plan = Tail(g.plan) /\ g'.pc = "start"
        /\ g'.verdict = "NONE" /\ ~g'.down
    BY <2>1, <2>2, FreshIsControlled
  <2>4. Gate # 4
    <3>1. \A a, b \in {2, 3, 4} : a < b => a # 4
      OBVIOUS
    <3> QED
      BY <2>1, <3>1, Zenon DEF Gate
  <2>5. ControlInv'
    BY <2>1, <2>3 DEF ControlInv, Gate
  <2> QED
    BY <2>2, <2>3, <2>4, <2>5
<1>2. CASE Local(Goes("done"))
  <2>1. g' = [g EXCEPT !.pc = "done"] /\ UNCHANGED world /\ g.pc = "verdict"
    BY <1>2 DEF Local, Goes, NextGate, At
  <2>2. DOMAIN g' = Fields /\ g'.pc = "done" /\ \A f \in Fields \ {"pc"} : g'[f] = g[f]
    BY <2>1 DEF ControlInv, Fields
  <2>3. g'.plan = g.plan /\ g'.verdict = g.verdict /\ g'.down = g.down
    BY <2>2 DEF Fields
  <2>4. ControlInv'
    BY <2>1, <2>2, <2>3 DEF ControlInv, Ended, Gate
  <2> QED
    BY <2>1, <2>2, <2>4
<1> QED
  BY <1>1, <1>2 DEF NextGate

(* A step from one place of a gate to another that changes, of the other   *)
(* locals, only those of fields.                                           *)
Moves(from, to, fields) ==
    /\ g.pc \in from /\ g'.pc \in to /\ DOMAIN g' = Fields
    /\ \A f \in Fields \ ({"pc"} \cup fields) : g'[f] = g[f]

LEMMA PassingIsControlled ==
    ASSUME ControlInv, NEW from, NEW to, NEW fields,
           to \subseteq (CASE Gate = 2 -> Pcs2 [] Gate = 3 -> Pcs3 [] Gate = 4 -> Pcs4),
           from \cap (Ended \cup {"finally"}) = {},
           "plan" \notin fields, "verdict" \notin fields, "down" \notin fields,
           Moves(from, to, fields)
    PROVE  GoesOn
<1>1. g'.plan = g.plan /\ g'.verdict = g.verdict /\ g'.down = g.down
  BY DEF Moves, Fields
<1>2. g.verdict = "NONE" /\ g'.pc \in to
  BY DEF ControlInv, Moves
<1>3. g'.pc \notin {"finally"}
  BY <1>2 DEF Pcs2, Pcs3, Pcs4, ControlInv
<1> QED
  BY <1>1, <1>2, <1>3 DEF GoesOn, ControlInv, Moves

(* The steps that more than one gate takes. *)
LEMMA StartGatePasses ==
    ASSUME ControlInv, StartGate
    PROVE  GoesOn /\ Looks /\ UNCHANGED up /\ Moves({"start"}, {"count", "quiesce"}, {})
           /\ g'.pc = IF Gate = 4 THEN "quiesce" ELSE "count"
<1>1. Looks /\ UNCHANGED up
  BY DEF StartGate, Restart, Local, world, sinkVars, queueVars, daemonVars, Looks
<1>2. g.pc = "start" /\ g' = [g EXCEPT !.pc = First]
  BY DEF StartGate, Local, Goes, At
<1>3. First = IF Gate = 4 THEN "quiesce" ELSE "count"
  BY DEF First, ControlInv
<1>4. Moves({"start"}, {First}, {})
  BY <1>2 DEF Moves, ControlInv
<1>5. GoesOn
  BY <1>3, <1>4, PassingIsControlled DEF ControlInv, Pcs2, Pcs3, Pcs4, Ended
<1> QED
  BY <1>1, <1>3, <1>4, <1>5 DEF Moves

LEMMA QuiescePasses ==
    ASSUME ControlInv, Quiesce
    PROVE  /\ GoesOn /\ Looks /\ UNCHANGED <<up, visible>>
           /\ Moves({"quiesce"}, {CASE Gate = 2 -> "refresh" [] Gate = 3 -> "stop" [] Gate = 4 -> "delete"},
                     {"quiesced", "base"})
<1> DEFINE to == CASE Gate = 2 -> "refresh" [] Gate = 3 -> "stop" [] Gate = 4 -> "delete"
           base == IF Gate = 3 THEN breaker.trips ELSE 0
<1>1. g.pc = "quiesce" /\ Gate \in {2, 3, 4} /\ DOMAIN g = Fields
  BY DEF Quiesce, At, ControlInv
<1>2. ASSUME \/ Local([Goes(to) EXCEPT !.quiesced = TRUE, !.base = base])
             \/ Local([Goes(to) EXCEPT !.base = base])
      PROVE  /\ Looks /\ UNCHANGED <<up, visible>>
             /\ Moves({"quiesce"}, {to}, {"quiesced", "base"})
  <2>1. Looks /\ UNCHANGED <<up, visible>>
    BY <1>2, StillLooks DEF Local
  <2> HIDE DEF to, base
  <2>2. Moves({"quiesce"}, {to}, {"quiesced", "base"})
    BY <1>1, <1>2 DEF Local, Goes, Moves, Fields
  <2> QED
    BY <2>1, <2>2 DEF to
<1>3. ASSUME Asks(Answers("request", None), LAMBDA a : Goes(to))
      PROVE  /\ Looks /\ UNCHANGED <<up, visible>>
             /\ Moves({"quiesce"}, {to}, {"quiesced", "base"})
  <2> PICK a \in Answers("request", None) :
        g' = Goes(to) /\ trouble' = a.trouble
        /\ UNCHANGED <<version, sinkVars, queueVars, daemonVars, up>>
    BY <1>3 DEF Asks
  <2>1. Looks /\ UNCHANGED <<up, visible>>
    BY AnswersTell, AskingLooks
  <2> HIDE DEF to, base
  <2>2. Moves({"quiesce"}, {to}, {"quiesced", "base"})
    BY <1>1 DEF Goes, Moves
  <2> QED
    BY <2>1, <2>2 DEF to
<1>4. /\ Looks /\ UNCHANGED <<up, visible>>
      /\ Moves({"quiesce"}, {to}, {"quiesced", "base"})
  BY <1>2, <1>3 DEF Quiesce
<1>5. {to} \subseteq (CASE Gate = 2 -> Pcs2 [] Gate = 3 -> Pcs3 [] Gate = 4 -> Pcs4)
  BY <1>1 DEF Pcs2, Pcs3, Pcs4
<1> HIDE DEF to
<1>6. GoesOn
  BY <1>4, <1>5, PassingIsControlled DEF Ended
<1> QED
  BY <1>4, <1>6 DEF to

LEMMA ThrowsEnds ==
    ASSUME ControlInv, Throws
    PROVE  GoesOn /\ Looks /\ UNCHANGED <<up, visible>> /\ g' = Fails
           /\ g.pc \in {"count", "mutate", "delete", "seed", "poison", "judge3"}
<1>1. Looks /\ UNCHANGED <<up, visible>> /\ g' = Fails
      /\ g.pc \in {"count", "mutate", "delete", "seed", "poison", "judge3"}
  BY AskingLooks DEF Throws, At
<1> QED
  BY <1>1, EndingIsControlled DEF Fails

LEMMA CountSourcePasses ==
    ASSUME ControlInv, Gate \in {2, 3}, CountSource
    PROVE  GoesOn /\ Looks /\ UNCHANGED <<up, visible>> /\ Moves({"count"}, {"select"}, {"source"})
           /\ g'.source = Source
<1>1. Looks /\ UNCHANGED <<up, visible>>
  BY StillLooks DEF CountSource, Local
<1>2. g.pc = "count" /\ g' = [Goes("select") EXCEPT !.source = Source]
  BY DEF CountSource, Local, At
<1> DEFINE n == Source
<1> HIDE DEF n
<1>3. Moves({"count"}, {"select"}, {"source"}) /\ g'.source = n
  BY <1>2 DEF Goes, Moves, ControlInv, Fields, n
<1>4. GoesOn
  BY <1>3, PassingIsControlled DEF ControlInv, Pcs2, Pcs3, Ended
<1> QED
  BY <1>1, <1>3, <1>4 DEF n

LEMMA RefreshMoves ==
    ASSUME ControlInv, NEW from, NEW to, Refreshes(from, to)
    PROVE  Looks /\ UNCHANGED up /\ Moves({from}, {to}, {})
<1>1. Looks /\ UNCHANGED up
  BY DEF Refreshes, Refresh, world, sinkVars, queueVars, daemonVars, Looks
<1>2. g.pc = from /\ g' = [g EXCEPT !.pc = to]
  BY DEF Refreshes, Goes, At
<1> QED
  BY <1>1, <1>2 DEF Moves, ControlInv

LEMMA CountMoves ==
    ASSUME ControlInv, NEW from, NEW to, Counts(from, to)
    PROVE  /\ Looks /\ UNCHANGED <<up, visible>> /\ Moves({from}, {to}, {"es"})
           /\ g'.es = g.es \/ (up /\ g'.es = Cardinality(visible))
<1> DEFINE n == Cardinality(visible)
<1>1. PICK a \in IndexAnswers("request", n) :
        /\ g.pc = from /\ trouble' = a.trouble
        /\ g' = [Goes(to) EXCEPT !.es = IF a.value = None THEN @ ELSE a.value]
        /\ UNCHANGED <<version, sinkVars, queueVars, daemonVars, up>>
  BY DEF Counts, Asks, At
<1> HIDE DEF n
<1>2. Looks /\ UNCHANGED <<up, visible>>
  BY <1>1, IndexAnswersTell, AskingLooks
<1>3. Moves({from}, {to}, {"es"}) /\ g'.es = (IF a.value = None THEN g.es ELSE a.value)
  BY <1>1 DEF Goes, Moves, ControlInv, Fields
<1>4. g'.es = g.es \/ (up /\ g'.es = n)
  BY <1>3, IndexAnswersTell
<1> QED
  BY <1>2, <1>3, <1>4 DEF n

LEMMA SelectMoves ==
    ASSUME ControlInv, Gate \in {2, 3}, SelectQuarantined
    PROVE  /\ GoesOn /\ Looks /\ UNCHANGED <<up, visible>>
           /\ Gate = 2 => /\ Moves({"select"}, {"mget"}, {"quarantined"})
                          /\ g'.quarantined \subseteq Quarantined
           /\ Gate = 3 => Moves({"select"}, {"probe"}, {"expected"})
<1> DEFINE New(rows) ==
             IF Gate = 2 THEN [Goes("mget") EXCEPT !.quarantined = rows]
             ELSE [Goes("probe") EXCEPT !.expected = Cardinality(g.source) - Cardinality(rows)]
<1>1. PICK a \in Answers("request", Quarantined) :
        /\ g.pc = "select" /\ trouble' = a.trouble
        /\ g' = New(IF a.value = None THEN {} ELSE a.value)
        /\ UNCHANGED <<version, sinkVars, queueVars, daemonVars, up>>
  BY DEF SelectQuarantined, Asks, At
<1>2. Looks /\ UNCHANGED <<up, visible>>
  BY <1>1, AnswersTell, AskingLooks
<1> DEFINE rows == IF a.value = None THEN {} ELSE a.value
<1>3. rows \subseteq Quarantined
  BY AnswersTell
<1> HIDE DEF rows
<1>4. CASE Gate = 2
  <2>1. g' = [Goes("mget") EXCEPT !.quarantined = rows]
    BY <1>1, <1>4 DEF rows
  <2>2. Moves({"select"}, {"mget"}, {"quarantined"}) /\ g'.quarantined = rows
    BY <1>1, <2>1 DEF Goes, Moves, ControlInv, Fields
  <2>3. GoesOn
    BY <1>4, <2>2, PassingIsControlled DEF Pcs2, Ended
  <2> QED
    BY <1>2, <1>3, <1>4, <2>2, <2>3
<1>5. CASE Gate = 3
  <2> DEFINE n == Cardinality(g.source) - Cardinality(rows)
  <2>1. g' = [Goes("probe") EXCEPT !.expected = n]
    BY <1>1, <1>5 DEF rows
  <2> HIDE DEF n
  <2>2. Moves({"select"}, {"probe"}, {"expected"})
    BY <1>1, <2>1 DEF Goes, Moves, ControlInv, Fields
  <2>3. GoesOn
    BY <1>5, <2>2, PassingIsControlled DEF Pcs3, Ended
  <2> QED
    BY <1>2, <1>5, <2>2, <2>3
<1> QED
  BY <1>4, <1>5

----------------------------------------------------------------------------
(* Gate 2 *)

LEMMA RowsAreCounted ==
    ASSUME NEW S \in SUBSET Rows
    PROVE  IsFiniteSet(S) /\ Cardinality(S) \in Nat /\ Cardinality(S) # None
BY RowsAssumption, NoneAssumption, FS_Subset, FS_CardinalityType

(* The gate asks once for the records it knows as quarantined and notes    *)
(* those that are absent together with the number it expects.              *)
LEMMA ExpectationMoves ==
    ASSUME ControlInv, Gate = 2, ComputeExpectation, g.quarantined \in SUBSET Rows
    PROVE  /\ GoesOn /\ Looks /\ UNCHANGED <<up, visible>>
           /\ Moves({"mget"}, {"judge2", "quiesce"}, {"expected", "absent"})
           /\ g'.absent \subseteq g.quarantined
           /\ up /\ "mget" \notin trouble' =>
                g'.expected = Cardinality(g.source) - Cardinality(g'.absent)
<1> DEFINE out == NotIndexed(g.quarantined)
           n == Missing(g.quarantined)
<1>1. n # None /\ n = Cardinality(out) /\ out \subseteq g.quarantined
  <2>1. out \in SUBSET Rows
    BY DEF NotIndexed
  <2> QED
    BY <2>1, RowsAreCounted DEF Missing, NotIndexed
<1>2. PICK a \in IndexAnswers("mget", n) :
        /\ g.pc = "mget" /\ trouble' = a.trouble
        /\ g' = [Goes(IF g.again THEN "judge2" ELSE "quiesce") EXCEPT
                   !.expected = Cardinality(g.source) -
                       IF a.value = None THEN Cardinality(g.quarantined) ELSE a.value,
                   !.absent = out]
        /\ UNCHANGED <<version, sinkVars, queueVars, daemonVars, up>>
  BY DEF ComputeExpectation, Asks, At
<1> DEFINE e == Cardinality(g.source) - IF a.value = None THEN Cardinality(g.quarantined) ELSE a.value
           to == IF g.again THEN "judge2" ELSE "quiesce"
<1> HIDE DEF n, out
<1>3. Looks /\ UNCHANGED <<up, visible>>
  BY <1>2, IndexAnswersTell, AskingLooks
<1>4. up /\ "mget" \notin trouble' => e = Cardinality(g.source) - n
  BY <1>1, <1>2, IndexAnswersTell
<1>5. to \in {"judge2", "quiesce"} /\ g' = [[g EXCEPT !.pc = to] EXCEPT !.expected = e, !.absent = out]
  BY <1>2 DEF Goes
<1> HIDE DEF e, to
<1>6. /\ Moves({"mget"}, {"judge2", "quiesce"}, {"expected", "absent"})
      /\ g'.expected = e /\ g'.absent = out
  BY <1>2, <1>5 DEF Moves, ControlInv, Fields
<1>7. GoesOn
  BY <1>6, PassingIsControlled DEF Pcs2, Ended
<1> QED
  BY <1>1, <1>3, <1>4, <1>6, <1>7

LEMMA ConsumerMoves ==
    ASSUME ControlInv, Gate = 2, AskConsumer
    PROVE  /\ GoesOn /\ Looks /\ UNCHANGED <<up, visible>>
           /\ Moves({"consumer"}, {"select", "judge2"}, {"unique"})
<1>1. /\ Looks /\ UNCHANGED <<up, visible>>
      /\ Moves({"consumer"}, {"select", "judge2"}, {"unique"})
  <2>1. CASE Local(Goes("select")) /\ At("consumer")
    BY <2>1, StillLooks DEF Local, Goes, At, Moves, ControlInv
  <2>2. ASSUME NEW unique, At("consumer"),
               Asks(Answers("request", unique),
                    LAMBDA n : [Goes(IF g.again THEN "select" ELSE "judge2") EXCEPT
                                   !.unique = IF n = None THEN @ ELSE n])
        PROVE  /\ Looks /\ UNCHANGED <<up, visible>>
               /\ Moves({"consumer"}, {"select", "judge2"}, {"unique"})
    <3>1. PICK a \in Answers("request", unique) :
            /\ g.pc = "consumer" /\ trouble' = a.trouble
            /\ g' = [Goes(IF g.again THEN "select" ELSE "judge2") EXCEPT
                                   !.unique = IF a.value = None THEN @ ELSE a.value]
            /\ UNCHANGED <<version, sinkVars, queueVars, daemonVars, up>>
      BY <2>2 DEF Asks, At
    <3>2. Looks /\ UNCHANGED <<up, visible>>
      BY <3>1, AnswersTell, AskingLooks
    <3>3. Moves({"consumer"}, {"select", "judge2"}, {"unique"})
      BY <3>1 DEF Goes, Moves, ControlInv, Fields
    <3> QED
      BY <3>2, <3>3
  <2> QED
    BY <2>1, <2>2 DEF AskConsumer
<1>2. GoesOn
  BY <1>1, PassingIsControlled DEF Pcs2, Ended
<1> QED
  BY <1>1, <1>2

LEMMA Judge2Moves ==
    ASSUME ControlInv, Gate = 2, Judge2
    PROVE  /\ GoesOn /\ UNCHANGED world /\ g.pc = "judge2"
           /\ \/ Moves({"judge2"}, {"consumer", "refresh"}, {"again"})
              \/ /\ \A f \in Fields \ {"pc", "verdict"} : g'[f] = g[f]
                 /\ g'.pc \in Ended \cup {"finally"}
                 /\ g'.verdict = "PASS" => g.es # None /\ g.es = g.expected
<1>1. CASE Local(Ends(IF g.es # None /\ Passed2 THEN "PASS" ELSE "FAIL"))
  <2> DEFINE v == IF g.es # None /\ Passed2 THEN "PASS" ELSE "FAIL"
  <2>1. g' = Ends(v) /\ UNCHANGED world /\ g.pc = "judge2"
    BY <1>1 DEF Local, Judge2, At
  <2>2. v = "PASS" => g.es # None /\ g.es = g.expected
    BY DEF Passed2, EsAtParity
  <2> HIDE DEF v
  <2> QED
    BY <2>1, <2>2, EndingIsControlled DEF Ended
<1>2. CASE Local([Goes(IF EsAtParity THEN "consumer" ELSE "refresh") EXCEPT !.again = TRUE])
  <2>1. /\ g' = [Goes(IF EsAtParity THEN "consumer" ELSE "refresh") EXCEPT !.again = TRUE]
        /\ UNCHANGED world /\ g.pc = "judge2"
    BY <1>2 DEF Local, Judge2, At
  <2>2. Moves({"judge2"}, {"consumer", "refresh"}, {"again"})
    BY <2>1 DEF Goes, Moves, ControlInv, Fields
  <2>3. GoesOn
    BY <2>2, PassingIsControlled DEF Pcs2, Ended
  <2> QED
    BY <2>1, <2>2, <2>3
<1> QED
  BY <1>1, <1>2 DEF Judge2

(* What gate 2 has read is what was, and is still enough: the count is no  *)
(* more than what is indexed now, the rows it has counted are still in the *)
(* table, and the records it has found quarantined and absent are still    *)
(* accounted for.                                                          *)
CountInv == g.es \in Nat \cup {None} /\ (g.es # None => up /\ g.es <= Cardinality(Documents))

SourceInv == g.source \subseteq Source

AbsentInv == \A r \in g.quarantined \cup g.absent : r \in Source /\ Accounted(r)

Expecting == {"quiesce", "refresh", "read", "consumer", "judge2"}

Expectation == Cardinality(g.source) - Cardinality(g.absent)

ExpectedInv == g.pc \in Expecting /\ up /\ "mget" \notin trouble => g.expected = Expectation

Verdict2Inv == g.verdict = "PASS" /\ "mget" \notin trouble => g.es # None /\ g.es = Expectation

Inv2 == CountInv /\ SourceInv /\ AbsentInv /\ ExpectedInv /\ Verdict2Inv

LEMMA DocumentsGrow ==
    ASSUME WorldInv, WorldInv', Gentle
    PROVE  Documents \subseteq Documents' /\ Cardinality(Documents) <= Cardinality(Documents')
           /\ Cardinality(Documents) \in Nat /\ Cardinality(Documents') \in Nat
<1>1. Documents \subseteq Documents'
  BY DEF Documents, Gentle
<1>2. Documents' \in SUBSET Rows /\ Documents \in SUBSET Rows
  BY DEF Documents
<1>3. IsFiniteSet(Documents')
  BY <1>2, RowsAreCounted
<1>4. Cardinality(Documents) <= Cardinality(Documents')
  BY <1>1, <1>3, FS_Subset
<1> QED
  BY <1>1, <1>2, <1>4, RowsAreCounted

LEMMA WorldKeepsInv2 ==
    ASSUME WorldInv, Gentle, Inv2, UNCHANGED <<up, g>>, WorldInv'
    PROVE  Inv2'
<1>1. CountInv'
  <2>1. g.es # None => g.es \in Nat
    BY DEF Inv2, CountInv
  <2> QED
    BY <2>1, DocumentsGrow DEF Inv2, CountInv
<1>2. SourceInv'
  BY DEF Inv2, SourceInv, Gentle
<1>3. AbsentInv'
  BY DEF Inv2, AbsentInv, Gentle, Source
<1>4. ExpectedInv' /\ Verdict2Inv'
  BY DEF Inv2, ExpectedInv, Verdict2Inv, Expectation, Gentle
<1> QED
  BY <1>1, <1>2, <1>3, <1>4 DEF Inv2

(* The numbers agree: the rows that are indexed and those that were        *)
(* quarantined and absent are as many as the rows the gate counted, but    *)
(* for those that are both by now.                                         *)
LEMMA ParityAccounts ==
    ASSUME WorldInv, Inv2, g.verdict = "PASS", "mget" \notin trouble
    PROVE  Cardinality(Lost) <= Cardinality(Source \ g.source) + Cardinality(g.absent \cap Documents)
<1> DEFINE D == Documents
           M == g.absent
           S == Source
           C == g.source
           L == Lost
<1>1. /\ D \subseteq S /\ M \subseteq S /\ C \subseteq S /\ L \subseteq S
      /\ L \cap (D \cup M) = {}
  <2>1. \A r \in L : r \in Source /\ ~Accounted(r)
    BY DEF Lost
  <2>2. \A r \in D \cup M : Accounted(r)
    BY DEF Inv2, AbsentInv, Documents, Accounted
  <2> QED
    BY <2>1, <2>2 DEF WorldInv, Inv2, SourceInv, AbsentInv
<1>2. g.es = Cardinality(C) - Cardinality(M) /\ g.es <= Cardinality(D) /\ g.es \in Nat
  BY DEF Inv2, Verdict2Inv, CountInv, Expectation
<1>3. S \in SUBSET Rows
  BY DEF Source
<1> HIDE DEF D, M, S, C, L
<1>4. \A X \in SUBSET S : IsFiniteSet(X) /\ Cardinality(X) \in Nat
  BY <1>3, RowsAreCounted
<1>5. /\ Cardinality(D \cup M) = Cardinality(D) + Cardinality(M) - Cardinality(D \cap M)
      /\ D \cup M \in SUBSET S /\ D \cap M \in SUBSET S
  BY <1>1, <1>4, FS_Union
<1>6. Cardinality(L) <= Cardinality(S) - Cardinality(D \cup M)
  <2>1. Cardinality(L \cup (D \cup M)) =
            Cardinality(L) + Cardinality(D \cup M) - Cardinality(L \cap (D \cup M))
    BY <1>1, <1>4, <1>5, FS_Union
  <2>2. Cardinality(L \cap (D \cup M)) = 0
    BY <1>1, FS_EmptySet
  <2>3. L \cup (D \cup M) \in SUBSET S
    BY <1>1
  <2>4. Cardinality(L \cup (D \cup M)) <= Cardinality(S)
    BY <1>4, <2>3, FS_Subset
  <2> QED
    BY <1>1, <1>4, <1>5, <2>1, <2>2, <2>3, <2>4
<1>7. Cardinality(S \ C) = Cardinality(S) - Cardinality(C) /\ S \ C \in SUBSET S
  <2>1. S \cap C = C
    BY <1>1
  <2> QED
    BY <1>4, <2>1, FS_Difference
<1>8. /\ Cardinality(L) \in Nat /\ Cardinality(S) \in Nat /\ Cardinality(D) \in Nat
      /\ Cardinality(M) \in Nat /\ Cardinality(C) \in Nat /\ Cardinality(D \cap M) \in Nat
      /\ Cardinality(D \cup M) \in Nat /\ Cardinality(S \ C) \in Nat
  BY <1>1, <1>4, <1>5, <1>7
<1>9. Cardinality(L) <= Cardinality(S \ C) + Cardinality(M \cap D)
  <2>1. M \cap D = D \cap M
    OBVIOUS
  <2>2. Cardinality(L) <= Cardinality(S \ C) + Cardinality(D \cap M)
    BY <1>2, <1>5, <1>6, <1>7, <1>8
  <2> QED
    BY <2>1, <2>2
<1> QED
  BY <1>9 DEF D, M, S, C, L

LEMMA LookingKeepsInv2 ==
    ASSUME Looks, UNCHANGED up, Inv2
    PROVE  /\ g'.es = g.es => CountInv'
           /\ g'.source = g.source => SourceInv'
           /\ g'.quarantined = g.quarantined /\ g'.absent = g.absent => AbsentInv'
           /\ (/\ g'.expected = g.expected /\ g'.source = g.source /\ g'.absent = g.absent
               /\ g'.pc \in Expecting => g.pc \in Expecting)
                => ExpectedInv'
           /\ (/\ g'.es = g.es /\ g'.source = g.source /\ g'.absent = g.absent
               /\ g'.verdict = "PASS" => g.verdict = "PASS")
                => Verdict2Inv'
<1>1. /\ Documents' = Documents /\ Source' = Source /\ trouble \subseteq trouble'
      /\ \A r : Accounted(r)' <=> Accounted(r)
  BY DEF Looks, Documents, Source, Accounted
<1>2. g'.es = g.es => CountInv'
  BY <1>1 DEF Inv2, CountInv
<1>3. g'.source = g.source => SourceInv'
  BY <1>1 DEF Inv2, SourceInv
<1>4. g'.quarantined = g.quarantined /\ g'.absent = g.absent => AbsentInv'
  BY <1>1 DEF Inv2, AbsentInv
<1>5. (/\ g'.expected = g.expected /\ g'.source = g.source /\ g'.absent = g.absent
       /\ g'.pc \in Expecting => g.pc \in Expecting)
        => ExpectedInv'
  BY <1>1 DEF Inv2, ExpectedInv, Expectation
<1>6. (/\ g'.es = g.es /\ g'.source = g.source /\ g'.absent = g.absent
       /\ g'.verdict = "PASS" => g.verdict = "PASS")
        => Verdict2Inv'
  BY <1>1 DEF Inv2, Verdict2Inv, Expectation
<1> QED
  BY <1>2, <1>3, <1>4, <1>5, <1>6

(* Before its verdict gate 2 has only to keep what it has read. *)
LEMMA ReadingKeepsInv2 ==
    ASSUME ControlInv, GoesOn, g.pc \notin Ended \cup {"finally"}, g'.verdict = g.verdict
    PROVE  Verdict2Inv'
BY DEF ControlInv, Verdict2Inv

(* A step of gate 2 that changes only what no part of the invariant reads. *)
LEMMA MovingKeepsInv2 ==
    ASSUME Looks, UNCHANGED up, Inv2, NEW from, NEW to, NEW fields, Moves(from, to, fields),
           fields \cap {"es", "source", "quarantined", "absent", "expected", "verdict"} = {},
           to \cap Expecting # {} => from \subseteq Expecting
    PROVE  Inv2'
<1>1. /\ g'.es = g.es /\ g'.source = g.source /\ g'.quarantined = g.quarantined
      /\ g'.absent = g.absent /\ g'.expected = g.expected /\ g'.verdict = g.verdict
      /\ g.pc \in from /\ g'.pc \in to
  BY DEF Moves, Fields
<1> QED
  BY <1>1, LookingKeepsInv2 DEF Inv2

LEMMA FreshHasInv2 ==
    ASSUME NEW plan, IsPlan(plan), g' = Fresh(plan)
    PROVE  Inv2'
<1>1. /\ g'.es = None /\ g'.pc = "start" /\ g'.quarantined = {} /\ g'.absent = {}
      /\ g'.source = {} /\ g'.verdict = "NONE"
  BY FreshIsControlled
<1> QED
  BY <1>1 DEF Inv2, CountInv, SourceInv, AbsentInv, ExpectedInv, Verdict2Inv, Expecting

LEMMA Gate2Steps ==
    ASSUME ControlInv, WorldInv, QueueInv, Gate = 2, Inv2, Suite
    PROVE  /\ ControlInv' /\ WorldInv' /\ QueueInv' /\ UNCHANGED <<version, up>> /\ Inv2'
           /\ trouble \subseteq trouble' /\ (Gate' = Gate \/ NextGate)
<1> DEFINE Goal == GoesOn /\ Looks /\ UNCHANGED up /\ Inv2'
<1>1. ASSUME StartGate, g'.pc = "count" PROVE Goal
  <2>1. Moves({"start"}, {"count"}, {}) /\ GoesOn /\ Looks /\ UNCHANGED up
    BY <1>1, StartGatePasses DEF Moves
  <2> QED
    BY <2>1, MovingKeepsInv2 DEF Expecting
<1>2. ASSUME Quiesce PROVE Goal
  <2>1. Moves({"quiesce"}, {"refresh"}, {"quiesced", "base"}) /\ GoesOn /\ Looks /\ UNCHANGED up
    BY <1>2, QuiescePasses
  <2> QED
    BY <2>1, MovingKeepsInv2 DEF Expecting
<1>3. ASSUME Throws PROVE Goal
  <2>1. GoesOn /\ Looks /\ UNCHANGED <<up, visible>> /\ g' = Ends("FAIL")
    BY <1>3, ThrowsEnds DEF Fails
  <2>2. /\ g'.verdict = "FAIL" /\ g'.pc \in {"finally", "verdict"}
        /\ \A f \in Fields \ {"pc", "verdict"} : g'[f] = g[f]
    BY <2>1, EndingIsControlled
  <2>3. /\ g'.es = g.es /\ g'.source = g.source /\ g'.quarantined = g.quarantined
        /\ g'.absent = g.absent /\ g'.expected = g.expected
    BY <2>2 DEF Fields
  <2> QED
    BY <2>1, <2>2, <2>3, LookingKeepsInv2 DEF Inv2, Expecting
<1>4. ASSUME CountSource PROVE Goal
  <2>1. /\ GoesOn /\ Looks /\ UNCHANGED <<up, visible>> /\ Moves({"count"}, {"select"}, {"source"})
        /\ g'.source = Source
    BY <1>4, CountSourcePasses
  <2>2. /\ g'.es = g.es /\ g'.quarantined = g.quarantined /\ g'.absent = g.absent
        /\ g.pc = "count" /\ g'.pc = "select" /\ g'.verdict = g.verdict
    BY <2>1 DEF Moves, Fields
  <2>3. SourceInv' /\ ExpectedInv'
    BY <2>1, <2>2 DEF SourceInv, Looks, Source, ExpectedInv, Expecting
  <2>4. Verdict2Inv'
    BY <2>1, <2>2, ReadingKeepsInv2 DEF Ended
  <2> QED
    BY <2>1, <2>2, <2>3, <2>4, LookingKeepsInv2 DEF Inv2
<1>5. ASSUME SelectQuarantined PROVE Goal
  <2>1. /\ GoesOn /\ Looks /\ UNCHANGED <<up, visible>> /\ Moves({"select"}, {"mget"}, {"quarantined"})
        /\ g'.quarantined \subseteq Quarantined
    BY <1>5, SelectMoves
  <2>2. /\ g'.es = g.es /\ g'.source = g.source /\ g'.absent = g.absent /\ g'.pc = "mget"
        /\ g.pc = "select" /\ g'.verdict = g.verdict
    BY <2>1 DEF Moves, Fields
  <2>3. AbsentInv'
    <3>1. \A r \in Quarantined : r \in Source /\ Accounted(r)
      BY DEF Quarantined, WorldInv, Accounted
    <3>2. Source' = Source /\ \A r : Accounted(r)' <=> Accounted(r)
      BY <2>1 DEF Looks, Source, Accounted
    <3> QED
      BY <2>1, <2>2, <3>1, <3>2 DEF Inv2, AbsentInv
  <2>4. ExpectedInv'
    BY <2>2 DEF ExpectedInv, Expecting
  <2> QED
    BY <2>1, <2>2, <2>3, <2>4, LookingKeepsInv2 DEF Inv2
<1>6. ASSUME ComputeExpectation PROVE Goal
  <2>1. g.quarantined \in SUBSET Rows
    BY DEF Inv2, AbsentInv, Source
  <2>2. /\ GoesOn /\ Looks /\ UNCHANGED <<up, visible>>
        /\ Moves({"mget"}, {"judge2", "quiesce"}, {"expected", "absent"})
        /\ g'.absent \subseteq g.quarantined
        /\ up /\ "mget" \notin trouble' =>
             g'.expected = Cardinality(g.source) - Cardinality(g'.absent)
    BY <1>6, <2>1, ExpectationMoves
  <2>3. /\ g'.es = g.es /\ g'.source = g.source /\ g'.quarantined = g.quarantined
        /\ g.pc = "mget" /\ g'.verdict = g.verdict
    BY <2>2 DEF Moves, Fields
  <2>4. ExpectedInv'
    BY <2>2, <2>3 DEF ExpectedInv, Expectation
  <2>5. AbsentInv'
    BY <2>2, <2>3 DEF Inv2, AbsentInv, Looks, Source, Accounted
  <2>6. Verdict2Inv'
    BY <2>2, <2>3, ReadingKeepsInv2 DEF Ended
  <2> QED
    BY <2>2, <2>3, <2>4, <2>5, <2>6, LookingKeepsInv2 DEF Inv2
<1>7. ASSUME AskConsumer PROVE Goal
  <2>1. /\ GoesOn /\ Looks /\ UNCHANGED <<up, visible>>
        /\ Moves({"consumer"}, {"select", "judge2"}, {"unique"})
    BY <1>7, ConsumerMoves
  <2> QED
    BY <2>1, MovingKeepsInv2 DEF Expecting
<1>8. ASSUME Judge2 PROVE Goal
  <2>1. /\ GoesOn /\ UNCHANGED world /\ g.pc = "judge2"
        /\ \/ Moves({"judge2"}, {"consumer", "refresh"}, {"again"})
           \/ /\ \A f \in Fields \ {"pc", "verdict"} : g'[f] = g[f]
              /\ g'.pc \in Ended \cup {"finally"}
              /\ g'.verdict = "PASS" => g.es # None /\ g.es = g.expected
    BY <1>8, Judge2Moves
  <2>2. Looks /\ UNCHANGED <<up, trouble>>
    BY <2>1, StillLooks
  <2>3. CASE Moves({"judge2"}, {"consumer", "refresh"}, {"again"})
    <3>1. Inv2'
      BY <2>2, <2>3, MovingKeepsInv2 DEF Expecting
    <3> QED
      BY <2>1, <2>2, <3>1
  <2>4. CASE /\ \A f \in Fields \ {"pc", "verdict"} : g'[f] = g[f]
             /\ g'.pc \in Ended \cup {"finally"}
             /\ g'.verdict = "PASS" => g.es # None /\ g.es = g.expected
    <3>1. g'.es = g.es /\ g'.source = g.source /\ g'.quarantined = g.quarantined
          /\ g'.absent = g.absent /\ g'.expected = g.expected
      BY <2>4 DEF Fields
    <3>2. g'.verdict = "PASS" /\ "mget" \notin trouble => g.es # None /\ g.es = Expectation
      <4>1. g.es # None => up
        BY DEF Inv2, CountInv
      <4> QED
        BY <2>1, <2>4, <4>1 DEF Inv2, ExpectedInv, Expecting
    <3>3. Verdict2Inv'
      BY <2>2, <3>1, <3>2 DEF Verdict2Inv, Expectation
    <3> QED
      BY <2>1, <2>2, <2>4, <3>1, <3>3, LookingKeepsInv2 DEF Inv2, Expecting, Ended
  <2> QED
    BY <2>1, <2>3, <2>4
<1>9. ASSUME Refreshes("refresh", "read") PROVE Goal
  <2>1. Looks /\ UNCHANGED up /\ Moves({"refresh"}, {"read"}, {})
    BY <1>9, RefreshMoves
  <2>2. GoesOn
    BY <2>1, PassingIsControlled DEF Pcs2, Ended
  <2> QED
    BY <2>1, <2>2, MovingKeepsInv2 DEF Expecting
<1>10. ASSUME Counts("read", "consumer") PROVE Goal
  <2>1. /\ Looks /\ UNCHANGED <<up, visible>> /\ Moves({"read"}, {"consumer"}, {"es"})
        /\ g'.es = g.es \/ (up /\ g'.es = Cardinality(visible))
    BY <1>10, CountMoves
  <2>2. GoesOn
    BY <2>1, PassingIsControlled DEF Pcs2, Ended
  <2>3. /\ g'.source = g.source /\ g'.quarantined = g.quarantined /\ g'.absent = g.absent
        /\ g'.expected = g.expected /\ g.pc = "read" /\ g'.pc = "consumer" /\ g'.verdict = g.verdict
    BY <2>1 DEF Moves, Fields
  <2>4. CountInv'
    <3>1. CASE g'.es = g.es
      BY <2>1, <3>1, LookingKeepsInv2
    <3>2. CASE up /\ g'.es = Cardinality(visible)
      <4>1. visible \subseteq Documents /\ Documents \in SUBSET Rows /\ Documents' = Documents
        BY <2>1 DEF WorldInv, Documents, Looks
      <4>2. Cardinality(visible) \in Nat /\ Cardinality(visible) <= Cardinality(Documents)
        BY <4>1, RowsAreCounted, FS_Subset
      <4> QED
        BY <2>1, <3>2, <4>1, <4>2 DEF CountInv
    <3> QED
      BY <2>1, <3>1, <3>2
  <2>5. Verdict2Inv'
    BY <2>2, <2>3, ReadingKeepsInv2 DEF Ended
  <2> QED
    BY <2>1, <2>2, <2>3, <2>4, <2>5, LookingKeepsInv2 DEF Inv2, Expecting
<1>11. CASE NextGate
  <2>1. /\ ControlInv' /\ UNCHANGED world
        /\ \/ g' = Fresh(g'.plan)
           \/ g.pc = "verdict" /\ g'.pc = "done" /\ \A f \in Fields \ {"pc"} : g'[f] = g[f]
    BY <1>11, NextGateIsControlled
  <2>2. Looks /\ UNCHANGED <<version, up, trouble>>
    BY <2>1, StillLooks
  <2>3. CASE g' = Fresh(g'.plan)
    BY <1>11, <2>1, <2>2, <2>3, FreshHasInv2, LooksIsGentle DEF ControlInv
  <2>4. CASE g.pc = "verdict" /\ g'.pc = "done" /\ \A f \in Fields \ {"pc"} : g'[f] = g[f]
    <3>1. g'.es = g.es /\ g'.source = g.source /\ g'.quarantined = g.quarantined
          /\ g'.absent = g.absent /\ g'.expected = g.expected /\ g'.verdict = g.verdict
      BY <2>4 DEF Fields
    <3>2. Inv2'
      BY <2>2, <2>4, <3>1, LookingKeepsInv2 DEF Inv2, Expecting
    <3> QED
      BY <1>11, <2>1, <2>2, <3>2, LooksIsGentle
  <2> QED
    BY <2>1, <2>3, <2>4
<1>12. CASE Goal
  BY <1>12, GoingOnIsControlled, LooksIsGentle DEF Looks, GoesOn, Gate
<1>13. ASSUME StartGate PROVE g'.pc = "count"
  BY <1>13, StartGatePasses
<1>14. ~Gate3 /\ ~Gate4
  BY DEF Gate3, Gate4
<1> HIDE DEF Goal
<1> QED
  BY <1>1, <1>2, <1>3, <1>4, <1>5, <1>6, <1>7, <1>8, <1>9, <1>10, <1>11, <1>12, <1>13, <1>14,
     StepsOfGate DEF Gate2

----------------------------------------------------------------------------
(* Gate 3 *)

(* Elasticsearch runs, or the gate knows that it must start it again.      *)
Owing == {"mutate", "watch", "restore", "finally"}

UpInv == "start" \notin trouble => up \/ (Gate = 3 /\ g.down /\ g.pc \in Owing)

(* The rows it has changed are landed when the gate has found as many      *)
(* landed as it has changed: a row that is landed stays so, and a count    *)
(* that was answered after the last change tells that the documents were   *)
(* read after it too, unless _mget failed.                                 *)
AllLanded == \A r \in Rows : reached[r] >= g.want[r]

LandedInv ==
    /\ g.pc \in {"docs", "judge3"} /\ g.es # None => up
    /\ g.pc = "judge3" /\ g.es # None /\ "mget" \notin trouble /\ Landed => AllLanded

Verdict3Inv == g.verdict = "PASS" /\ "mget" \notin trouble => AllLanded

Inv3 == g.want \in [Rows -> Nat] /\ LandedInv /\ Verdict3Inv

LEMMA LandedStays ==
    ASSUME WorldInv, WorldInv', Gentle, g.want \in [Rows -> Nat], g'.want = g.want, AllLanded
    PROVE  AllLanded'
BY DEF WorldInv, Gentle, AllLanded

LEMMA WorldKeepsInv3 ==
    ASSUME WorldInv, Gentle, Inv3, UpInv, UNCHANGED <<up, g>>, WorldInv'
    PROVE  Inv3' /\ UpInv'
<1>1. "mget" \in trouble => "mget" \in trouble'
  BY DEF Gentle
<1>2. AllLanded => AllLanded'
  BY LandedStays DEF Inv3
<1>3. Landed' <=> Landed
  BY DEF Landed, Wanted
<1>4. UpInv'
  BY DEF UpInv, Gentle, Gate
<1> QED
  BY <1>1, <1>2, <1>3, <1>4 DEF Inv3, LandedInv, Verdict3Inv

(* Looking keeps the invariant outside of the judgement. *)
LEMMA LookingKeepsInv3 ==
    ASSUME Looks, Inv3, g'.want = g.want, g'.verdict = "PASS" => g.verdict = "PASS",
           g'.pc \notin {"docs", "judge3"}
    PROVE  Inv3'
<1>1. AllLanded' <=> AllLanded
  BY DEF AllLanded, Looks
<1> QED
  BY <1>1 DEF Inv3, LandedInv, Verdict3Inv, Looks

LEMMA MovingKeepsInv3 ==
    ASSUME ControlInv, Gate = 3, Looks, UNCHANGED up, Inv3, UpInv, NEW from, NEW to, NEW fields,
           Moves(from, to, fields),
           fields \cap {"plan", "want", "verdict", "down"} = {},
           to \subseteq Pcs3 \ {"docs", "judge3"},
           from \cap (Ended \cup {"finally"}) = {},
           from \cap Owing # {} => to \subseteq Owing
    PROVE  GoesOn /\ Inv3' /\ UpInv'
<1>1. /\ g'.want = g.want /\ g'.verdict = g.verdict /\ g'.plan = g.plan /\ g'.down = g.down
      /\ g.pc \in from /\ g'.pc \in to
  BY DEF Moves, Fields
<1>2. Inv3'
  BY <1>1, LookingKeepsInv3
<1>3. UpInv'
  BY <1>1 DEF UpInv, Looks, Gate
<1>4. GoesOn
  BY <1>1, PassingIsControlled DEF ControlInv
<1> QED
  BY <1>2, <1>3, <1>4

LEMMA EndingKeepsInv3 ==
    ASSUME ControlInv, Gate = 3, Looks, UNCHANGED up, Inv3, UpInv, NEW verdict, g' = Ends(verdict),
           verdict = "PASS" => AllLanded \/ "mget" \in trouble
    PROVE  GoesOn /\ Inv3' /\ UpInv'
<1>1. /\ GoesOn /\ g'.verdict = verdict /\ g'.pc = (IF g.down THEN "finally" ELSE "verdict")
      /\ g'.want = g.want /\ g'.down = g.down /\ g'.plan = g.plan
  BY EndingIsControlled DEF Fields
<1>2. AllLanded => AllLanded'
  BY <1>1 DEF AllLanded, Looks
<1>3. Inv3'
  BY <1>1, <1>2 DEF Inv3, LandedInv, Verdict3Inv, Looks
<1>4. UpInv'
  BY <1>1 DEF UpInv, Owing, Gate, Looks
<1> QED
  BY <1>1, <1>3, <1>4

(* A change of rows that are in the table and that both sinks take. *)
LEMMA MutatingIsGentle ==
    ASSUME WorldInv, QueueInv, NEW new, Mutate(new)
    PROVE  /\ WorldInv' /\ QueueInv' /\ UNCHANGED <<up, trouble>>
           /\ \A r \in Rows : version[r] = 0 => version'[r] = 0
<1>1. /\ UNCHANGED <<index, reached, visible, flight, entry, replays, up, trouble>>
      /\ todo' = todo \cup Candidates
      /\ version' = [r \in Rows |-> IF r \in Candidates THEN version[r] + 1 ELSE version[r]]
  BY DEF Mutate, sinkVars, queueVars
<1>2. Candidates \subseteq Source
  BY DEF Candidates
<1>3. /\ version' \in [Rows -> Nat] /\ \A r \in Rows : version[r] <= version'[r]
      /\ \A r \in Rows : version[r] = 0 => version'[r] = 0
  BY <1>1, <1>2 DEF WorldInv, Source
<1>4. Source \subseteq Source' /\ Documents' = Documents
  BY <1>1, <1>3 DEF WorldInv, Source, Documents
<1>5. WorldInv'
  BY <1>1, <1>2, <1>3, <1>4 DEF WorldInv
<1>6. QueueInv'
  BY <1>1 DEF QueueInv
<1> QED
  BY <1>1, <1>3, <1>5, <1>6

(* What a step of gate 3 keeps. *)
Kept3 ==
    /\ GoesOn /\ Inv3' /\ UpInv' /\ WorldInv' /\ QueueInv' /\ trouble \subseteq trouble'
    /\ \A r \in Rows : version[r] = 0 => version'[r] = 0

LEMMA LookingKeeps3 ==
    ASSUME WorldInv, QueueInv, Looks, GoesOn, Inv3', UpInv'
    PROVE  Kept3
BY LooksIsGentle DEF Kept3, Looks

LEMMA MutateKeeps3 ==
    ASSUME ControlInv, WorldInv, QueueInv, Gate = 3, Inv3, UpInv, NEW new, NEW to, NEW fields,
           Mutate(new),
           to \in {"watch", "recover"}, g.pc \in Pcs3, g.pc \in Owing => to \in Owing,
           fields \cap {"plan", "want", "verdict", "down"} = {},
           DOMAIN new = Fields, new.pc = to, \A f \in Fields \ ({"pc"} \cup fields) : new[f] = g[f]
    PROVE  Kept3
<1> DEFINE want == [r \in Rows |-> IF r \in Candidates THEN version'[r] ELSE g.want[r]]
<1>1. /\ WorldInv' /\ QueueInv' /\ UNCHANGED <<up, trouble>>
      /\ \A r \in Rows : version[r] = 0 => version'[r] = 0
  BY MutatingIsGentle
<1>2. new.want = g.want
  BY DEF Fields
<1>3. g' = [new EXCEPT !.want = want]
  BY <1>2 DEF Mutate
<1>4. want \in [Rows -> Nat]
  BY <1>1 DEF WorldInv, Inv3
<1> HIDE DEF want
<1>5. /\ DOMAIN g' = Fields /\ g'.want = want /\ g'.pc = to
      /\ g'.plan = g.plan /\ g'.verdict = g.verdict /\ g'.down = g.down
  BY <1>3 DEF Fields
<1>6. g.verdict = "NONE"
  BY DEF ControlInv, Pcs3, Ended
<1>7. GoesOn
  BY <1>5, <1>6 DEF GoesOn, Pcs3
<1>8. Inv3'
  BY <1>4, <1>5, <1>6 DEF Inv3, LandedInv, Verdict3Inv
<1>9. UpInv'
  BY <1>1, <1>5 DEF UpInv, Gate
<1> QED
  BY <1>1, <1>7, <1>8, <1>9 DEF Kept3

LEMMA ProbeKeeps ==
    ASSUME ControlInv, WorldInv, QueueInv, Gate = 3, Inv3, UpInv, Probe
    PROVE  Kept3
<1>1. CASE Local([Goes("quiesce") EXCEPT !.base = breaker.trips])
  <2> DEFINE n == breaker.trips
  <2>1. g.pc = "probe" /\ g' = [[g EXCEPT !.pc = "quiesce"] EXCEPT !.base = n] /\ UNCHANGED world
    BY <1>1 DEF Probe, Local, At, Goes
  <2>2. Looks /\ UNCHANGED up
    BY <2>1, StillLooks
  <2> HIDE DEF n
  <2>3. Moves({"probe"}, {"quiesce"}, {"base"})
    BY <2>1 DEF Moves, ControlInv, Fields
  <2> QED
    BY <2>2, <2>3, MovingKeepsInv3, LookingKeeps3 DEF Pcs3, Ended, Owing
<1>2. CASE Asks({[value |-> None, trouble |-> trouble \cup {"request"}]}, LAMBDA a : Fails)
  <2>1. Looks /\ UNCHANGED up /\ g' = Ends("FAIL")
    BY <1>2, AskingLooks DEF Asks, Fails
  <2> QED
    BY <2>1, EndingKeepsInv3, LookingKeeps3
<1> QED
  BY <1>1, <1>2 DEF Probe

LEMMA StopKeeps ==
    ASSUME ControlInv, WorldInv, QueueInv, Gate = 3, Inv3, UpInv, StopReceiver
    PROVE  Kept3
<1>1. Looks /\ g.pc = "stop" /\ g' = [Goes("mutate") EXCEPT !.down = TRUE]
  BY DEF StopReceiver, Looks, At, sinkVars, queueVars
<1>2. /\ DOMAIN g' = Fields /\ g'.pc = "mutate" /\ g'.down
      /\ g'.plan = g.plan /\ g'.verdict = g.verdict /\ g'.want = g.want
  BY <1>1 DEF Goes, ControlInv, Fields
<1>3. GoesOn
  BY <1>1, <1>2 DEF GoesOn, Pcs3, ControlInv, Ended
<1>4. UpInv'
  BY <1>2 DEF UpInv, Owing, Gate
<1> QED
  BY <1>1, <1>2, <1>3, <1>4, LookingKeepsInv3, LookingKeeps3

LEMMA MutateInOutageKeeps ==
    ASSUME ControlInv, WorldInv, QueueInv, Gate = 3, Inv3, UpInv, MutateInOutage
    PROVE  Kept3
<1>1. CASE Local(Fails)
  <2>1. Looks /\ UNCHANGED up /\ g' = Ends("FAIL")
    BY <1>1, StillLooks DEF Local, Fails
  <2> QED
    BY <2>1, EndingKeepsInv3, LookingKeeps3
<1>2. CASE Mutate(Goes("watch"))
  <2> DEFINE new == Goes("watch")
  <2>1. g.pc = "mutate"
    BY DEF MutateInOutage, At
  <2>2. /\ DOMAIN new = Fields /\ new.pc = "watch"
        /\ \A f \in Fields \ ({"pc"} \cup {}) : new[f] = g[f]
    BY DEF Goes, ControlInv
  <2>3. Mutate(new)
    BY <1>2
  <2> HIDE DEF new
  <2> QED
    BY <2>1, <2>2, <2>3, MutateKeeps3 DEF Pcs3, Owing
<1> QED
  BY <1>1, <1>2 DEF MutateInOutage

LEMMA WatchKeeps ==
    ASSUME ControlInv, WorldInv, QueueInv, Gate = 3, Inv3, UpInv, Watch
    PROVE  Kept3
<1>1. /\ g.pc = "watch" /\ UNCHANGED world
      /\ g' = Goes("restore") \/ g' = [Goes("restore") EXCEPT !.evidence = TRUE]
  BY DEF Watch, Local, At
<1>2. Looks /\ UNCHANGED up
  BY <1>1, StillLooks
<1>3. Moves({"watch"}, {"restore"}, {"evidence"})
  BY <1>1 DEF Goes, Moves, ControlInv, Fields
<1> QED
  BY <1>2, <1>3, MovingKeepsInv3, LookingKeeps3 DEF Pcs3, Ended, Owing

(* Started again, unless the start itself failed. *)
LEMMA StartKeeps ==
    ASSUME ControlInv, WorldInv, QueueInv, Gate = 3, Inv3, UpInv,
           \/ StartReceiver("restore", [Goes("recover") EXCEPT !.down = FALSE])
           \/ StartReceiver("finally", Goes("verdict"))
    PROVE  Kept3
<1>1. Looks /\ (up' \/ "start" \in trouble')
  BY DEF StartReceiver, Looks, sinkVars, queueVars, daemonVars
<1>2. UpInv'
  BY <1>1 DEF UpInv
<1>3. /\ GoesOn /\ g'.want = g.want /\ g'.verdict = g.verdict /\ g'.pc \notin {"docs", "judge3"}
  <2>1. CASE StartReceiver("restore", [Goes("recover") EXCEPT !.down = FALSE])
    <3>1. g.pc = "restore" /\ g' = [Goes("recover") EXCEPT !.down = FALSE]
      BY <2>1 DEF StartReceiver, At
    <3>2. /\ DOMAIN g' = Fields /\ g'.pc = "recover" /\ g'.plan = g.plan
          /\ g'.verdict = g.verdict /\ g'.want = g.want
      BY <3>1 DEF Goes, ControlInv, Fields
    <3> QED
      BY <3>1, <3>2 DEF GoesOn, Pcs3, ControlInv, Ended
  <2>2. CASE StartReceiver("finally", Goes("verdict"))
    <3>1. g.pc = "finally" /\ g' = Goes("verdict")
      BY <2>2 DEF StartReceiver, At
    <3>2. /\ DOMAIN g' = Fields /\ g'.pc = "verdict" /\ g'.plan = g.plan
          /\ g'.verdict = g.verdict /\ g'.want = g.want
      BY <3>1 DEF Goes, ControlInv, Fields
    <3> QED
      BY <3>1, <3>2 DEF GoesOn, ControlInv, Ended
  <2> QED
    BY <2>1, <2>2
<1> QED
  BY <1>1, <1>2, <1>3, LookingKeepsInv3, LookingKeeps3

LEMMA RecoverKeeps ==
    ASSUME ControlInv, WorldInv, QueueInv, Gate = 3, Inv3, UpInv, Recover
    PROVE  Kept3
<1>1. CASE Refreshes("recover", "poll")
  <2>1. Looks /\ UNCHANGED up /\ Moves({"recover"}, {"poll"}, {})
    BY <1>1, RefreshMoves
  <2> QED
    BY <2>1, MovingKeepsInv3, LookingKeeps3 DEF Pcs3, Ended, Owing
<1>2. ASSUME At("poll"),
             Asks(Answers("request", breaker), LAMBDA b : [Goes("read") EXCEPT
                !.polled = IF b = None THEN None ELSE b.state,
                !.evidence = @ \/ (b # None /\ Shows(b))])
      PROVE  Kept3
  <2>1. PICK a \in Answers("request", breaker) :
          /\ g.pc = "poll" /\ trouble' = a.trouble
          /\ g' = [Goes("read") EXCEPT !.polled = IF a.value = None THEN None ELSE a.value.state,
                                       !.evidence = @ \/ (a.value # None /\ Shows(a.value))]
          /\ UNCHANGED <<version, sinkVars, queueVars, daemonVars, up>>
    BY <1>2 DEF Asks, At
  <2>2. Looks /\ UNCHANGED up
    BY <2>1, AnswersTell, AskingLooks
  <2>3. Moves({"poll"}, {"read"}, {"polled", "evidence"})
    BY <2>1 DEF Goes, Moves, ControlInv, Fields
  <2> QED
    BY <2>2, <2>3, MovingKeepsInv3, LookingKeeps3 DEF Pcs3, Ended, Owing
<1>3. ASSUME At("read"),
             Asks(IndexAnswers("request", Cardinality(visible)),
                  LAMBDA n : [Goes("docs") EXCEPT !.es = n])
      PROVE  Kept3
  <2> DEFINE count == Cardinality(visible)
  <2>1. PICK a \in IndexAnswers("request", count) :
          /\ g.pc = "read" /\ trouble' = a.trouble /\ g' = [Goes("docs") EXCEPT !.es = a.value]
          /\ UNCHANGED <<version, sinkVars, queueVars, daemonVars, up>>
    BY <1>3 DEF Asks, At
  <2> HIDE DEF count
  <2>2. Looks /\ UNCHANGED up /\ (a.value # None => up)
    BY <2>1, IndexAnswersTell, AskingLooks
  <2>3. Moves({"read"}, {"docs"}, {"es"}) /\ g'.es = a.value
    BY <2>1 DEF Goes, Moves, ControlInv, Fields
  <2>4. GoesOn
    BY <2>3, PassingIsControlled DEF Pcs3, Ended
  <2>5. /\ g'.want = g.want /\ g'.verdict = g.verdict /\ g'.plan = g.plan /\ g'.pc = "docs"
        /\ g.pc = "read"
    BY <2>3 DEF Moves, Fields
  <2>6. AllLanded' <=> AllLanded
    BY <2>2, <2>5 DEF AllLanded, Looks
  <2>7. Inv3'
    BY <2>2, <2>3, <2>5, <2>6 DEF Inv3, LandedInv, Verdict3Inv, Looks
  <2>8. UpInv'
    BY <2>2, <2>5 DEF UpInv, Owing, Looks
  <2> QED
    BY <2>2, <2>4, <2>7, <2>8, LookingKeeps3
<1> QED
  BY <1>1, <1>2, <1>3 DEF Recover

(* As many rows are landed as were changed only when all of them are. *)
LEMMA MatchedMeansLanded ==
    ASSUME WorldInv, g.want \in [Rows -> Nat]
    PROVE  Matched # None /\ (Matched = Cardinality(Wanted) => AllLanded)
<1> DEFINE L == {r \in Wanted : index[r] >= g.want[r]}
<1>1. Wanted \in SUBSET Rows /\ L \in SUBSET Rows /\ L \in SUBSET Wanted
  BY DEF Wanted
<1>2. Matched = Cardinality(L)
  BY DEF Matched
<1>3. \A r \in Rows \ Wanted : reached[r] >= g.want[r]
  BY DEF Wanted, WorldInv
<1>4. L = Wanted => AllLanded
  BY <1>3 DEF AllLanded, WorldInv
<1> HIDE DEF L
<1>5. Matched # None
  BY <1>1, <1>2, RowsAreCounted
<1>6. Matched = Cardinality(Wanted) => L = Wanted
  BY <1>1, <1>2, RowsAreCounted, FS_Subset
<1> QED
  BY <1>4, <1>5, <1>6

LEMMA ReadDocsKeeps ==
    ASSUME ControlInv, WorldInv, QueueInv, Gate = 3, Inv3, UpInv, ReadDocs
    PROVE  Kept3
<1> DEFINE m == Matched
<1>1. PICK a \in IndexAnswers("mget", m) :
        /\ g.pc = "docs" /\ trouble' = a.trouble
        /\ g' = [Goes("judge3") EXCEPT !.matched = IF a.value = None THEN @ ELSE a.value]
        /\ UNCHANGED <<version, sinkVars, queueVars, daemonVars, up>>
  BY DEF ReadDocs, Asks, At
<1> DEFINE new == IF a.value = None THEN g.matched ELSE a.value
<1>2. g' = [Goes("judge3") EXCEPT !.matched = new]
  BY <1>1 DEF Goes, ControlInv, Fields
<1>3. m # None /\ (m = Cardinality(Wanted) => AllLanded)
  BY MatchedMeansLanded DEF Inv3
<1> HIDE DEF m
<1>4. up /\ "mget" \notin trouble' => new = m
  BY <1>1, <1>3, IndexAnswersTell
<1>5. Looks /\ UNCHANGED up
  BY <1>1, IndexAnswersTell, AskingLooks
<1> HIDE DEF new
<1>6. Moves({"docs"}, {"judge3"}, {"matched"}) /\ g'.matched = new
  BY <1>1, <1>2 DEF Goes, Moves, ControlInv, Fields
<1>7. GoesOn
  BY <1>6, PassingIsControlled DEF Pcs3, Ended
<1>8. /\ g'.want = g.want /\ g'.verdict = g.verdict /\ g'.plan = g.plan /\ g'.pc = "judge3"
      /\ g'.es = g.es
  BY <1>6 DEF Moves, Fields
<1>9. (AllLanded' <=> AllLanded) /\ Wanted' = Wanted
  BY <1>5, <1>8 DEF AllLanded, Wanted, Looks
<1>10. LandedInv'
  BY <1>1, <1>3, <1>4, <1>5, <1>6, <1>8, <1>9 DEF Inv3, LandedInv, Landed
<1>11. Inv3'
  BY <1>5, <1>8, <1>9, <1>10 DEF Inv3, Verdict3Inv, Looks
<1>12. UpInv'
  BY <1>1, <1>5, <1>8 DEF UpInv, Owing, Looks
<1> QED
  BY <1>5, <1>7, <1>11, <1>12, LookingKeeps3

LEMMA Judge3Keeps ==
    ASSUME ControlInv, WorldInv, QueueInv, Gate = 3, Inv3, UpInv, Judge3
    PROVE  Kept3
<1>0. g.pc = "judge3"
  BY DEF Judge3, At
<1>1. ASSUME Recovered, NEW verdict, Local(Ends(verdict))
      PROVE  Kept3
  <2>1. Looks /\ UNCHANGED up /\ g' = Ends(verdict)
    BY <1>1, StillLooks DEF Local
  <2>2. AllLanded \/ "mget" \in trouble
    BY <1>0, <1>1 DEF Inv3, LandedInv, Recovered
  <2> QED
    BY <2>1, <2>2, EndingKeepsInv3, LookingKeeps3
<1>2. CASE Local(Fails)
  <2>1. Looks /\ UNCHANGED up /\ g' = Ends("FAIL")
    BY <1>2, StillLooks DEF Local, Fails
  <2> QED
    BY <2>1, EndingKeepsInv3, LookingKeeps3
<1>3. CASE Local(Goes("recover"))
  <2>1. Looks /\ UNCHANGED up /\ g' = [g EXCEPT !.pc = "recover"]
    BY <1>3, StillLooks DEF Local, Goes
  <2>2. Moves({"judge3"}, {"recover"}, {})
    BY <1>0, <2>1 DEF Moves, ControlInv
  <2> QED
    BY <2>1, <2>2, MovingKeepsInv3, LookingKeeps3 DEF Pcs3, Ended, Owing
<1>4. CASE Mutate([Goes("recover") EXCEPT !.canaries = @ + 1])
  <2> DEFINE new == [Goes("recover") EXCEPT !.canaries = @ + 1]
  <2>1. /\ DOMAIN new = Fields /\ new.pc = "recover"
        /\ \A f \in Fields \ ({"pc"} \cup {"canaries"}) : new[f] = g[f]
    BY DEF Goes, ControlInv, Fields
  <2>2. Mutate(new)
    BY <1>4
  <2> HIDE DEF new
  <2>3. g.pc \in Pcs3 /\ g.pc \notin Owing /\ {"canaries"} \cap {"plan", "want", "verdict", "down"} = {}
    BY <1>0 DEF Pcs3, Owing
  <2> QED
    BY <2>1, <2>2, <2>3, MutateKeeps3
<1> QED
  BY <1>1, <1>2, <1>3, <1>4 DEF Judge3

LEMMA FreshHasInv3 ==
    ASSUME NEW plan, IsPlan(plan), g' = Fresh(plan)
    PROVE  Inv3'
<1>1. g'.want = Nobody /\ g'.pc = "start" /\ g'.verdict = "NONE"
  BY FreshIsControlled
<1> QED
  BY <1>1 DEF Inv3, LandedInv, Verdict3Inv, Nobody

LEMMA Gate3Steps ==
    ASSUME ControlInv, WorldInv, QueueInv, Gate = 3, Inv3, UpInv, Suite
    PROVE  /\ ControlInv' /\ WorldInv' /\ QueueInv' /\ Inv3' /\ UpInv' /\ trouble \subseteq trouble'
           /\ \A r \in Rows : version[r] = 0 => version'[r] = 0
           /\ Gate' = Gate \/ NextGate
<1>1. ASSUME StartGate PROVE Kept3
  <2>1. /\ Moves({"start"}, {"count", "quiesce"}, {}) /\ Looks /\ UNCHANGED up
    BY <1>1, StartGatePasses
  <2> QED
    BY <2>1, MovingKeepsInv3, LookingKeeps3 DEF Pcs3, Ended, Owing
<1>2. ASSUME Quiesce PROVE Kept3
  <2>1. Moves({"quiesce"}, {"stop"}, {"quiesced", "base"}) /\ Looks /\ UNCHANGED up
    BY <1>2, QuiescePasses
  <2> QED
    BY <2>1, MovingKeepsInv3, LookingKeeps3 DEF Pcs3, Ended, Owing
<1>3. ASSUME Throws PROVE Kept3
  <2>1. Looks /\ UNCHANGED up /\ g' = Ends("FAIL")
    BY <1>3, ThrowsEnds DEF Fails
  <2> QED
    BY <2>1, EndingKeepsInv3, LookingKeeps3
<1>4. ASSUME CountSource PROVE Kept3
  <2>1. Looks /\ UNCHANGED up /\ Moves({"count"}, {"select"}, {"source"})
    BY <1>4, CountSourcePasses
  <2> QED
    BY <2>1, MovingKeepsInv3, LookingKeeps3 DEF Pcs3, Ended, Owing
<1>5. ASSUME SelectQuarantined PROVE Kept3
  <2>1. Looks /\ UNCHANGED up /\ Moves({"select"}, {"probe"}, {"expected"})
    BY <1>5, SelectMoves
  <2> QED
    BY <2>1, MovingKeepsInv3, LookingKeeps3 DEF Pcs3, Ended, Owing
<1>6. ASSUME Gate3 PROVE Kept3
  BY <1>6, ProbeKeeps, StopKeeps, MutateInOutageKeeps, WatchKeeps, StartKeeps, RecoverKeeps,
     ReadDocsKeeps, Judge3Keeps DEF Gate3
<1>7. CASE NextGate
  <2>1. /\ ControlInv' /\ UNCHANGED world
        /\ \/ g' = Fresh(g'.plan) /\ g.pc = "verdict"
           \/ g.pc = "verdict" /\ g'.pc = "done" /\ \A f \in Fields \ {"pc"} : g'[f] = g[f]
    BY <1>7, NextGateIsControlled DEF NextGate, At
  <2>2. Looks /\ UNCHANGED <<version, up, trouble>>
    BY <2>1, StillLooks
  <2>3. UpInv'
    BY <2>1, <2>2 DEF UpInv, Owing
  <2>4. CASE g' = Fresh(g'.plan)
    BY <1>7, <2>1, <2>2, <2>3, <2>4, FreshHasInv3, LooksIsGentle DEF ControlInv
  <2>5. CASE g.pc = "verdict" /\ g'.pc = "done" /\ \A f \in Fields \ {"pc"} : g'[f] = g[f]
    <3>1. g'.want = g.want /\ g'.verdict = g.verdict
      BY <2>5 DEF Fields
    <3>2. Inv3'
      BY <2>2, <2>5, <3>1, LookingKeepsInv3
    <3> QED
      BY <1>7, <2>1, <2>2, <2>3, <3>2, LooksIsGentle
  <2> QED
    BY <2>1, <2>4, <2>5
<1>8. CASE Kept3
  BY <1>8, GoingOnIsControlled DEF Kept3, GoesOn, Gate
<1>9. ~Gate4
  BY DEF Gate4
<1> QED
  BY <1>1, <1>2, <1>3, <1>4, <1>5, <1>6, <1>7, <1>8, <1>9, StepsOfGate

----------------------------------------------------------------------------
(* Gate 4 *)

BeforeSeed == {"start", "quiesce", "delete", "refresh", "initial", "seed"}

(* Gate 4 is the last of a plan: until it inserts them, its rows are not   *)
(* in the table.                                                           *)
UnseededInv ==
    Gate # 4 \/ g.pc \in BeforeSeed => \A r \in Valid \cup Poison : version[r] = 0

(* What the gate has read of the queue is still there. *)
HeldInv ==
    /\ g.pc \in {"start", "quiesce", "delete"} => g.quarantined = {}
    /\ "replay" \notin trouble => g.quarantined \subseteq Held

(* Nobody else writes or replays. *)
Alone == trouble \cap {"replay", "write"} = {}

(* If nothing but the batch was on its way, the baseline counts what is    *)
(* indexed and not of the batch, and goes on doing so.                     *)
CleanInv ==
    /\ g.pc \in BeforeSeed \ {"seed"} => ~g.clean
    /\ g.clean /\ Alone =>
         /\ todo \subseteq Valid \cup Poison
         /\ \A p \in flight : p[1] \in Valid \cup Poison
         /\ g.base = Cardinality(Documents \ Valid)
         /\ g.es \in Nat /\ g.es <= Cardinality(Documents)

Isolated == (\A r \in Valid : index[r] > 0) /\ (\A r \in Poison : entry[r] = "PENDING")

Verdict4Inv == g.verdict = "PASS" /\ g.clean /\ Alone => Isolated

Inv4 == HeldInv /\ CleanInv /\ Verdict4Inv

LEMMA WorldKeepsInv4 ==
    ASSUME WorldInv, QueueInv, Gentle, Inv4, UNCHANGED g, WorldInv'
    PROVE  Inv4'
<1>1. /\ "replay" \notin trouble' => "replay" \notin trouble
      /\ Alone' => Alone /\ "replay" \notin trouble' /\ "write" \notin trouble'
  BY DEF Gentle, Alone
<1>2. HeldInv'
  <2>1. ASSUME "replay" \notin trouble' PROVE Held \subseteq Held'
    <3>1. \A r \in Poison : entry[r] # "NONE" => entry[r] = "PENDING" /\ entry'[r] = "PENDING"
      BY <1>1, <2>1 DEF QueueInv, Gentle, Rows
    <3> QED
      BY <3>1 DEF Held
  <2> QED
    BY <1>1, <2>1 DEF Inv4, HeldInv
<1>3. CleanInv'
  <2> SUFFICES ASSUME g.clean, Alone'
               PROVE  /\ todo' \subseteq Valid \cup Poison
                      /\ \A p \in flight' : p[1] \in Valid \cup Poison
                      /\ g.base = Cardinality(Documents' \ Valid)
                      /\ g.es \in Nat /\ g.es <= Cardinality(Documents')
    BY DEF CleanInv, Inv4
  <2>1. /\ todo \subseteq Valid \cup Poison /\ g.base = Cardinality(Documents \ Valid)
        /\ \A p \in flight : p[1] \in Valid \cup Poison /\ p[1] \notin Poison
        /\ g.es \in Nat /\ g.es <= Cardinality(Documents)
    BY <1>1 DEF Inv4, CleanInv, QueueInv
  <2>2. \A r \in Rows \ Valid : index'[r] = index[r]
    BY <1>1, <2>1 DEF Gentle
  <2>3. Documents' \ Valid = Documents \ Valid
    BY <2>2 DEF Documents
  <2>4. todo' \subseteq todo /\ \A p \in flight' : p \in flight \/ p[1] \in todo
    BY <1>1 DEF Gentle
  <2>5. g.es <= Cardinality(Documents')
    BY <2>1, DocumentsGrow
  <2> QED
    BY <2>1, <2>3, <2>4, <2>5
<1>4. Verdict4Inv'
  <2>1. ASSUME "replay" \notin trouble', Isolated PROVE Isolated'
    <3>1. \A r \in Valid : index'[r] > 0
      BY <2>1 DEF Isolated, Gentle, Rows
    <3>2. \A r \in Poison : entry'[r] = "PENDING"
      BY <2>1 DEF Isolated, Gentle, Rows
    <3> QED
      BY <3>1, <3>2 DEF Isolated
  <2> QED
    BY <1>1, <2>1 DEF Inv4, Verdict4Inv
<1> QED
  BY <1>2, <1>3, <1>4 DEF Inv4

LEMMA LookingKeepsInv4 ==
    ASSUME Looks, Inv4
    PROVE  /\ (/\ g'.quarantined \in {g.quarantined, Held}
               /\ g'.pc \in {"start", "quiesce", "delete"} =>
                     g.pc \in {"start", "quiesce", "delete"} /\ g'.quarantined = g.quarantined)
                => HeldInv'
           /\ (/\ g'.clean = g.clean /\ (g'.base = g.base \/ ~g.clean) /\ g'.es = g.es
               /\ g'.pc \in BeforeSeed \ {"seed"} => g.pc \in BeforeSeed \ {"seed"})
                => CleanInv'
           /\ (g'.verdict = "PASS" => g.verdict = "PASS") /\ g'.clean = g.clean => Verdict4Inv'
<1>1. /\ Held' = Held /\ Documents' = Documents /\ (Isolated' <=> Isolated)
      /\ "replay" \notin trouble' => "replay" \notin trouble
      /\ (Alone' => Alone) /\ todo' = todo /\ flight' = flight
  BY DEF Looks, Held, Documents, Isolated, Alone
<1>2. (/\ g'.quarantined \in {g.quarantined, Held}
       /\ g'.pc \in {"start", "quiesce", "delete"} =>
             g.pc \in {"start", "quiesce", "delete"} /\ g'.quarantined = g.quarantined)
        => HeldInv'
  BY <1>1 DEF Inv4, HeldInv
<1>3. (/\ g'.clean = g.clean /\ (g'.base = g.base \/ ~g.clean) /\ g'.es = g.es
       /\ g'.pc \in BeforeSeed \ {"seed"} => g.pc \in BeforeSeed \ {"seed"})
        => CleanInv'
  BY <1>1 DEF Inv4, CleanInv
<1>4. (g'.verdict = "PASS" => g.verdict = "PASS") /\ g'.clean = g.clean => Verdict4Inv'
  BY <1>1 DEF Inv4, Verdict4Inv
<1> QED
  BY <1>2, <1>3, <1>4

(* A count within the gate is no more than what is indexed. *)
LEMMA CountingKeepsClean ==
    ASSUME WorldInv, Looks, Inv4, g'.clean = g.clean, g'.base = g.base,
           g'.es = g.es \/ g'.es = Cardinality(visible),
           g'.pc \notin BeforeSeed
    PROVE  CleanInv'
<1>1. Documents' = Documents /\ todo' = todo /\ flight' = flight /\ (Alone' => Alone)
  BY DEF Looks, Documents, Alone
<1>2. visible \subseteq Documents /\ Documents \in SUBSET Rows
  BY DEF WorldInv, Documents
<1>3. Cardinality(visible) \in Nat /\ Cardinality(visible) <= Cardinality(Documents)
  BY <1>2, RowsAreCounted, FS_Subset
<1> QED
  BY <1>1, <1>3 DEF Inv4, CleanInv

(* The exact numbers are those of the batch. *)
LEMMA ExactNumbersIsolate ==
    ASSUME WorldInv, QueueInv, Inv4, g.clean, Alone,
           NEW rows, rows \subseteq Held, Passed4(rows)
    PROVE  Isolated
<1>1. /\ g.es - g.base = Cardinality(Valid) /\ Cardinality(rows) = Cardinality(Poison)
      /\ g.base = Cardinality(Documents \ Valid)
      /\ g.es \in Nat /\ g.es <= Cardinality(Documents)
  BY DEF Passed4, Written, Inv4, CleanInv
<1>2. \A r \in Valid : index[r] > 0
  <2> DEFINE out == Documents \ Valid
             in == Documents \cap Valid
  <2>1. /\ out \in SUBSET Rows /\ in \in SUBSET Rows /\ Valid \in SUBSET Rows
        /\ in \in SUBSET Valid /\ out \cup in = Documents /\ out \cap in = {}
    BY DEF Documents, Rows
  <2>2. g.base = Cardinality(out)
    BY <1>1
  <2> HIDE DEF out, in
  <2>3. /\ IsFiniteSet(out) /\ IsFiniteSet(in) /\ IsFiniteSet(Valid)
        /\ Cardinality(out) \in Nat /\ Cardinality(in) \in Nat /\ Cardinality(Valid) \in Nat
    BY <2>1, RowsAreCounted
  <2>4. Cardinality(Documents) = Cardinality(out) + Cardinality(in)
    <3>1. Cardinality(out \cup in) = Cardinality(out) + Cardinality(in) - Cardinality(out \cap in)
      BY <2>3, FS_Union
    <3>2. Cardinality(out \cap in) = 0
      BY <2>1, FS_EmptySet
    <3>3. Cardinality(out \cup in) = Cardinality(out) + Cardinality(in)
      BY <2>3, <3>1, <3>2
    <3> QED
      BY <2>1, <3>3, Zenon
  <2>5. Cardinality(in) <= Cardinality(Valid)
    BY <2>1, <2>3, FS_Subset
  <2>6. Cardinality(Valid) = Cardinality(in)
    BY <1>1, <2>2, <2>3, <2>4, <2>5
  <2>7. Valid = in
    BY <2>1, <2>3, <2>6, FS_Subset
  <2> QED
    BY <2>7 DEF in, Documents
<1>3. \A r \in Poison : entry[r] = "PENDING"
  <2> DEFINE Q == {q \in Poison : entry[q] # "NONE"}
             f == [q \in Q |-> <<q, entry[q]>>]
  <2>1. Q \in SUBSET Poison /\ Q \in SUBSET Rows /\ Poison \in SUBSET Rows
    BY DEF Rows
  <2>2. f \in Surjection(Q, Held)
    BY DEF Held, Surjection
  <2> HIDE DEF Q, f
  <2>3. /\ IsFiniteSet(Q) /\ IsFiniteSet(Poison)
        /\ Cardinality(Q) \in Nat /\ Cardinality(Poison) \in Nat
    BY <2>1, RowsAreCounted
  <2>4. IsFiniteSet(Held) /\ Cardinality(Held) <= Cardinality(Q)
    BY <2>2, <2>3, FS_Surjection
  <2>5. Cardinality(rows) <= Cardinality(Held) /\ Cardinality(Held) \in Nat
    BY <2>4, FS_Subset, FS_CardinalityType
  <2>6. Cardinality(Q) <= Cardinality(Poison)
    BY <2>1, <2>3, FS_Subset
  <2>7. Cardinality(Poison) = Cardinality(Q)
    BY <1>1, <2>3, <2>4, <2>5, <2>6
  <2>8. Poison = Q
    BY <2>1, <2>3, <2>7, FS_Subset
  <2>9. \A r \in Poison : r \in Rows /\ entry[r] # "NONE"
    BY <2>1, <2>8 DEF Q
  <2> QED
    BY <2>9 DEF QueueInv, Alone
<1> QED
  BY <1>2, <1>3 DEF Isolated

(* What a step of gate 4 keeps. *)
Kept4 ==
    GoesOn /\ Inv4' /\ UnseededInv' /\ WorldInv' /\ QueueInv' /\ UNCHANGED up /\ trouble \subseteq trouble'

LEMMA LookingKeepsUnseeded ==
    ASSUME Gate = 4, UnseededInv, UNCHANGED version, g'.plan = g.plan,
           g'.pc \in BeforeSeed => g.pc \in BeforeSeed
    PROVE  UnseededInv'
BY DEF UnseededInv, Gate

(* A step that changes only what no part of the invariant reads. *)
LEMMA MovingKeeps4 ==
    ASSUME ControlInv, WorldInv, QueueInv, Gate = 4, Inv4, UnseededInv, Looks, UNCHANGED up,
           NEW from, NEW to, NEW fields, Moves(from, to, fields),
           fields \cap {"plan", "verdict", "down", "quarantined", "es", "clean"} = {},
           to \subseteq Pcs4, from \cap (Ended \cup {"finally"}) = {},
           "base" \in fields => from \subseteq BeforeSeed \ {"seed"},
           to \cap {"start", "quiesce", "delete"} # {} => from \subseteq {"start", "quiesce", "delete"},
           to \cap (BeforeSeed \ {"seed"}) # {} => from \subseteq BeforeSeed \ {"seed"},
           to \cap BeforeSeed # {} => from \subseteq BeforeSeed
    PROVE  Kept4
<1>1. /\ g'.plan = g.plan /\ g'.verdict = g.verdict /\ g'.quarantined = g.quarantined
      /\ g'.es = g.es /\ g'.clean = g.clean /\ g.pc \in from /\ g'.pc \in to
  BY DEF Moves, Fields
<1>2. g'.base = g.base \/ ~g.clean
  <2>1. CASE "base" \in fields
    BY <1>1, <2>1 DEF Inv4, CleanInv
  <2>2. CASE "base" \notin fields
    BY <2>2 DEF Moves, Fields
  <2> QED
    BY <2>1, <2>2
<1>3. HeldInv'
  BY <1>1, LookingKeepsInv4
<1>4. CleanInv'
  BY <1>1, <1>2, LookingKeepsInv4
<1>5. Verdict4Inv'
  BY <1>1, LookingKeepsInv4
<1>6. GoesOn
  BY PassingIsControlled
<1>7. UnseededInv'
  BY <1>1, LookingKeepsUnseeded DEF Looks
<1> QED
  BY <1>3, <1>4, <1>5, <1>6, <1>7, LooksIsGentle DEF Kept4, Inv4, Looks

LEMMA EndingKeeps4 ==
    ASSUME ControlInv, WorldInv, QueueInv, Gate = 4, Inv4, UnseededInv, Looks, UNCHANGED up,
           NEW verdict, g' = Ends(verdict),
           verdict = "PASS" /\ g.clean /\ Alone => Isolated
    PROVE  Kept4
<1>1. /\ GoesOn /\ g'.verdict = verdict /\ g'.pc \in {"finally", "verdict"}
      /\ g'.plan = g.plan /\ g'.quarantined = g.quarantined /\ g'.es = g.es /\ g'.base = g.base
      /\ g'.clean = g.clean
  BY EndingIsControlled DEF Fields
<1>2. HeldInv' /\ CleanInv'
  BY <1>1, LookingKeepsInv4 DEF BeforeSeed
<1>3. Verdict4Inv'
  BY <1>1 DEF Verdict4Inv, Isolated, Looks, Alone
<1>4. UnseededInv'
  BY <1>1, LookingKeepsUnseeded DEF Looks, BeforeSeed
<1> QED
  BY <1>1, <1>2, <1>3, <1>4, LooksIsGentle DEF Kept4, Inv4, Looks

LEMMA ClearQueueKeeps ==
    ASSUME ControlInv, WorldInv, QueueInv, Gate = 4, Inv4, UnseededInv, ClearQueue
    PROVE  Kept4
<1>1. /\ g.pc = "delete" /\ g' = Goes("refresh") /\ entry' = [r \in Rows |-> "NONE"]
      /\ UNCHANGED <<version, index, reached, visible, flight, replays, todo, up, trouble>>
  BY DEF ClearQueue, At, sinkVars, daemonVars
<1>2. Moves({"delete"}, {"refresh"}, {})
  BY <1>1 DEF Goes, Moves, ControlInv
<1>3. GoesOn
  BY <1>2, PassingIsControlled DEF Pcs4, Ended
<1>4. /\ g'.plan = g.plan /\ g'.verdict = "NONE" /\ g'.quarantined = {} /\ ~g'.clean
      /\ g'.pc = "refresh"
  BY <1>1, <1>2 DEF Moves, Fields, ControlInv, Ended, Inv4, HeldInv, CleanInv, BeforeSeed
<1>5. WorldInv' /\ QueueInv'
  BY <1>1 DEF WorldInv, QueueInv, Documents, Source
<1>6. Inv4'
  BY <1>4 DEF Inv4, HeldInv, CleanInv, Verdict4Inv
<1>7. UnseededInv'
  BY <1>1, <1>4, LookingKeepsUnseeded DEF BeforeSeed
<1> QED
  BY <1>1, <1>3, <1>5, <1>6, <1>7 DEF Kept4

LEMMA InitialCountKeeps ==
    ASSUME ControlInv, WorldInv, QueueInv, Gate = 4, Inv4, UnseededInv, InitialCount
    PROVE  Kept4
<1> DEFINE count == Cardinality(visible)
<1>1. PICK a \in IndexAnswers("request", count) :
        /\ g.pc = "initial" /\ trouble' = a.trouble
        /\ g' = LET base == IF a.value = None THEN 0 ELSE a.value
                IN  [Goes("seed") EXCEPT
                       !.base = base, !.es = base,
                       !.clean = /\ a.value # None /\ visible = Documents
                                 /\ todo = {} /\ flight = {}]
        /\ UNCHANGED <<version, sinkVars, queueVars, daemonVars, up>>
  BY DEF InitialCount, Asks, At
<1> DEFINE base == IF a.value = None THEN 0 ELSE a.value
           clean == /\ a.value # None /\ visible = Documents
                    /\ todo = {} /\ flight = {}
<1>2. g' = [Goes("seed") EXCEPT !.base = base, !.es = base, !.clean = clean]
  BY <1>1
<1>3. Looks /\ UNCHANGED up
  BY <1>1, IndexAnswersTell, AskingLooks
<1>4. clean => base = Cardinality(Documents) /\ todo = {} /\ flight = {}
  BY IndexAnswersTell
<1> HIDE DEF count, base, clean
<1>5. /\ Moves({"initial"}, {"seed"}, {"base", "es", "clean"})
      /\ g'.base = base /\ g'.es = base /\ g'.clean = clean
  BY <1>1, <1>2 DEF Goes, Moves, ControlInv, Fields
<1>6. GoesOn
  BY <1>5, PassingIsControlled DEF Pcs4, Ended
<1>7. /\ g'.plan = g.plan /\ g'.verdict = "NONE" /\ g'.quarantined = g.quarantined
      /\ g'.pc = "seed" /\ g.pc = "initial"
  BY <1>5 DEF Moves, Fields, ControlInv, Ended
<1>8. HeldInv'
  BY <1>3, <1>7, LookingKeepsInv4
<1>9. Documents \ Valid = Documents /\ Cardinality(Documents) \in Nat
  <2>1. \A r \in Valid : index[r] <= 0
    BY <1>1 DEF UnseededInv, BeforeSeed, WorldInv, Rows, Documents, Source
  <2>2. Documents \in SUBSET Rows
    BY DEF Documents
  <2> QED
    BY <2>1, <2>2, RowsAreCounted DEF Documents, WorldInv, Rows
<1>10. CleanInv'
  <2>1. Documents' = Documents /\ todo' = todo /\ flight' = flight
    BY <1>3 DEF Looks, Documents
  <2>2. base \in Nat \/ ~clean
    BY <1>4, <1>9
  <2> QED
    BY <1>4, <1>5, <1>7, <1>9, <2>1, <2>2 DEF CleanInv, BeforeSeed
<1>11. Verdict4Inv'
  BY <1>7 DEF Verdict4Inv
<1>12. UnseededInv'
  BY <1>3, <1>7, LookingKeepsUnseeded DEF Looks, BeforeSeed
<1>13. WorldInv' /\ QueueInv' /\ trouble \subseteq trouble'
  BY <1>3, LooksIsGentle DEF Gentle
<1> QED
  BY <1>3, <1>6, <1>8, <1>10, <1>11, <1>12, <1>13 DEF Kept4, Inv4

(* New rows, which no sink knows. *)
LEMMA InsertsKeep ==
    ASSUME ControlInv, WorldInv, QueueInv, Gate = 4, Inv4, UnseededInv,
           g.pc \in {"seed", "poison"}, NEW rows \in SUBSET (Valid \cup Poison),
           \A r \in rows : version[r] = 0, Inserts(rows, "poison")
    PROVE  Kept4
<1>1. /\ version' = [r \in Rows |-> IF r \in rows THEN 1 ELSE version[r]]
      /\ todo' = todo \cup rows /\ g' = Goes("poison")
      /\ UNCHANGED <<index, reached, visible, flight, entry, replays, up, trouble>>
  BY DEF Inserts, sinkVars, queueVars
<1>2. Moves({"seed", "poison"}, {"poison"}, {})
  BY <1>1 DEF Goes, Moves, ControlInv
<1>3. GoesOn
  BY <1>2, PassingIsControlled DEF Pcs4, Ended
<1>4. /\ g'.plan = g.plan /\ g'.verdict = "NONE" /\ g'.quarantined = g.quarantined
      /\ g'.clean = g.clean /\ g'.base = g.base /\ g'.es = g.es /\ g'.pc = "poison"
  BY <1>2 DEF Moves, Fields, ControlInv, Ended
<1>5. rows \subseteq Rows /\ \A r \in Rows : version[r] <= version'[r]
  BY <1>1 DEF Rows, WorldInv
<1>6. version' \in [Rows -> Nat] /\ Documents' = Documents /\ Source \subseteq Source' /\ rows \subseteq Source'
  BY <1>1, <1>5 DEF WorldInv, Documents, Source
<1>7. WorldInv'
  BY <1>1, <1>5, <1>6 DEF WorldInv
<1>8. QueueInv'
  BY <1>1, <1>5, <1>6 DEF QueueInv, WorldInv
<1>9. Inv4'
  BY <1>1, <1>4, <1>6 DEF Inv4, HeldInv, Held, CleanInv, Verdict4Inv, BeforeSeed, Alone
<1>10. UnseededInv'
  BY <1>4 DEF UnseededInv, BeforeSeed, Gate
<1> QED
  BY <1>1, <1>3, <1>7, <1>8, <1>9, <1>10 DEF Kept4

LEMMA SeedKeeps ==
    ASSUME ControlInv, WorldInv, QueueInv, Gate = 4, Inv4, UnseededInv, Seed
    PROVE  Kept4
<1>1. CASE At("seed") /\ Inserts(Valid, "poison")
  BY <1>1, InsertsKeep DEF At, UnseededInv, BeforeSeed
<1>2. ASSUME NEW r \in Poison \ Source, At("poison"), Inserts({r}, "poison")
      PROVE  Kept4
  <2>1. version[r] = 0
    BY DEF Source, WorldInv, Rows
  <2> QED
    BY <1>2, <2>1, InsertsKeep DEF At
<1>3. CASE At("poison") /\ Local(Goes("refresh4"))
  <2>1. Looks /\ UNCHANGED up /\ g.pc = "poison" /\ g' = [g EXCEPT !.pc = "refresh4"]
    BY <1>3, StillLooks DEF At, Local, Goes
  <2>2. Moves({"poison"}, {"refresh4"}, {})
    BY <2>1 DEF Moves, ControlInv
  <2> QED
    BY <2>1, <2>2, MovingKeeps4 DEF Pcs4, Ended, BeforeSeed
<1> QED
  BY <1>1, <1>2, <1>3 DEF Seed

LEMMA ReadBothKeeps ==
    ASSUME ControlInv, WorldInv, QueueInv, Gate = 4, Inv4, UnseededInv, ReadBoth
    PROVE  Kept4
<1>0. g.pc = "both"
  BY DEF ReadBoth, At
<1>1. ASSUME Asks(IndexAnswers("request", Cardinality(visible)),
                  LAMBDA n : [g EXCEPT !.got = @ \cup {"count"}, !.es = IF n = None THEN @ ELSE n])
      PROVE  Kept4
  <2> DEFINE count == Cardinality(visible)
  <2>1. PICK a \in IndexAnswers("request", count) :
          /\ trouble' = a.trouble
          /\ g' = [g EXCEPT !.got = @ \cup {"count"}, !.es = IF a.value = None THEN @ ELSE a.value]
          /\ UNCHANGED <<version, sinkVars, queueVars, daemonVars, up>>
    BY <1>1 DEF Asks
  <2> HIDE DEF count
  <2>2. Looks /\ UNCHANGED up
    BY <2>1, IndexAnswersTell, AskingLooks
  <2>3. Moves({"both"}, {"both"}, {"got", "es"}) /\ g'.es = (IF a.value = None THEN g.es ELSE a.value)
    BY <1>0, <2>1 DEF Moves, ControlInv, Fields
  <2>4. g'.es = g.es \/ g'.es = count
    BY <2>3, IndexAnswersTell
  <2>5. GoesOn
    BY <2>3, PassingIsControlled DEF Pcs4, Ended
  <2>6. /\ g'.plan = g.plan /\ g'.verdict = g.verdict /\ g'.quarantined = g.quarantined
        /\ g'.clean = g.clean /\ g'.base = g.base /\ g'.pc = "both"
    BY <2>3 DEF Moves, Fields
  <2>7. HeldInv' /\ Verdict4Inv'
    BY <2>2, <2>6, LookingKeepsInv4
  <2>8. CleanInv'
    BY <2>2, <2>4, <2>6, CountingKeepsClean DEF BeforeSeed, count
  <2>9. UnseededInv'
    BY <2>2, <2>6, LookingKeepsUnseeded DEF Looks, BeforeSeed
  <2> QED
    BY <2>2, <2>5, <2>7, <2>8, <2>9, LooksIsGentle DEF Kept4, Inv4, Looks
<1>2. ASSUME Asks(Answers("request", Held),
                  LAMBDA s : [g EXCEPT !.got = @ \cup {"entries"},
                                       !.quarantined = IF s = None THEN @ ELSE s])
      PROVE  Kept4
  <2> DEFINE held == Held
  <2>1. PICK a \in Answers("request", held) :
          /\ trouble' = a.trouble
          /\ g' = [g EXCEPT !.got = @ \cup {"entries"},
                            !.quarantined = IF a.value = None THEN @ ELSE a.value]
          /\ UNCHANGED <<version, sinkVars, queueVars, daemonVars, up>>
    BY <1>2 DEF Asks
  <2> HIDE DEF held
  <2>2. Looks /\ UNCHANGED up
    BY <2>1, AnswersTell, AskingLooks
  <2>3. /\ Moves({"both"}, {"both"}, {"got", "quarantined"})
        /\ g'.quarantined = (IF a.value = None THEN g.quarantined ELSE a.value)
    BY <1>0, <2>1 DEF Moves, ControlInv, Fields
  <2>4. g'.quarantined \in {g.quarantined, held}
    BY <2>3, AnswersTell
  <2>5. GoesOn
    BY <2>3, PassingIsControlled DEF Pcs4, Ended
  <2>6. /\ g'.plan = g.plan /\ g'.verdict = g.verdict /\ g'.es = g.es
        /\ g'.clean = g.clean /\ g'.base = g.base /\ g'.pc = "both"
    BY <2>3 DEF Moves, Fields
  <2>7. HeldInv' /\ CleanInv' /\ Verdict4Inv'
    BY <2>2, <2>4, <2>6, LookingKeepsInv4 DEF BeforeSeed, held
  <2>8. UnseededInv'
    BY <2>2, <2>6, LookingKeepsUnseeded DEF Looks, BeforeSeed
  <2> QED
    BY <2>2, <2>5, <2>7, <2>8, LooksIsGentle DEF Kept4, Inv4, Looks
<1>3. CASE Local([Goes("round") EXCEPT !.got = {}])
  <2>1. Looks /\ UNCHANGED up
    BY <1>3, StillLooks DEF Local
  <2>2. Moves({"both"}, {"round"}, {"got"})
    BY <1>0, <1>3 DEF Local, Goes, Moves, ControlInv, Fields
  <2> QED
    BY <2>1, <2>2, MovingKeeps4 DEF Pcs4, Ended, BeforeSeed
<1> QED
  BY <1>1, <1>2, <1>3 DEF ReadBoth

LEMMA RoundKeeps ==
    ASSUME ControlInv, WorldInv, QueueInv, Gate = 4, Inv4, UnseededInv, Round
    PROVE  Kept4
<1>1. /\ g.pc = "round" /\ UNCHANGED world
      /\ g' = [g EXCEPT !.pc = "last"] \/ g' = [g EXCEPT !.pc = "refresh4"]
  BY DEF Round, At, Local, Goes
<1>2. Looks /\ UNCHANGED up
  BY <1>1, StillLooks
<1>3. PICK to \in {"last", "refresh4"} : g' = [g EXCEPT !.pc = to]
  BY <1>1
<1>4. Moves({"round"}, {"last", "refresh4"}, {})
  BY <1>1, <1>3 DEF Moves, ControlInv
<1> QED
  BY <1>2, <1>4, MovingKeeps4 DEF Pcs4, Ended, BeforeSeed

LEMMA Judge4Keeps ==
    ASSUME ControlInv, WorldInv, QueueInv, Gate = 4, Inv4, UnseededInv, Judge4
    PROVE  Kept4
<1> DEFINE held == Held
<1>1. PICK a \in Answers("request", held) :
        /\ trouble' = a.trouble
        /\ g' = Ends(IF Passed4(IF a.value = None \/ a.value = {} THEN g.quarantined ELSE a.value)
                     THEN "PASS" ELSE "FAIL")
        /\ UNCHANGED <<version, sinkVars, queueVars, daemonVars, up>>
  BY DEF Judge4, Asks
<1> DEFINE rows == IF a.value = None \/ a.value = {} THEN g.quarantined ELSE a.value
           verdict == IF Passed4(rows) THEN "PASS" ELSE "FAIL"
<1>2. Looks /\ UNCHANGED up /\ g' = Ends(verdict)
  BY <1>1, AnswersTell, AskingLooks
<1>3. "replay" \notin trouble => rows \subseteq Held
  BY AnswersTell DEF Inv4, HeldInv
<1>4. verdict = "PASS" /\ g.clean /\ Alone => Isolated
  <2>0. Alone => "replay" \notin trouble
    BY DEF Alone
  <2>1. verdict = "PASS" => Passed4(rows)
    OBVIOUS
  <2> HIDE DEF rows, verdict
  <2> QED
    BY <1>3, <2>0, <2>1, ExactNumbersIsolate
<1> HIDE DEF verdict
<1> QED
  BY <1>2, <1>4, EndingKeeps4

LEMMA Gate4Steps ==
    ASSUME ControlInv, WorldInv, QueueInv, Gate = 4, Inv4, UnseededInv, Suite
    PROVE  /\ ControlInv' /\ WorldInv' /\ QueueInv' /\ Inv4' /\ UnseededInv' /\ UNCHANGED up
           /\ trouble \subseteq trouble' /\ Gate' = 4
<1>1. ASSUME StartGate PROVE Kept4
  <2>1. Moves({"start"}, {"quiesce"}, {}) /\ Looks /\ UNCHANGED up
    BY <1>1, StartGatePasses DEF Moves
  <2> QED
    BY <2>1, MovingKeeps4 DEF Pcs4, Ended, BeforeSeed
<1>2. ASSUME Quiesce PROVE Kept4
  <2>1. Moves({"quiesce"}, {"delete"}, {"quiesced", "base"}) /\ Looks /\ UNCHANGED up
    BY <1>2, QuiescePasses
  <2> QED
    BY <2>1, MovingKeeps4 DEF Pcs4, Ended, BeforeSeed
<1>3. ASSUME Throws PROVE Kept4
  <2>1. Looks /\ UNCHANGED up /\ g' = Ends("FAIL")
    BY <1>3, ThrowsEnds DEF Fails
  <2> QED
    BY <2>1, EndingKeeps4
<1>4. ASSUME Refreshes("refresh", "initial") PROVE Kept4
  <2>1. Looks /\ UNCHANGED up /\ Moves({"refresh"}, {"initial"}, {})
    BY <1>4, RefreshMoves
  <2> QED
    BY <2>1, MovingKeeps4 DEF Pcs4, Ended, BeforeSeed
<1>5. ASSUME Refreshes("refresh4", "both") PROVE Kept4
  <2>1. Looks /\ UNCHANGED up /\ Moves({"refresh4"}, {"both"}, {})
    BY <1>5, RefreshMoves
  <2> QED
    BY <2>1, MovingKeeps4 DEF Pcs4, Ended, BeforeSeed
<1>6. ASSUME Refreshes("last", "lastCount") PROVE Kept4
  <2>1. Looks /\ UNCHANGED up /\ Moves({"last"}, {"lastCount"}, {})
    BY <1>6, RefreshMoves
  <2> QED
    BY <2>1, MovingKeeps4 DEF Pcs4, Ended, BeforeSeed
<1>7. ASSUME Counts("lastCount", "judge4") PROVE Kept4
  <2>1. /\ Looks /\ UNCHANGED <<up, visible>> /\ Moves({"lastCount"}, {"judge4"}, {"es"})
        /\ g'.es = g.es \/ (up /\ g'.es = Cardinality(visible))
    BY <1>7, CountMoves
  <2>2. GoesOn
    BY <2>1, PassingIsControlled DEF Pcs4, Ended
  <2>3. /\ g'.plan = g.plan /\ g'.verdict = g.verdict /\ g'.quarantined = g.quarantined
        /\ g'.clean = g.clean /\ g'.base = g.base /\ g'.pc = "judge4"
    BY <2>1 DEF Moves, Fields
  <2>4. HeldInv' /\ Verdict4Inv'
    BY <2>1, <2>3, LookingKeepsInv4
  <2>5. CleanInv'
    BY <2>1, <2>3, CountingKeepsClean DEF BeforeSeed
  <2>6. UnseededInv'
    BY <2>1, <2>3, LookingKeepsUnseeded DEF Looks, BeforeSeed
  <2> QED
    BY <2>1, <2>2, <2>4, <2>5, <2>6, LooksIsGentle DEF Kept4, Inv4, Looks
<1>8. ASSUME Gate4 PROVE Kept4
  BY <1>4, <1>5, <1>6, <1>7, <1>8, ClearQueueKeeps, InitialCountKeeps, SeedKeeps, ReadBothKeeps,
     RoundKeeps, Judge4Keeps DEF Gate4
<1>9. CASE NextGate
  <2>1. /\ ControlInv' /\ UNCHANGED world /\ g.pc = "verdict" /\ g'.pc = "done"
        /\ \A f \in Fields \ {"pc"} : g'[f] = g[f]
    BY <1>9, NextGateIsControlled
  <2>2. Looks /\ UNCHANGED <<version, up, trouble>>
    BY <2>1, StillLooks
  <2>3. /\ g'.plan = g.plan /\ g'.verdict = g.verdict /\ g'.quarantined = g.quarantined
        /\ g'.es = g.es /\ g'.base = g.base /\ g'.clean = g.clean
    BY <2>1 DEF Fields
  <2>4. HeldInv' /\ CleanInv' /\ Verdict4Inv'
    BY <2>1, <2>2, <2>3, LookingKeepsInv4 DEF BeforeSeed
  <2>5. UnseededInv'
    BY <2>1, <2>2, <2>3, LookingKeepsUnseeded DEF BeforeSeed
  <2> QED
    BY <2>1, <2>2, <2>3, <2>4, <2>5, LooksIsGentle DEF Inv4, Gate
<1>10. CASE Kept4
  BY <1>10, GoingOnIsControlled DEF Kept4, GoesOn, Gate
<1>11. ~Gate3
  BY DEF Gate3
<1> QED
  BY <1>1, <1>2, <1>3, <1>8, <1>9, <1>10, <1>11, StepsOfGate

----------------------------------------------------------------------------
(* The suite *)

GatesInv ==
    /\ ControlInv /\ WorldInv /\ QueueInv /\ UpInv /\ UnseededInv
    /\ Gate = 2 => Inv2
    /\ Gate = 3 => Inv3
    /\ Gate = 4 => Inv4

LEMMA FreshHasInv4 ==
    ASSUME NEW plan, IsPlan(plan), g' = Fresh(plan)
    PROVE  Inv4'
<1>1. /\ g'.quarantined = {} /\ ~g'.clean /\ g'.verdict = "NONE"
  BY FreshIsControlled
<1> QED
  BY <1>1 DEF Inv4, HeldInv, CleanInv, Verdict4Inv

LEMMA GatesInitially == GatesInit => GatesInv
<1> SUFFICES ASSUME GatesInit PROVE GatesInv
  OBVIOUS
<1>1. PICK plan \in Plans : g = Fresh(plan)
  BY DEF GatesInit
<1>2. IsPlan(plan)
  BY PlansAssumption
<1>3. /\ DOMAIN g = Fields /\ g.plan = plan /\ g.pc = "start" /\ g.verdict = "NONE" /\ ~g.down
      /\ g.es = None /\ g.source = {} /\ g.quarantined = {} /\ g.absent = {}
      /\ g.want = Nobody /\ ~g.clean
  BY <1>1, <1>2, FreshIsControlled
<1>4. Head(plan) \in {2, 3, 4}
  BY <1>2, PlanGoesOn
<1>5. ControlInv
  BY <1>2, <1>3, <1>4 DEF ControlInv, Gate
<1>6. /\ version = [r \in Rows |-> IF r \in Old THEN 1 ELSE 0]
      /\ \E docs \in SUBSET Old : index = [r \in Rows |-> IF r \in docs THEN 1 ELSE 0]
      /\ reached = index /\ visible = Documents /\ flight = {} /\ replays = {} /\ up = TRUE
      /\ entry \in [Rows -> {"NONE", "PENDING"}] /\ \A r \in Rows \ Old : entry[r] = "NONE"
      /\ todo \in SUBSET Old
  BY DEF GatesInit, WorldInit
<1>7. /\ version \in [Rows -> Nat] /\ index \in [Rows -> Nat]
      /\ \A r \in Old : version[r] = 1 /\ r \in Rows
      /\ \A r \in Rows \ Old : version[r] = 0 /\ index[r] = 0
  BY <1>6 DEF Rows
<1>8. WorldInv
  BY <1>6, <1>7 DEF WorldInv, Source, Documents
<1>9. (Valid \cup Poison) \cap Old = {} /\ Valid \cup Poison \subseteq Rows
  BY RowsAssumption DEF Rows
<1>10. QueueInv
  BY <1>6, <1>7, <1>9 DEF QueueInv
<1>11. UnseededInv
  BY <1>7, <1>9 DEF UnseededInv
<1>12. UpInv
  BY <1>6 DEF UpInv
<1>13. Inv2
  BY <1>3 DEF Inv2, CountInv, SourceInv, AbsentInv, ExpectedInv, Verdict2Inv, Expecting
<1>14. Inv3
  BY <1>3 DEF Inv3, LandedInv, Verdict3Inv, Nobody
<1>15. Inv4
  BY <1>3 DEF Inv4, HeldInv, CleanInv, Verdict4Inv
<1> QED
  BY <1>5, <1>8, <1>10, <1>11, <1>12, <1>13, <1>14, <1>15 DEF GatesInv

LEMMA NextGateHasItsInv ==
    ASSUME ControlInv, NextGate
    PROVE  Gate' = Gate \/ (Inv2' /\ Inv3' /\ Inv4')
<1>1. \/ g' = Fresh(g'.plan)
      \/ \A f \in Fields \ {"pc"} : g'[f] = g[f]
  BY NextGateIsControlled
<1>2. ControlInv'
  BY NextGateIsControlled
<1>3. CASE g' = Fresh(g'.plan)
  BY <1>2, <1>3, FreshHasInv2, FreshHasInv3, FreshHasInv4 DEF ControlInv
<1>4. CASE \A f \in Fields \ {"pc"} : g'[f] = g[f]
  BY <1>4 DEF Gate, Fields
<1> QED
  BY <1>1, <1>3, <1>4

LEMMA SuiteKeepsGates ==
    ASSUME GatesInv, Suite
    PROVE  GatesInv'
<1>1. ControlInv /\ WorldInv /\ QueueInv /\ UpInv /\ UnseededInv /\ Gate \in {2, 3, 4}
  BY DEF GatesInv, ControlInv
<1>2. Valid \cup Poison \subseteq Rows
  BY DEF Rows
<1>3. CASE Gate = 2
  <2>1. /\ ControlInv' /\ WorldInv' /\ QueueInv' /\ UNCHANGED <<version, up>> /\ Inv2'
        /\ trouble \subseteq trouble' /\ (Gate' = Gate \/ NextGate)
    BY <1>1, <1>3, Gate2Steps DEF GatesInv
  <2>2. UpInv' /\ UnseededInv'
    BY <1>1, <1>3, <2>1 DEF UpInv, UnseededInv
  <2> QED
    BY <1>1, <1>3, <2>1, <2>2, NextGateHasItsInv DEF GatesInv
<1>4. CASE Gate = 3
  <2>1. /\ ControlInv' /\ WorldInv' /\ QueueInv' /\ Inv3' /\ UpInv' /\ trouble \subseteq trouble'
        /\ \A r \in Rows : version[r] = 0 => version'[r] = 0
        /\ Gate' = Gate \/ NextGate
    BY <1>1, <1>4, Gate3Steps DEF GatesInv
  <2>2. UnseededInv'
    BY <1>1, <1>2, <1>4, <2>1 DEF UnseededInv
  <2> QED
    BY <1>1, <1>4, <2>1, <2>2, NextGateHasItsInv DEF GatesInv
<1>5. CASE Gate = 4
  <2>1. /\ ControlInv' /\ WorldInv' /\ QueueInv' /\ Inv4' /\ UnseededInv' /\ UNCHANGED up
        /\ trouble \subseteq trouble' /\ Gate' = 4
    BY <1>1, <1>5, Gate4Steps DEF GatesInv
  <2>2. UpInv'
    BY <1>1, <1>5, <2>1 DEF UpInv
  <2> QED
    BY <2>1, <2>2 DEF GatesInv
<1> QED
  BY <1>1, <1>3, <1>4, <1>5

LEMMA WorldKeepsGates ==
    ASSUME GatesInv, World, UNCHANGED g
    PROVE  GatesInv'
<1>1. ControlInv /\ WorldInv /\ QueueInv /\ UpInv /\ UnseededInv
  BY DEF GatesInv
<1>2. WorldInv' /\ QueueInv' /\ Gentle /\ UNCHANGED up
  BY <1>1, WorldGoesOn DEF GoesGently
<1>3. ControlInv' /\ UnseededInv' /\ Gate' = Gate
  BY <1>1, <1>2 DEF ControlInv, UnseededInv, Gate, Gentle
<1>4. UpInv'
  BY <1>1, <1>2 DEF UpInv, Gentle, Gate
<1>5. Gate = 2 => Inv2'
  BY <1>1, <1>2, WorldKeepsInv2 DEF GatesInv
<1>6. Gate = 3 => Inv3'
  BY <1>1, <1>2, WorldKeepsInv3 DEF GatesInv
<1>7. Gate = 4 => Inv4'
  BY <1>1, <1>2, WorldKeepsInv4 DEF GatesInv
<1> QED
  BY <1>2, <1>3, <1>4, <1>5, <1>6, <1>7 DEF GatesInv

LEMMA LookingKeepsGates ==
    ASSUME GatesInv, Looks, UNCHANGED <<up, g>>
    PROVE  GatesInv'
<1>1. ControlInv /\ WorldInv /\ QueueInv /\ UpInv /\ UnseededInv /\ UNCHANGED version
  BY DEF GatesInv, Looks
<1>2. WorldInv' /\ QueueInv' /\ Gentle
  BY <1>1, LooksIsGentle
<1>3. ControlInv' /\ UnseededInv' /\ UpInv' /\ Gate' = Gate
  BY <1>1, <1>2 DEF ControlInv, UnseededInv, UpInv, Gate, Gentle
<1>4. /\ Gate = 2 => Inv2'
      /\ Gate = 3 => Inv3'
      /\ Gate = 4 => Inv4'
  BY <1>1, <1>2, WorldKeepsInv2, WorldKeepsInv3, WorldKeepsInv4 DEF GatesInv
<1> QED
  BY <1>2, <1>3, <1>4 DEF GatesInv

LEMMA GatesInvHolds == GatesSpec => []GatesInv
<1>1. GatesInit => GatesInv
  BY GatesInitially
<1>2. GatesInv /\ [GatesNext]_gateVars => GatesInv'
  <2> SUFFICES ASSUME GatesInv, [GatesNext]_gateVars PROVE GatesInv'
    OBVIOUS
  <2>1. CASE Suite
    BY <2>1, SuiteKeepsGates
  <2>2. CASE World /\ UNCHANGED g
    BY <2>2, WorldKeepsGates
  <2>3. CASE Report /\ UNCHANGED g
    <3>1. Looks /\ UNCHANGED up
      BY <2>3 DEF Report, Looks, sinkVars, queueVars
    <3> QED
      BY <2>3, <3>1, LookingKeepsGates
  <2>4. CASE UNCHANGED gateVars
    BY <2>4, StillLooks, LookingKeepsGates DEF gateVars
  <2> QED
    BY <2>1, <2>2, <2>3, <2>4 DEF GatesNext
<1> QED
  BY <1>1, <1>2, PTL DEF GatesSpec

(* What a PASS of gate 2 says of the rows and not only of the numbers,     *)
(* which are read at different times while the runners, a replay, other    *)
(* writers of the table and the consumer go on: unless an _mget failed, no *)
(* more rows are lost than were inserted after the gate had counted the    *)
(* source or indexed after it had found them quarantined and absent.       *)
THEOREM ParityIsTrue == GatesSpec => []ParityMeansAccounted
<1>1. GatesInv => ParityMeansAccounted
  BY ParityAccounts DEF ParityMeansAccounted, GatesInv, Passes
<1> QED
  BY <1>1, GatesInvHolds, PTL

(* What a PASS of gate 3 says of the rows: the index took every row the    *)
(* gate changed during the outage, by its canaries too, at the version it  *)
(* was given or a later one, unless an _mget failed.  It may not be what   *)
(* the index has at the end: requests are executed late and replays write  *)
(* version 1, in this model as in the code.                                *)
THEOREM OutageLosesNothing == GatesSpec => []PassMeansLanded
<1>1. GatesInv => PassMeansLanded
  BY DEF GatesInv, Passes, PassMeansLanded, Inv3, Verdict3Inv, AllLanded
<1> QED
  BY <1>1, GatesInvHolds, PTL

(* Gate 3 leaves Elasticsearch running in whatever way it ends, by a       *)
(* verdict, at its deadline or by an error: only a docker start that fails *)
(* leaves it stopped.                                                      *)
THEOREM ReceiverIsRestored == GatesSpec => []ReceiverLeftUp
<1>1. GatesInv => ReceiverLeftUp
  BY DEF GatesInv, ReceiverLeftUp, UpInv, Owing, At
<1> QED
  BY <1>1, GatesInvHolds, PTL

(* A PASS of gate 4 is true of the rows and not only of the numbers: its   *)
(* valid rows are indexed, its poison pills are quarantined and not        *)
(* indexed, if nothing but the batch was on its way to the index and       *)
(* nobody else wrote or replayed an entry.                                 *)
THEOREM IsolationIsTrue == GatesSpec => []IsolationProved
<1>1. GatesInv => IsolationProved
  <2> SUFFICES ASSUME GatesInv, Passes(4), g.clean, Alone
               PROVE  /\ \A r \in Valid : index[r] > 0
                      /\ \A r \in Poison : index[r] = 0 /\ entry[r] = "PENDING"
    BY DEF IsolationProved, Alone
  <2>1. Isolated
    BY DEF GatesInv, Passes, Inv4, Verdict4Inv
  <2>2. \A r \in Poison : index[r] = 0
    BY DEF GatesInv, QueueInv, Alone
  <2> QED
    BY <2>1, <2>2 DEF Isolated
<1> QED
  BY <1>1, GatesInvHolds, PTL
=============================================================================
