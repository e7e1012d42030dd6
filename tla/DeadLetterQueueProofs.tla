------------------------ MODULE DeadLetterQueueProofs ------------------------
(***************************************************************************)
(* Proofs about DeadLetterQueue, for any entries, targets and batch sizes, *)
(* any number of requests at once and any number of failures.              *)
(***************************************************************************)
EXTENDS DeadLetterQueue, FiniteSetTheorems, TLAPS

----------------------------------------------------------------------------
(* Types *)

Names   == {"ELASTICSEARCH", "RABBITMQ"}
States  == {"NONE", "PENDING", "RESOLVED"}
Rows    == [status : States, content : Nat, retries : Nat, delivered : SUBSET Names]
Writes  == [record : Records, content : Nat, version : Nat]
Waiting == {"idle", "list", "summary"}
Working == {"get", "es", "rmq", "resolve", "fail", "caught"}
Jobs    == [pc : Waiting \cup Working, all : BOOLEAN, todo : Seq(Entries), size : Nat,
            passes : 0 .. MaxIterations, resolved : Nat, failed : Nat, owed : SUBSET Entries,
            barren : BOOLEAN]

(* A job that may ask for the head of its list has one, and one that may   *)
(* list again has a pass left.                                             *)
JobOK(j) ==
    /\ j \in Jobs
    /\ j.pc \in Waiting <=> j.todo = <<>>
    /\ j.pc = "list" => j.passes < MaxIterations

DataTyped ==
    /\ latest \in [Records -> 1 .. MaxVersion + 1]
    /\ late \cup published \subseteq Writes
    /\ entry \in [Entries -> Rows]

JobsTyped ==
    /\ job \in [Requests -> Jobs]
    /\ \A q \in Requests : JobOK(job[q])

TypeInv == DataTyped /\ JobsTyped

LEMMA SinksTyped ==
    \A e \in Entries : Sinks(e) \subseteq Names
BY QueueAssumption DEF Sinks, Names

LEMMA IdleOK == JobOK(Idle)
BY BoundsAssumption DEF JobOK, Jobs, Idle, Waiting, Working

(* A list of pending entries, none or several. *)
LEMMA BatchesTyped ==
    ASSUME NEW s \in Batches
    PROVE  s \in Seq(Entries)
<1> DEFINE n == Min({BatchSize, Cardinality(Pending)})
<1>1. IsFiniteSet(Pending) /\ Cardinality(Pending) \in Nat /\ BatchSize \in Nat
  <2>1. Pending \subseteq Entries
    BY DEF Pending
  <2> QED
    BY <2>1, QueueAssumption, BoundsAssumption, FS_Subset, FS_CardinalityType
<1>2. n \in Nat
  <2>1. \E x \in {BatchSize, Cardinality(Pending)} :
          \A y \in {BatchSize, Cardinality(Pending)} : x <= y
    BY <1>1
  <2>2. n \in {BatchSize, Cardinality(Pending)}
    BY <2>1 DEF Min
  <2> QED
    BY <1>1, <2>2
<1>3. s \in [1 .. n -> Pending]
  BY DEF Batches
<1>4. s \in [1 .. n -> Entries]
  BY <1>3 DEF Pending
<1> HIDE DEF n
<1> QED
  BY <1>2, <1>4

LEMMA TailTyped ==
    ASSUME NEW s \in Seq(Entries), s # <<>>
    PROVE  Head(s) \in Entries /\ Tail(s) \in Seq(Entries)
OBVIOUS

(* Whatever retryEntry returned, the job goes on with the next entry, the  *)
(* next list, or ends.                                                     *)
LEMMA ReturnedOK ==
    ASSUME NEW j, JobOK(j), j.pc \in Working, NEW ok \in BOOLEAN
    PROVE  /\ JobOK(Returned(j, ok))
           /\ Returned(j, ok).pc \in Waiting \cup {"get"}
<1> DEFINE d == IF ok THEN 1 ELSE 0
           f == IF ok THEN 0 ELSE 1
           counted == [j EXCEPT !.resolved = @ + IF ok THEN 1 ELSE 0,
                                !.failed = @ + IF ok THEN 0 ELSE 1,
                                !.todo = Tail(@), !.owed = @ \ {Head(j.todo)},
                                !.barren = @ /\ ~ok]
<1>1. j \in Jobs /\ j.todo # <<>>
  BY DEF JobOK, Waiting, Working
<1>2. Tail(j.todo) \in Seq(Entries)
  BY <1>1, TailTyped DEF Jobs
<1>3. j.resolved + d \in Nat /\ j.failed + f \in Nat
  BY <1>1 DEF Jobs
<1>4. (j.barren /\ ~ok) \in BOOLEAN
  OBVIOUS
<1>5. counted \in Jobs /\ counted.passes = j.passes /\ counted.pc = j.pc
  BY <1>1, <1>2, <1>3, <1>4 DEF Jobs
<1> HIDE DEF counted
<1>6. CASE ~j.all
  BY <1>6, IdleOK DEF Returned, Idle, Waiting
<1>7. CASE j.all /\ counted.todo # <<>>
  <2>1. Returned(j, ok) = [counted EXCEPT !.pc = "get"]
    BY <1>7 DEF Returned, counted
  <2> QED
    BY <1>5, <1>7, <2>1 DEF JobOK, Jobs, Waiting, Working
<1>8. CASE j.all /\ counted.todo = <<>> /\ LastPass(counted)
  <2>1. Returned(j, ok) = [counted EXCEPT !.pc = "summary"]
    BY <1>8 DEF Returned, counted
  <2> QED
    BY <1>5, <1>8, <2>1 DEF JobOK, Jobs, Waiting, Working
<1>9. CASE j.all /\ counted.todo = <<>> /\ ~LastPass(counted)
  <2>1. Returned(j, ok) = [counted EXCEPT !.pc = "list"]
    BY <1>9 DEF Returned, counted
  <2>2. counted.passes < MaxIterations
    <3>1. counted.passes \in 0 .. MaxIterations /\ counted.passes # MaxIterations
      BY <1>5, <1>9 DEF Jobs, LastPass
    <3> QED
      BY <3>1, BoundsAssumption
  <2> QED
    BY <1>5, <1>9, <2>1, <2>2 DEF JobOK, Jobs, Waiting, Working
<1> QED
  BY <1>6, <1>7, <1>8, <1>9

LEMMA GotoOK ==
    ASSUME NEW j, JobOK(j), j.pc \in Working, NEW label \in Working
    PROVE  JobOK([j EXCEPT !.pc = label])
BY DEF JobOK, Jobs, Waiting, Working

LEMMA FirstSendOK ==
    \A S : FirstSend(S) \in {"es", "rmq", "resolve"}
BY DEF FirstSend

LEMMA ReplayedTyped ==
    ASSUME TypeInv, NEW e \in Entries
    PROVE  Replayed(e) \in Writes
<1>1. entry[e].content \in Nat /\ RecordOf[e] \in Records
  BY DEF TypeInv, DataTyped, Rows, Records
<1> QED
  BY <1>1 DEF Replayed, Write, Writes

(* A request that is at work has an entry to work on. *)
LEMMA WorkTyped ==
    ASSUME TypeInv, NEW q \in Requests, job[q].pc \in Working
    PROVE  Head(job[q].todo) \in Entries
<1>1. JobOK(job[q])
  BY DEF TypeInv, JobsTyped
<1>2. job[q].todo \in Seq(Entries) /\ job[q].todo # <<>>
  BY <1>1 DEF JobOK, Jobs, Waiting, Working
<1> QED
  BY <1>2, TailTyped

LEMMA TypeInit == Init => TypeInv
<1> SUFFICES ASSUME Init PROVE TypeInv
  OBVIOUS
<1>1. latest \in [Records -> 1 .. MaxVersion + 1]
  BY BoundsAssumption DEF Init
<1>2. entry \in [Entries -> Rows]
  BY DEF Init, Rows, NoEntry, States, Names
<1>3. JobsTyped
  BY IdleOK DEF Init, JobsTyped, JobOK
<1> QED
  BY <1>1, <1>2, <1>3 DEF Init, TypeInv, DataTyped

(* A step of a request, seen from its job: one of the outcomes below. *)
LEMMA JobStep ==
    ASSUME TypeInv, NEW q \in Requests, Step(q)
    PROVE  \E j : JobOK(j) /\ job' = [job EXCEPT ![q] = j]
<1>0. job \in [Requests -> Jobs] /\ JobOK(job[q])
  BY DEF TypeInv, JobsTyped
<1> DEFINE e == Head(job[q].todo)
<1>1. CASE List(q)
  <2> DEFINE Listed(s) == IF s = <<>> THEN Idle ELSE NextPass(job[q], s)
  <2>0. CASE SelectFails(q)
    BY <2>0, IdleOK DEF SelectFails
  <2> SUFFICES ASSUME ~SelectFails(q) PROVE \E j : JobOK(j) /\ job' = [job EXCEPT ![q] = j]
    BY <2>0
  <2>1. PICK s \in Batches : job' = [job EXCEPT ![q] = Listed(s)]
    BY <1>1 DEF List
  <2>2. s \in Seq(Entries) /\ Len(s) \in Nat
    BY BatchesTyped
  <2>3. job[q].passes + 1 \in 0 .. MaxIterations
    BY <1>0, <1>1, BoundsAssumption DEF List, JobOK, Jobs
  <2>4. ASSUME s # <<>> PROVE JobOK(NextPass(job[q], s))
    BY <1>0, <2>2, <2>3, <2>4 DEF NextPass, JobOK, Jobs, Waiting, Working
  <2>5. JobOK(Listed(s))
    BY <2>4, IdleOK
  <2> HIDE DEF Listed
  <2> QED
    BY <2>1, <2>5
<1>2. CASE Get(q)
  <2> DEFINE new == CASE entry[e].status = "RESOLVED" -> Returned(job[q], TRUE)
                      [] entry[e].status = "PENDING"  -> [job[q] EXCEPT !.pc = FirstSend(Sinks(e))]
                      [] OTHER                        -> Returned(job[q], FALSE)
  <2>0. CASE SelectFails(q)
    BY <2>0, IdleOK DEF SelectFails
  <2> SUFFICES ASSUME ~SelectFails(q) PROVE \E j : JobOK(j) /\ job' = [job EXCEPT ![q] = j]
    BY <2>0
  <2>1. job' = [job EXCEPT ![q] = new]
    BY <1>2 DEF Get
  <2>2. job[q].pc \in Working
    BY <1>2 DEF Get, Working
  <2>3. JobOK(Returned(job[q], TRUE)) /\ JobOK(Returned(job[q], FALSE))
    BY <1>0, <2>2, ReturnedOK
  <2>4. JobOK([job[q] EXCEPT !.pc = FirstSend(Sinks(e))])
    <3>1. FirstSend(Sinks(e)) \in Working
      BY FirstSendOK DEF Working
    <3> QED
      BY <1>0, <2>2, <3>1, GotoOK
  <2>5. JobOK(new)
    BY <2>3, <2>4
  <2> HIDE DEF new
  <2> QED
    BY <2>1, <2>5
<1>3. CASE SendIndex(q) \/ SendQueue(q)
  <2>1. PICK label \in Working : job' = [job EXCEPT ![q].pc = label]
    BY <1>3, FirstSendOK DEF SendIndex, SendQueue, Goto, AfterIndex, AfterRejection, Working
  <2>2. JobOK([job[q] EXCEPT !.pc = label])
    <3>1. job[q].pc \in Working
      BY <1>3 DEF SendIndex, SendQueue, Working
    <3> QED
      BY <1>0, <3>1, GotoOK
  <2>3. job' = [job EXCEPT ![q] = [job[q] EXCEPT !.pc = label]]
    BY <2>1
  <2> QED
    BY <2>2, <2>3
<1>4. CASE Resolve(q)
  <2>1. job[q].pc \in Working
    BY <1>4 DEF Resolve, Working
  <2>2. \/ job' = [job EXCEPT ![q] = Returned(job[q], TRUE)]
        \/ job' = [job EXCEPT ![q] = [job[q] EXCEPT !.pc = "caught"]]
    BY <1>4 DEF Resolve, Update
  <2>3. JobOK(Returned(job[q], TRUE))
    BY <1>0, <2>1, ReturnedOK
  <2>4. JobOK([job[q] EXCEPT !.pc = "caught"])
    <3>1. "caught" \in Working
      BY DEF Working
    <3> QED
      BY <1>0, <2>1, <3>1, GotoOK
  <2> QED
    BY <2>2, <2>3, <2>4
<1>5. CASE Fail(q)
  <2>1. job[q].pc \in Working
    BY <1>5 DEF Fail, Working
  <2>2. \/ job' = [job EXCEPT ![q] = Returned(job[q], FALSE)]
        \/ job' = [job EXCEPT ![q] = [job[q] EXCEPT !.pc = "caught"]]
        \/ job' = [job EXCEPT ![q] = Idle]
    BY <1>5 DEF Fail
  <2>3. JobOK(Returned(job[q], FALSE))
    BY <1>0, <2>1, ReturnedOK
  <2>4. JobOK([job[q] EXCEPT !.pc = "caught"])
    <3>1. "caught" \in Working
      BY DEF Working
    <3> QED
      BY <1>0, <2>1, <3>1, GotoOK
  <2> QED
    BY <2>2, <2>3, <2>4, IdleOK
<1>6. CASE Summary(q)
  BY <1>6, IdleOK DEF Summary
<1> QED
  BY <1>1, <1>2, <1>3, <1>4, <1>5, <1>6 DEF Step

LEMMA JobsNext ==
    ASSUME TypeInv, Next
    PROVE  JobsTyped'
<1>0. job \in [Requests -> Jobs] /\ \A q \in Requests : JobOK(job[q])
  BY DEF TypeInv, JobsTyped
<1>1. ASSUME NEW q \in Requests, NEW j, JobOK(j), job' = [job EXCEPT ![q] = j]
      PROVE  JobsTyped'
  <2>1. j \in Jobs
    BY <1>1 DEF JobOK
  <2>2. job' \in [Requests -> Jobs]
    BY <1>0, <1>1, <2>1
  <2>3. \A r \in Requests : job'[r] = IF r = q THEN j ELSE job[r]
    BY <1>0, <1>1
  <2>4. \A r \in Requests : JobOK(job'[r])
    BY <1>0, <1>1, <2>3
  <2>5. \A r \in Requests : JobOK(job[r])'
    BY <2>4 DEF JobOK, Jobs
  <2> HIDE DEF JobOK
  <2> QED
    BY <2>2, <2>5 DEF JobsTyped, Jobs
<1>2. ASSUME NEW q \in Requests, Step(q) PROVE JobsTyped'
  BY <1>1, <1>2, JobStep
<1>3. ASSUME NEW q \in Requests, RetryAll(q) PROVE JobsTyped'
  <2> DEFINE j == [Idle EXCEPT !.pc = "list", !.all = TRUE, !.owed = Pending]
  <2>1. job' = [job EXCEPT ![q] = j]
    BY <1>3 DEF RetryAll
  <2>2. Pending \subseteq Entries /\ Idle \in Jobs
    BY IdleOK DEF Pending, JobOK
  <2>3. j \in Jobs
    BY <2>2 DEF Jobs, Waiting
  <2>4. j.pc = "list" /\ j.todo = <<>> /\ j.passes = 0
    BY DEF Idle
  <2>5. JobOK(j)
    BY <2>3, <2>4, BoundsAssumption DEF JobOK, Waiting
  <2> HIDE DEF j
  <2> QED
    BY <1>1, <2>1, <2>5
<1>4. ASSUME NEW q \in Requests, NEW e \in Entries, RetryOne(q, e) PROVE JobsTyped'
  <2> DEFINE j == [Idle EXCEPT !.pc = "get", !.todo = <<e>>]
  <2>1. job' = [job EXCEPT ![q] = j]
    BY <1>4 DEF RetryOne
  <2>2. Idle \in Jobs
    BY IdleOK DEF JobOK
  <2>3. <<e>> \in Seq(Entries) /\ j \in Jobs
    <3>1. <<e>> \in Seq(Entries)
      OBVIOUS
    <3> QED
      BY <2>2, <3>1 DEF Jobs, Working
  <2>4. j.pc = "get" /\ j.todo # <<>>
    BY DEF Idle
  <2>5. JobOK(j)
    BY <2>3, <2>4 DEF JobOK, Waiting
  <2> HIDE DEF j
  <2> QED
    BY <1>1, <2>1, <2>5
<1>5. CASE Runners
  <2>1. job' = job
    BY <1>5 DEF Runners, Mutate, Fetch, Execute, Persist
  <2> QED
    BY <1>0, <2>1 DEF JobsTyped, JobOK, Jobs
<1> QED
  BY <1>2, <1>3, <1>4, <1>5 DEF Next

----------------------------------------------------------------------------
(* What becomes of an entry *)

Work(q) == Head(job[q].todo)

(* Once persisted an entry keeps its status, until a request that stands   *)
(* at markStatus resolves it, and never forgets a delivery.                *)
EntryMoves(e) ==
    /\ entry[e].status # "NONE" =>
         /\ entry'[e].status \in {entry[e].status, "RESOLVED"}
         /\ entry[e].delivered \subseteq entry'[e].delivered
    /\ entry'[e].status = "RESOLVED" =>
         \/ entry[e].status = "RESOLVED"
         \/ \E q \in Requests : job[q].pc = "resolve" /\ Work(q) = e

(* A step of a request writes one entry at most, the one it works on.      *)
LEMMA EntryStep ==
    ASSUME TypeInv, NEW q \in Requests, Step(q)
    PROVE  /\ entry' \in [Entries -> Rows]
           /\ late' \cup published' \subseteq Writes
           /\ \A e \in Entries : EntryMoves(e)
<1>0. entry \in [Entries -> Rows] /\ late \cup published \subseteq Writes
  BY DEF TypeInv, DataTyped
<1> DEFINE e == Work(q)
<1>1. ASSUME UNCHANGED entry
      PROVE  entry' \in [Entries -> Rows] /\ \A d \in Entries : EntryMoves(d)
  BY <1>0, <1>1 DEF EntryMoves
<1>2. ASSUME e \in Entries, NEW new \in Rows, entry' = [entry EXCEPT ![e] = new],
             new.status \in {entry[e].status, "RESOLVED"},
             entry[e].delivered \subseteq new.delivered,
             new.status # entry[e].status => job[q].pc = "resolve"
      PROVE  entry' \in [Entries -> Rows] /\ \A d \in Entries : EntryMoves(d)
  <2>1. entry' \in [Entries -> Rows]
    BY <1>0, <1>2
  <2>2. \A d \in Entries : entry'[d] = IF d = e THEN new ELSE entry[d]
    BY <1>0, <1>2
  <2> HIDE DEF e
  <2>3. EntryMoves(e)
    <3>1. entry'[e] = new
      BY <1>2, <2>2
    <3>2. new.status = "RESOLVED" =>
            entry[e].status = "RESOLVED" \/ \E r \in Requests : job[r].pc = "resolve" /\ Work(r) = e
      BY <1>2 DEF e
    <3> QED
      BY <1>2, <3>1, <3>2 DEF EntryMoves
  <2>4. ASSUME NEW d \in Entries, d # e PROVE EntryMoves(d)
    BY <2>2, <2>4 DEF EntryMoves
  <2> QED
    BY <2>1, <2>3, <2>4
<1>3. CASE List(q) \/ Get(q) \/ Summary(q)
  BY <1>0, <1>1, <1>3 DEF List, Get, Summary
<1>4. job[q].pc \in Working => e \in Entries /\ entry[e] \in Rows
  BY <1>0, WorkTyped DEF Work
<1>5. ASSUME e \in Entries, NEW s \in Names, Delivered(e, s)
      PROVE  entry' \in [Entries -> Rows] /\ \A d \in Entries : EntryMoves(d)
  <2> DEFINE new == [entry[e] EXCEPT !.delivered = @ \cup {s}]
  <2>1. entry[e] \in Rows
    BY <1>0, <1>5
  <2>2. new \in Rows /\ new.status = entry[e].status /\ entry[e].delivered \subseteq new.delivered
    BY <1>5, <2>1 DEF Rows
  <2>3. entry' = [entry EXCEPT ![e] = new]
    BY <1>0, <1>5 DEF Delivered
  <2> HIDE DEF new, e
  <2> QED
    BY <1>2, <1>5, <2>2, <2>3
<1>6. CASE SendIndex(q)
  <2>1. e \in Entries
    BY <1>4, <1>6 DEF SendIndex, Working
  <2>2. UNCHANGED entry \/ Delivered(e, "ELASTICSEARCH")
    BY <1>6 DEF SendIndex, Work
  <2>3. published' = published /\ late' \subseteq late \cup {Replayed(e)}
    BY <1>6 DEF SendIndex, Work
  <2>4. Replayed(e) \in Writes
    BY <2>1, ReplayedTyped
  <2> HIDE DEF e
  <2> QED
    BY <1>0, <1>1, <1>5, <2>1, <2>2, <2>3, <2>4 DEF Names
<1>7. CASE SendQueue(q)
  <2>1. e \in Entries
    BY <1>4, <1>7 DEF SendQueue, Working
  <2>2. UNCHANGED entry \/ Delivered(e, "RABBITMQ")
    BY <1>7 DEF SendQueue, Work
  <2>3. late' = late /\ published' \subseteq published \cup {Replayed(e)}
    BY <1>7 DEF SendQueue, Work
  <2>4. Replayed(e) \in Writes
    BY <2>1, ReplayedTyped
  <2> HIDE DEF e
  <2> QED
    BY <1>0, <1>1, <1>5, <2>1, <2>2, <2>3, <2>4 DEF Names
<1>8. CASE Resolve(q)
  <2> DEFINE new == [entry[e] EXCEPT !.status = "RESOLVED"]
  <2>1. e \in Entries /\ entry[e] \in Rows
    BY <1>4, <1>8 DEF Resolve, Working
  <2>2. new \in Rows /\ new.status = "RESOLVED" /\ new.delivered = entry[e].delivered
    BY <2>1 DEF Rows, States
  <2>3. entry' = [entry EXCEPT ![e] = new] \/ UNCHANGED entry
    BY <1>8 DEF Resolve, Update, Work
  <2>4. job[q].pc = "resolve" /\ UNCHANGED <<late, published>>
    BY <1>8 DEF Resolve
  <2> HIDE DEF new, e
  <2> QED
    BY <1>0, <1>1, <1>2, <2>1, <2>2, <2>3, <2>4
<1>9. CASE Fail(q)
  <2> DEFINE new == RetryFailed(entry[e])
  <2>1. e \in Entries /\ entry[e] \in Rows
    BY <1>4, <1>9 DEF Fail, Working
  <2>2. new \in Rows /\ new.status = entry[e].status /\ new.delivered = entry[e].delivered
    BY <2>1 DEF Rows, RetryFailed
  <2>3. entry' = [entry EXCEPT ![e] = new] \/ UNCHANGED entry
    BY <1>9 DEF Fail, Work
  <2>4. UNCHANGED <<late, published>>
    BY <1>9 DEF Fail
  <2> HIDE DEF new, e
  <2> QED
    BY <1>0, <1>1, <1>2, <2>1, <2>2, <2>3, <2>4
<1> QED
  BY <1>3, <1>6, <1>7, <1>8, <1>9 DEF Step

LEMMA LatestStep ==
    ASSUME TypeInv, Next
    PROVE  latest' \in [Records -> 1 .. MaxVersion + 1]
<1>0. latest \in [Records -> 1 .. MaxVersion + 1] /\ MaxVersion \in Nat
  BY BoundsAssumption DEF TypeInv, DataTyped
<1>1. ASSUME NEW r \in Records, Mutate(r) PROVE latest' \in [Records -> 1 .. MaxVersion + 1]
  <2>1. latest[r] + 1 \in 1 .. MaxVersion + 1
    BY <1>0, <1>1 DEF Mutate
  <2> QED
    BY <1>0, <1>1, <2>1 DEF Mutate
<1>2. ASSUME NEW q \in Requests, Step(q) PROVE latest' = latest
  BY <1>2 DEF Step, List, Get, SendIndex, SendQueue, Resolve, Fail, Summary
<1> QED
  BY <1>0, <1>1, <1>2 DEF Next, Runners, Fetch, Execute, Persist, RetryAll, RetryOne

LEMMA EntriesNext ==
    ASSUME TypeInv, Next
    PROVE  DataTyped' /\ \A e \in Entries : EntryMoves(e)
<1>0. /\ latest \in [Records -> 1 .. MaxVersion + 1]
      /\ entry \in [Entries -> Rows] /\ late \cup published \subseteq Writes
  BY DEF TypeInv, DataTyped
<1>1. ASSUME NEW q \in Requests, Step(q) PROVE DataTyped' /\ \A e \in Entries : EntryMoves(e)
  BY <1>1, EntryStep, LatestStep DEF DataTyped
<1>2. ASSUME UNCHANGED entry PROVE \A e \in Entries : EntryMoves(e)
  BY <1>2 DEF EntryMoves
<1>3. ASSUME NEW r \in Records, Mutate(r) \/ Fetch(r)
      PROVE  DataTyped' /\ \A e \in Entries : EntryMoves(e)
  <2>1. UNCHANGED entry /\ late' \cup published' \subseteq late \cup published \cup
                             {Write(r, latest[r], latest[r])}
    BY <1>3 DEF Mutate, Fetch
  <2>2. Write(r, latest[r], latest[r]) \in Writes
    <3>1. latest[r] \in Nat
      BY <1>0, BoundsAssumption
    <3> QED
      BY <3>1 DEF Write, Writes
  <2> QED
    BY <1>0, <1>2, <2>1, <2>2, LatestStep DEF DataTyped
<1>4. ASSUME NEW w \in late, Execute(w) PROVE DataTyped' /\ \A e \in Entries : EntryMoves(e)
  BY <1>0, <1>2, <1>4 DEF Execute, DataTyped
<1>5. ASSUME NEW t, Persist(t) PROVE DataTyped' /\ \A e \in Entries : EntryMoves(e)
  <2> DEFINE new(e) == [NoEntry EXCEPT !.status = "PENDING", !.content = latest[RecordOf[e]]]
             inserted == {e \in Entries : CreatedAt[e] = t}
  <2>1. /\ \A e \in inserted : entry[e] = NoEntry
        /\ entry' = [e \in Entries |-> IF e \in inserted THEN new(e) ELSE entry[e]]
        /\ UNCHANGED <<latest, late, published>>
    BY <1>5 DEF Persist
  <2>2. ASSUME NEW e \in Entries PROVE new(e) \in Rows /\ new(e).status = "PENDING"
    <3>1. latest[RecordOf[e]] \in Nat
      BY <1>0, BoundsAssumption DEF Records
    <3> QED
      BY <3>1 DEF Rows, NoEntry, States
  <2>3. NoEntry.status = "NONE"
    BY DEF NoEntry
  <2> HIDE DEF new, inserted
  <2>4. entry' \in [Entries -> Rows]
    BY <1>0, <2>1, <2>2
  <2>5. ASSUME NEW e \in Entries PROVE EntryMoves(e)
    <3>1. CASE e \in inserted
      BY <2>1, <2>2, <2>3, <3>1 DEF EntryMoves
    <3>2. CASE e \notin inserted
      BY <2>1, <3>2 DEF EntryMoves
    <3> QED
      BY <3>1, <3>2
  <2> QED
    BY <1>0, <2>1, <2>4, <2>5 DEF DataTyped
<1>6. ASSUME NEW q \in Requests, RetryAll(q) \/ \E e \in Entries : RetryOne(q, e)
      PROVE  DataTyped' /\ \A e \in Entries : EntryMoves(e)
  BY <1>0, <1>2, <1>6 DEF RetryAll, RetryOne, DataTyped
<1> QED
  BY <1>1, <1>3, <1>4, <1>5, <1>6 DEF Next, Runners

LEMMA TypeInvariant == Spec => []TypeInv
<1>1. TypeInv /\ Next => TypeInv'
  BY JobsNext, EntriesNext DEF TypeInv
<1>2. TypeInv /\ UNCHANGED vars => TypeInv'
  BY DEF TypeInv, DataTyped, JobsTyped, JobOK, Jobs, vars, boundVars
<1> QED
  BY <1>1, <1>2, TypeInit, PTL DEF Spec

(* Every variable keeps its type: an entry has one of three statuses, a    *)
(* request that is at work has an entry to work on, and a request for all  *)
(* of them makes at most MaxIterations passes (dlq.replayer.ts:148-171).   *)
THEOREM TypeCorrect == Spec => []TypeOK
<1>1. TypeInv => TypeOK
  BY DEF TypeInv, DataTyped, JobsTyped, JobOK, Jobs, Rows, States, Names, Writes, Waiting, Working,
         TypeOK
<1> QED
  BY <1>1, TypeInvariant, PTL

----------------------------------------------------------------------------
(* RESOLVED *)

(* Where a request stands tells which sinks have taken its entry.          *)
WorkInv(q) ==
    /\ job[q].pc \in Working \ {"get"} => entry[Work(q)].status # "NONE"
    /\ job[q].pc = "rmq" => Sinks(Work(q)) \ {"RABBITMQ"} \subseteq entry[Work(q)].delivered
    /\ job[q].pc = "resolve" => Sinks(Work(q)) \subseteq entry[Work(q)].delivered

DeliveryInv ==
    /\ ResolvedMeansDelivered
    /\ \A q \in Requests : WorkInv(q)

LEMMA WorkStays ==
    ASSUME TypeInv, NEW q \in Requests, WorkInv(q), job'[q] = job[q],
           \A e \in Entries : EntryMoves(e)
    PROVE  WorkInv(q)'
<1>1. Work(q)' = Work(q)
  BY DEF Work
<1>2. CASE job[q].pc \notin Working
  BY <1>2 DEF WorkInv, Working
<1>3. CASE job[q].pc \in Working
  <2>1. Work(q) \in Entries
    BY <1>3, WorkTyped DEF Work
  <2>2. EntryMoves(Work(q))
    BY <2>1
  <2>3. Sinks(Work(q))' = Sinks(Work(q))
    BY <1>1 DEF Sinks
  <2> QED
    BY <1>1, <2>2, <2>3 DEF WorkInv, EntryMoves, Working
<1> QED
  BY <1>2, <1>3

LEMMA WorkStep ==
    ASSUME TypeInv, NEW q \in Requests, WorkInv(q), Step(q)
    PROVE  WorkInv(q)'
<1>0. /\ job \in [Requests -> Jobs] /\ JobOK(job[q]) /\ entry \in [Entries -> Rows]
      /\ job' \in [Requests -> Jobs]
  <2>1. PICK j : JobOK(j) /\ job' = [job EXCEPT ![q] = j]
    BY JobStep
  <2> QED
    BY <2>1 DEF TypeInv, JobsTyped, DataTyped, JobOK
<1> DEFINE e == Work(q)
<1>1. ASSUME job'[q].pc \notin Working \ {"get"} PROVE WorkInv(q)'
  BY <1>1 DEF WorkInv, Working
<1>2. job[q].pc \in Working => e \in Entries /\ EntryMoves(e) /\ Sinks(e) \subseteq Names
  BY WorkTyped, EntryStep, SinksTyped DEF Work
<1>3. ASSUME NEW label, job' = [job EXCEPT ![q].pc = label]
      PROVE  job'[q].pc = label /\ Work(q)' = e /\ Sinks(Work(q))' = Sinks(e)
  <2>1. job'[q] = [job[q] EXCEPT !.pc = label]
    BY <1>0, <1>3
  <2>2. job'[q].pc = label /\ job'[q].todo = job[q].todo
    BY <1>0, <2>1 DEF Jobs
  <2> QED
    BY <2>2 DEF Work, Sinks
<1>4. CASE List(q) \/ Summary(q)
  <2>0. job'[q] = Idle \/ \E s \in Batches : job'[q] = NextPass(job[q], s)
    BY <1>0, <1>4 DEF List, SelectFails, Summary
  <2>1. Idle.pc \in Waiting /\ \A s \in Batches : NextPass(job[q], s).pc = "get"
    <3>1. job[q] \in Jobs
      BY <1>0
    <3> QED
      BY <3>1 DEF NextPass, Idle, Waiting, Jobs
  <2>2. job'[q].pc \in Waiting \cup {"get"}
    BY <2>0, <2>1
  <2> QED
    BY <1>1, <2>2 DEF Waiting, Working
<1>5. CASE Get(q)
  <2>1. job[q].pc = "get"
    BY <1>5 DEF Get
  <2>2. JobOK(job[q]) /\ job[q].pc \in Working
    BY <1>0, <2>1 DEF Working
  <2>3. \/ job'[q] \in {Returned(job[q], TRUE), Returned(job[q], FALSE)}
        \/ entry[e].status = "PENDING" /\ job' = [job EXCEPT ![q].pc = FirstSend(Sinks(e))]
        \/ job'[q] = Idle
    BY <1>0, <1>5 DEF Get, SelectFails, Work
  <2>6. CASE job'[q] = Idle
    BY <1>1, <2>6 DEF Idle, Working
  <2>4. CASE job'[q] \in {Returned(job[q], TRUE), Returned(job[q], FALSE)}
    <3>1. job'[q].pc \in Waiting \cup {"get"}
      BY <2>2, <2>4, ReturnedOK
    <3> QED
      BY <1>1, <3>1 DEF Waiting, Working
  <2>5. CASE entry[e].status = "PENDING" /\ job' = [job EXCEPT ![q].pc = FirstSend(Sinks(e))]
    <3>1. job'[q].pc = FirstSend(Sinks(e)) /\ Work(q)' = e /\ Sinks(Work(q))' = Sinks(e)
      BY <1>3, <2>5
    <3>2. /\ FirstSend(Sinks(e)) = "rmq" => Sinks(e) \ {"RABBITMQ"} = {}
          /\ FirstSend(Sinks(e)) = "resolve" => Sinks(e) = {}
      BY <1>2, <2>2 DEF FirstSend, Names
    <3>3. entry' = entry
      BY <1>5 DEF Get
    <3> HIDE DEF e
    <3> QED
      BY <2>5, <3>1, <3>2, <3>3 DEF WorkInv
  <2> QED
    BY <2>3, <2>4, <2>5, <2>6
<1>6. CASE SendIndex(q)
  <2>1. e \in Entries /\ entry[e].status # "NONE" /\ EntryMoves(e) /\ Sinks(e) \subseteq Names
    BY <1>2, <1>6 DEF SendIndex, WorkInv, Working
  <2>2. PICK label \in {AfterIndex(e), "fail", "caught"} :
          /\ job' = [job EXCEPT ![q].pc = label]
          /\ label \in {"fail", "caught"} \/ Delivered(e, "ELASTICSEARCH")
    BY <1>6 DEF SendIndex, Goto, AfterRejection, Work
  <2>3. job'[q].pc = label /\ Work(q)' = e /\ Sinks(Work(q))' = Sinks(e)
    BY <1>3, <2>2
  <2>4. entry'[e].status # "NONE" /\ entry[e].delivered \subseteq entry'[e].delivered
    BY <2>1 DEF EntryMoves
  <2>5. CASE label \in {"fail", "caught"}
    BY <2>3, <2>4, <2>5 DEF WorkInv
  <2>6. CASE label = AfterIndex(e) /\ Delivered(e, "ELASTICSEARCH")
    <3>1. "ELASTICSEARCH" \in entry'[e].delivered
      BY <1>0, <2>1, <2>6 DEF Delivered, Rows
    <3>2. /\ label = "rmq" => Sinks(e) \ {"RABBITMQ"} \subseteq {"ELASTICSEARCH"}
          /\ label = "resolve" => Sinks(e) \subseteq {"ELASTICSEARCH"}
      BY <2>1, <2>6 DEF AfterIndex, FirstSend, Names
    <3> HIDE DEF e
    <3> QED
      BY <2>3, <2>4, <3>1, <3>2 DEF WorkInv
  <2> QED
    BY <2>2, <2>5, <2>6
<1>7. CASE SendQueue(q)
  <2>1. /\ e \in Entries /\ entry[e].status # "NONE" /\ EntryMoves(e)
        /\ Sinks(e) \ {"RABBITMQ"} \subseteq entry[e].delivered
    BY <1>2, <1>7 DEF SendQueue, WorkInv, Working
  <2>2. PICK label \in {"resolve", "fail", "caught"} :
          /\ job' = [job EXCEPT ![q].pc = label]
          /\ label \in {"fail", "caught"} \/ Delivered(e, "RABBITMQ")
    BY <1>7 DEF SendQueue, Goto, Work
  <2>3. job'[q].pc = label /\ Work(q)' = e /\ Sinks(Work(q))' = Sinks(e)
    BY <1>3, <2>2
  <2>4. entry'[e].status # "NONE" /\ entry[e].delivered \subseteq entry'[e].delivered
    BY <2>1 DEF EntryMoves
  <2>5. label \in {"fail", "caught"} \/ "RABBITMQ" \in entry'[e].delivered
    BY <1>0, <2>1, <2>2 DEF Delivered, Rows
  <2> HIDE DEF e
  <2> QED
    BY <2>1, <2>2, <2>3, <2>4, <2>5 DEF WorkInv
<1>8. CASE Resolve(q) \/ Fail(q)
  <2>1. /\ job[q].pc \in Working /\ e \in Entries /\ entry[e].status # "NONE" /\ EntryMoves(e)
    BY <1>2, <1>8 DEF Resolve, Fail, WorkInv, Working
  <2>2. \/ job' \in {[job EXCEPT ![q] = Returned(job[q], TRUE)],
                     [job EXCEPT ![q] = Returned(job[q], FALSE)], [job EXCEPT ![q] = Idle]}
        \/ job' = [job EXCEPT ![q].pc = "caught"]
        \/ job' = [job EXCEPT ![q] = [job[q] EXCEPT !.pc = "caught"]]
    BY <1>8 DEF Resolve, Update, Fail
  <2>3. \/ job'[q] \in {Returned(job[q], TRUE), Returned(job[q], FALSE), Idle}
        \/ job' = [job EXCEPT ![q].pc = "caught"]
    BY <1>0, <2>2
  <2>4. CASE job'[q] \in {Returned(job[q], TRUE), Returned(job[q], FALSE), Idle}
    <3>0. /\ Returned(job[q], TRUE).pc \in Waiting \cup {"get"}
          /\ Returned(job[q], FALSE).pc \in Waiting \cup {"get"}
          /\ Idle.pc \in Waiting
      BY <1>0, <2>1, ReturnedOK DEF Idle, Waiting
    <3>1. job'[q].pc \in Waiting \cup {"get"}
      BY <2>4, <3>0
    <3> QED
      BY <1>1, <3>1 DEF Waiting, Working
  <2>5. CASE job' = [job EXCEPT ![q].pc = "caught"]
    <3>1. job'[q].pc = "caught" /\ Work(q)' = e /\ Sinks(Work(q))' = Sinks(e)
      BY <1>3, <2>5
    <3> HIDE DEF e
    <3> QED
      BY <2>1, <3>1 DEF WorkInv, EntryMoves
  <2> QED
    BY <2>3, <2>4, <2>5
<1> QED
  BY <1>4, <1>5, <1>6, <1>7, <1>8 DEF Step

LEMMA DeliveryNext ==
    ASSUME TypeInv, DeliveryInv, Next
    PROVE  DeliveryInv'
<1>0. job \in [Requests -> Jobs] /\ \A e \in Entries : EntryMoves(e)
  BY EntriesNext DEF TypeInv, JobsTyped
<1>1. ASSUME NEW e \in Entries, entry'[e].status = "RESOLVED"
      PROVE  Sinks(e) \subseteq entry'[e].delivered
  <2>1. entry[e].status # "NONE" /\ Sinks(e) \subseteq entry[e].delivered
    BY <1>0, <1>1 DEF EntryMoves, DeliveryInv, ResolvedMeansDelivered, WorkInv, Working
  <2> QED
    BY <1>0, <2>1 DEF EntryMoves
<1>2. ASSUME NEW q \in Requests PROVE WorkInv(q)'
  <2>0. WorkInv(q)
    BY DEF DeliveryInv
  <2>1. CASE Step(q)
    BY <2>0, <2>1, WorkStep
  <2>2. ASSUME NEW r \in Requests, Step(r), r # q PROVE WorkInv(q)'
    <3>1. job'[q] = job[q]
      BY <1>0, <2>2, JobStep
    <3> QED
      BY <1>0, <2>0, <3>1, WorkStays
  <2>3. ASSUME NEW r \in Requests, RetryAll(r) \/ \E e \in Entries : RetryOne(r, e)
        PROVE  WorkInv(q)'
    <3>1. job'[q] = job[q] \/ job'[q].pc \in {"list", "get"}
      BY <1>0, <2>3 DEF RetryAll, RetryOne, Idle
    <3>2. CASE job'[q] = job[q]
      BY <1>0, <2>0, <3>2, WorkStays
    <3>3. CASE job'[q].pc \in {"list", "get"}
      BY <3>3 DEF WorkInv, Working
    <3> QED
      BY <3>1, <3>2, <3>3
  <2>4. CASE Runners
    <3>1. job' = job
      BY <2>4 DEF Runners, Mutate, Fetch, Execute, Persist
    <3> QED
      BY <1>0, <2>0, <3>1, WorkStays
  <2> QED
    BY <2>1, <2>2, <2>3, <2>4 DEF Next
<1> QED
  BY <1>1, <1>2 DEF DeliveryInv, ResolvedMeansDelivered, Sinks

LEMMA DeliveryInit == Init => DeliveryInv
BY DEF Init, DeliveryInv, ResolvedMeansDelivered, WorkInv, NoEntry, Idle, Working

LEMMA DeliveryInvariant == Spec => [](TypeInv /\ DeliveryInv)
<1>1. DeliveryInv /\ UNCHANGED vars => DeliveryInv'
  BY DEF DeliveryInv, ResolvedMeansDelivered, WorkInv, Work, vars, boundVars
<1> QED
  BY <1>1, TypeInvariant, DeliveryInit, DeliveryNext, PTL DEF Spec

(* An entry is marked RESOLVED only after every sink it names has taken    *)
(* the record, whichever requests worked on it at once and whatever        *)
(* statement or send failed (dlq.replayer.ts:98-135).                      *)
THEOREM ResolutionIsEarned == Spec => []ResolvedMeansDelivered
BY DeliveryInvariant, PTL DEF DeliveryInv

(* A resolved entry stays resolved, also when a request that read it as    *)
(* PENDING fails after another one resolved it (dlq.store.ts).             *)
THEOREM ResolutionIsFinal == Spec => ResolvedStays
<1>1. TypeInv /\ [Next]_vars =>
        \A e \in Entries : entry[e].status = "RESOLVED" => entry'[e].status = "RESOLVED"
  <2>1. TypeInv /\ Next =>
          \A e \in Entries : entry[e].status = "RESOLVED" => entry'[e].status = "RESOLVED"
    BY EntriesNext DEF EntryMoves
  <2> QED
    BY <2>1 DEF vars
<1> QED
  BY <1>1, TypeInvariant, PTL DEF Spec, ResolvedStays
=============================================================================
