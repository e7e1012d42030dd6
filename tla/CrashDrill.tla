----------------------------- MODULE CrashDrill -----------------------------
(***************************************************************************)
(* Gate 1 of the verification suite, scripts/verify/gate1.js with the      *)
(* helpers of common.js it drives the daemon by, composed with the         *)
(* backfill runner it drills: pre-roll to a window before the last id, a   *)
(* pause, the checkpoint pinned to the start of the window, a SIGKILL in   *)
(* the middle of it, a restart and the verdict.                            *)
(*                                                                         *)
(* The drill takes one step per await; a sleep is the steps of others in   *)
(* between.  A deadline may pass at any round of the loop it bounds, a     *)
(* telemetry request may fail at any time.  Docker works.  The seeding of  *)
(* an empty table, the progress log and the last wait for quiescence,      *)
(* which changes no verdict, are left out.                                 *)
(***************************************************************************)
EXTENDS BackfillRunner, FiniteSetsExt

CONSTANTS
    WindowSizes,    \* values of GATE1_WINDOW_SIZE
    AdvanceRecords  \* DEFAULT_ADVANCE_RECORDS

ASSUME WindowAssumption == WindowSizes \subseteq Nat \ {0} /\ AdvanceRecords \in Nat \ {0}

(* Ids come from a sequence, so that the start of a window is one, and an  *)
(* empty table is seeded before the drill.                                 *)
ASSUME TableAssumption == History # {} /\ \A r \in Rows : 1..r \subseteq Rows

VARIABLE g  \* the locals of runGate1, and pipelineExecutionMode (mode)

drillVars == <<vars, g>>

Null == [status |-> "UNREACHABLE", cursor |-> 0]

(* verdict is the result; unpinned, history: rows below the window start   *)
(* that no sink had when the checkpoint was pinned.                        *)
DrillInit ==
    /\ Init
    /\ \E mode \in {"none", "docker"} :
        g = [pc |-> "baseline", mode |-> mode, existing |-> TRUE, restarted |-> FALSE,
             maxId |-> 0, windowStart |-> 0, tele |-> Null, previousId |-> 0, polled |-> FALSE,
             quiesced |-> FALSE, resumedAt |-> 0, firstSeen |-> 0, final |-> 0,
             verdict |-> "NONE", unpinned |-> {}]

----------------------------------------------------------------------------
(* Steps of the drill *)

(* A step that changes nothing but the locals. *)
Local(new) == g' = new /\ UNCHANGED vars

At(pcs) == g.pc \in pcs

Goes(to) == [g EXCEPT !.pc = to]

Fails == [g EXCEPT !.pc = "finally", !.verdict = "FAIL"]

(* pollTelemetry, in each of the loops. *)
Poll(from_, to) ==
    /\ At({from_})
    /\ \E answer \in {Null} \cup {[status |-> status, cursor |-> lastProcessedId] : x \in {proc} \ {"down"}} :
        Local([Goes(to) EXCEPT !.tele = answer])

Cursor == Max({cp.id, g.tele.cursor})

Says(s) == g.tele.status = s \/ cp.status = s

WindowStart(maxId, size) == IF maxId > size THEN maxId - size ELSE 0

Baseline ==
    /\ At({"baseline"})
    /\ \E size \in WindowSizes :
         Local([Goes("probe") EXCEPT !.maxId = Max(table), !.windowStart = WindowStart(Max(table), size)])

(* Telemetry unreachable: start the daemon, then wait for it. *)
Ensure ==
    \/ Poll("probe", "probed")
    \/ At({"probed"}) /\ Local(Goes(IF g.tele = Null THEN "start" ELSE "first"))
    \/ Poll("boot", "booted")
    \/ At({"booted"}) /\ Local(IF g.tele = Null THEN Fails ELSE Goes("first"))
    \/ At({"booted"}) /\ g.tele = Null /\ Local(Goes("boot"))

(* Faulty: no pre-roll. *)
NeedsPreRollNever == FALSE

NeedsPreRoll == cp.id < g.windowStart /\ cp.status # "COMPLETED"

Onward == Goes(IF g.tele.status = "PAUSED" THEN "unpause" ELSE "preroll")

(* Faulty: while (true) without its deadline. *)
PreRolledForever ==
    IF Cursor >= g.windowStart \/ Says("COMPLETED") THEN {Goes("pause")}
    ELSE IF Says("FAILED") THEN {Fails} ELSE {Onward}

PreRolled ==
    IF Cursor >= g.windowStart \/ Says("COMPLETED") THEN {Goes("pause")}
    ELSE IF Says("FAILED") THEN {Fails} ELSE {Onward, Fails}

PreRoll ==
    \/ At({"first"}) /\ Local(Goes(IF NeedsPreRoll THEN "preroll" ELSE "pause"))
    \/ Poll("preroll", "prerolled")
    \/ At({"prerolled"}) /\ \E new \in PreRolled : Local(new)

(* controlBackfill('resume'), acknowledged or not, or lost on its way. *)
SendResume(from_, acknowledged, unreachable) ==
    /\ At({from_})
    /\ \/ \E l \in Loops : Resume(l) /\ g' \in {Goes(acknowledged), Goes(unreachable)}
       \/ Local(Goes(unreachable))

(* controlBackfill('pause'): its UPDATE answers, or the request times out. *)
SendPause ==
    \/ At({"pause"}) /\ Pause /\ g' = Goes("pausing")
    \/ At({"pause"}) /\ Local(Goes("quiesceKill"))
    \/ /\ At({"pausing"})
       /\ \/ pausing = 0 /\ Local([Goes("settle") EXCEPT !.polled = FALSE])
          \/ Local(Goes("quiesceKill"))

(* Idle by its status, and two reads of the checkpoint that agree. *)
Settled ==
    /\ g.tele.status \in {"UNREACHABLE", "PAUSED", "COMPLETED"}
    /\ g.polled /\ g.previousId = cp.id

Settle ==
    \/ Poll("settle", "settled")
    \/ /\ At({"settled"})
       /\ IF Settled THEN Local([Goes("pin") EXCEPT !.quiesced = TRUE])
          ELSE \/ Local([Goes("settle") EXCEPT !.polled = TRUE, !.previousId = cp.id])
               \/ Local(Goes("quiesceKill"))

(* killPipelineProcess: nothing for a daemon the harness did not start.    *)
Kill(from_, to) ==
    /\ At({from_})
    /\ \/ /\ g.mode = "docker" /\ proc # "down"
          /\ Crash
          /\ g' = [Goes(to) EXCEPT !.mode = "none"]
       \/ /\ g.mode = "none" \/ proc = "down"
          /\ Local([Goes(to) EXCEPT !.mode = "none"])

(* startPipelineProcess: docker restart, a stop and a boot. *)
Start(from_, new) ==
    /\ At({from_})
    /\ \/ proc # "down" /\ Crash /\ UNCHANGED g
       \/ proc = "down" /\ Boot /\ g' = [new EXCEPT !.mode = "docker", !.existing = FALSE]

Unreplicated(id) == {r \in table : r <= id /\ \E s \in Sinks : ~Accounted(r, s)}

Pin ==
    \/ /\ At({"pin"})
       /\ cp' = [cp EXCEPT !.id = g.windowStart, !.status = "RUNNING"]
       /\ g' = [Goes("pinned") EXCEPT !.unpinned = Unreplicated(g.windowStart)]
       /\ UNCHANGED <<table, dlq, delivered, fieldVars, loopVars, envVars, faultVars>>
    \/ /\ At({"pinned"})
       /\ Local(IF cp.id # g.windowStart THEN Fails
                ELSE Goes(IF g.quiesced THEN "resume" ELSE "relaunch"))

Target == Min({g.maxId, g.windowStart + AdvanceRecords})

Advance ==
    \/ Poll("advance", "advanced")
    \/ /\ At({"advanced"})
       /\ IF Cursor >= Target THEN Local(Goes("kill"))
          ELSE IF Says("FAILED") THEN Local(Fails)
          ELSE Local(Goes("advance")) \/ Local(Fails)

(* A daemon found running must be seen dead, at the last of four polls.    *)
Alive ==
    \/ At({"killed"}) /\ Local(Goes(IF g.existing THEN "alive" ELSE "inspect"))
    \/ Poll("alive", "dead")
    \/ At({"dead"}) /\ Local(IF g.tele = Null THEN Goes("inspect") ELSE Fails)

Inspect ==
    /\ At({"inspect"})
    /\ Local(IF cp.id = 0 \/ cp.id < g.windowStart THEN Fails
             ELSE [Goes("restart") EXCEPT !.resumedAt = cp.id])

FirstSeen ==
    IF g.firstSeen > 0 THEN g.firstSeen ELSE IF g.tele.cursor > 0 THEN g.tele.cursor ELSE cp.id

Watch ==
    \/ Poll("watch", "watched")
    \/ /\ At({"watched"})
       /\ LET seen_ == [g EXCEPT !.firstSeen = FirstSeen, !.final = Max({@, Cursor})]
          IN  IF FirstSeen \in 1..(g.resumedAt - 1) \/ Says("FAILED") THEN Local(Fails)
              ELSE IF Says("COMPLETED") \/ Cursor >= g.maxId THEN Local([seen_ EXCEPT !.pc = "evaluate"])
              ELSE Local([seen_ EXCEPT !.pc = "watch"]) \/ Local([seen_ EXCEPT !.pc = "evaluate"])

(* evaluateGate1Resumption: lostRecords = maxId - finalProcessedId.        *)
(* killedAt is made from resumedAt, so it is never the smaller.            *)
Passed(final) == g.resumedAt > 0 /\ final >= g.maxId

Evaluate ==
    /\ At({"evaluate"})
    /\ Local([Goes("finally") EXCEPT !.verdict = IF Passed(Max({g.final, cp.id})) THEN "PASS" ELSE "FAIL"])

(* Faulty: the finally block trusts the poll of the failed step. *)
LeavesRunningAssumed == TRUE

(* pipelineRestarted, or telemetry answers. *)
LeavesRunning == g.restarted \/ g.tele # Null

Finally ==
    \/ At({"finally"}) /\ g.restarted /\ Local(Goes("done"))
    \/ ~g.restarted /\ Poll("finally", "polled")
    \/ At({"polled"}) /\ Local(Goes(IF LeavesRunning THEN "done" ELSE "revive"))

(* A query of the drill fails: throw. *)
QueryFails ==
    /\ At({"baseline", "first", "prerolled", "settled", "pin", "pinned", "advanced", "inspect", "watched",
          "evaluate"})
    /\ QueryFault
    /\ g' = Fails
    /\ UNCHANGED <<dbVars, delivered, fieldVars, loopVars, envVars>>

Gate ==
    \/ Baseline \/ Ensure \/ PreRoll \/ SendPause \/ Settle \/ Pin \/ Advance \/ Alive
    \/ Inspect \/ Watch \/ Evaluate \/ Finally
    \/ SendResume("unpause", "preroll", "preroll")
    \/ SendResume("resume", "advance", "resumeKill")
    \/ Kill("quiesceKill", "pin") \/ Kill("resumeKill", "relaunch") \/ Kill("kill", "killed")
    \/ Start("start", Goes("boot")) \/ Start("relaunch", Goes("advance"))
    \/ Start("restart", [Goes("watch") EXCEPT !.restarted = TRUE])
    \/ Start("revive", Goes("done"))

Daemon ==
    /\ \/ \E l \in Loops : \/ Progress(l) \/ Launch(l)
                           \/ QueryFailsOutside(l) \/ QueryFailsInside(l)
                           \/ \E s \in Sinks : SinkReject(l, s)
       \/ SetPaused \/ OrphanSettles \/ InsertRow
       \/ At({"baseline"}) /\ Pause  \* an operator, before the drill
    /\ UNCHANGED g

DrillNext == Gate \/ QueryFails \/ Daemon

DrillSpec == DrillInit /\ [][DrillNext]_drillVars

(* Every await of the drill settles, and every deadline passes.            *)
Deadlines ==
    /\ At({"booted", "prerolled", "settled", "pausing", "advanced", "watched"})
    /\ Gate
    /\ g'.pc \notin {"boot", "preroll", "unpause", "settle", "advance", "watch"}

DrillFairSpec == DrillSpec /\ WF_drillVars(Gate) /\ SF_drillVars(Deadlines)

----------------------------------------------------------------------------
(* Properties *)

DrillTypeOK ==
    /\ TypeOK
    /\ g.mode \in {"none", "docker"} /\ g.verdict \in {"NONE", "PASS", "FAIL"}
    /\ g.tele.status \in Statuses \cup {"UNREACHABLE"}
    /\ {g.maxId, g.windowStart, g.tele.cursor, g.previousId, g.resumedAt, g.firstSeen, g.final}
         \subseteq Rows \cup {0}
    /\ g.windowStart <= g.maxId

(* A PASS means what the suite says of it, 0 lost: every row there was at  *)
(* the start of the drill is in both sinks or in the dead letter queue.    *)
PassMeansReplicated ==
    g.verdict = "PASS" => \A r \in History, s \in Sinks : Accounted(r, s)

(* "Always leave the daemon running for subsequent gates, whatever         *)
(* happened above" (gate1.js:406).                                         *)
DaemonLeftRunning == g.pc = "done" => proc # "down"

(* The drill ends, though the daemon may hang or fail anywhere. *)
DrillEnds == <>(g.pc = "done")

(* gate1.js:189 "A running loop would overwrite the pinned watermark on    *)
(* its next commit": once the runner has settled nothing else writes the   *)
(* checkpoint from the pin until the resume.                               *)
PinHolds == g.quiesced /\ g.pc \in {"pinned", "resume"} => cp.id = g.windowStart

(* gate1.js:145 "Never move the checkpoint forward past un-replicated      *)
(* rows."                                                                  *)
PinIsBehind == g.unpinned = {}
=============================================================================
