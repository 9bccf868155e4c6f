--------------------------- MODULE RecoverySweeps ---------------------------
(***************************************************************************)
(* The sweeps that look for jobs their worker has lost: the watchdog cron  *)
(* (app/api/workers/watchdog/route.ts) and the passes processQueuedJobs    *)
(* makes before it claims (lib/evaluation/processor.ts, and the SQL        *)
(* sweepers).  A sweep reads candidate rows first and writes later, so a   *)
(* scan is one action and the write it decided on another; sweep[s] holds  *)
(* the decision in between.  Passes that read and write in one statement   *)
(* are one action.                                                         *)
(*                                                                         *)
(* Daemons names the sweeps that run in an instance.                       *)
(***************************************************************************)
EXTENDS JobTable

CONSTANTS
    Sweepers,        \* concurrent invocations
    Daemons          \* subset of {"idle", "orphan", "stale_running",
                     \*   "hard_stop", "kill_switch", "self_recovery",
                     \*   "kill_stale", "overage"}

VARIABLE sweep

\* The artifacts a stale job can be rescued from.
Checkpoint == {"chunk_cache", "ledger", "handoff"}

Decision == [do    : {"nothing", "rescue_idle", "rescue_orphan", "rescue_frozen",
                      "rescue_stale", "requeue", "fail_stuck", "fail_expired",
                      "promote_hard_stop", "promote_kill", "recover",
                      "exhaust"},
             token : Token \cup {NoToken},   \* lease_token as scanned
             to    : Phase,                  \* the phase to requeue at
             seen  : SUBSET Checkpoint,      \* artifacts as scanned
             count : 0..MaxRecoveries,       \* self_recovery_count as scanned
             attempts : 0..MaxAttempts]      \* attempt_count as read again

Nothing == [do |-> "nothing", token |-> NoToken, to |-> "phase_0",
            seen |-> {}, count |-> 0, attempts |-> 0]

Decides(s, d) == sweep' = [sweep EXCEPT ![s] = d]

\* s scans, and decides on d.
Scans(s, daemon, d) ==
    /\ daemon \in Daemons
    /\ sweep[s].do = "nothing"
    /\ Decides(s, d)
    /\ UNCHANGED <<job, artifacts>>

\* s carries out the decision it took.
Writes(s, do, guard, n) ==
    /\ sweep[s].do = do
    /\ UpdateWhere(guard, n)
    /\ Decides(s, Nothing)
    /\ UNCHANGED artifacts

Exhausted == job.attempts >= MaxAttempts

\* Failure codes isTerminalFailureCode knows.
TerminalCause == {"deterministic", "user_cancelled"}

-----------------------------------------------------------------------------
(* Watchdog: rescueIdleJobs                                                *)

\* A pulse that has stopped and a lease that has run out.
LooksIdle ==
    /\ Running /\ job.phaseStatus # "awaiting_approval" /\ job.phase # "phase_0"
    /\ job.pulse = "stale" /\ job.lease = "lapsed" /\ job.owner # NoToken

ScanIdle(s) ==
    /\ LooksIdle /\ ~Exhausted
    /\ Scans(s, "idle", [Nothing EXCEPT !.do = "rescue_idle", !.token = job.owner])

\* The write repeats the token and the two cutoffs of the scan.
RescueIdle(s) ==
    Writes(s, "rescue_idle",
           /\ Running /\ job.owner = sweep[s].token
           /\ job.pulse = "stale" /\ job.lease = "lapsed",
           [QueuedAt(Silenced(Unclaimed(job)), job.phase)
               EXCEPT !.attempts = Bump(job.attempts, MaxAttempts)])

\* The watchdog's invocation (30 s) is about as long as its pulse threshold
\* (20 s): a pulse written after the scan is newer than the scan's cutoff.
IdleScanOpen == \E s \in Sweepers : sweep[s].do = "rescue_idle"

(* Watchdog: rescueNullPulseOrphans, through admin_rescue_orphaned_...,    *)
(* which looks at nothing but the status.                                  *)

ScanOrphan(s) ==
    /\ Running /\ job.owner # NoToken /\ job.pulse = "none"
    /\ Scans(s, "orphan", [Nothing EXCEPT !.do = "rescue_orphan"])

RescueOrphan(s) ==
    Writes(s, "rescue_orphan", Running,
           QueuedAt(Silenced(Unclaimed(job)), job.phase))

-----------------------------------------------------------------------------
(* failStaleRunningJobs, pass 1: no heartbeat for 60 s                     *)

Rescue(p) == [Nothing EXCEPT !.do = "rescue_frozen", !.to = p]
FailStuck == [Nothing EXCEPT !.do = "fail_stuck"]
FailExpired == [Nothing EXCEPT !.do = "fail_expired"]

\* What guards A to F allow for a frozen row.  The code also goes by what
\* earlier failures left in progress and by elapsed times: where these decide
\* between failing, rescuing and letting the job run on, each is possible.  A
\* progress that says complete stands for a hand-off: it is written after one.
FrozenDecisions ==
    IF job.cause \in TerminalCause \/ Exhausted THEN {FailStuck}
    ELSE {FailStuck} \cup
         (IF "handoff" \in artifacts THEN {Rescue("phase_3")}
          ELSE IF job.phase # "phase_1a" THEN {FailStuck}
          ELSE IF "ledger" \in artifacts THEN {Rescue("phase_2")}
          ELSE IF "chunk_cache" \in artifacts
               THEN {Rescue("phase_1a")}
          ELSE {FailStuck})

ScanFrozen(s) ==
    /\ Running /\ job.beat = "stale"
    /\ job.phaseStatus # "awaiting_approval"
    /\ \E d \in FrozenDecisions : Scans(s, "stale_running", d)

\* Both rescues read the row again, and write what they make of it later.
Rereads(s, p) ==
    Decides(s, [Nothing EXCEPT !.do = "requeue", !.to = p,
                               !.attempts = job.attempts])

\* On the way to phase 2 the ledger is accepted on the author's behalf first.
RescueFrozen(s) ==
    /\ sweep[s].do = "rescue_frozen"
    /\ Rereads(s, sweep[s].to)
    /\ artifacts' = IF sweep[s].to = "phase_2"
                    THEN artifacts \cup {"accepted"} ELSE artifacts
    /\ UNCHANGED job

RequeueRescued(s) ==
    Writes(s, "requeue", Running,
           [QueuedAt(Unclaimed(job), sweep[s].to)
               EXCEPT !.attempts = Bump(sweep[s].attempts, MaxAttempts)])

(* Pass 1B: jobs parked at the review gate by an earlier deployment.       *)

RepairReviewGate ==
    /\ "stale_running" \in Daemons
    /\ job.status = "queued" /\ job.phase = "review_gate"
    /\ job.phaseStatus = "awaiting_approval" /\ "ledger" \in artifacts
    /\ artifacts' = artifacts \cup {"accepted"}
    /\ UpdateWhere(TRUE, [QueuedAt(job, "phase_2") EXCEPT !.cause = "none"])
    /\ UNCHANGED sweep

(* Pass 2: a heartbeat 13 min old, or a lease that has run out.            *)

\* Mutant: any checkpoint will do for phase 3.
StaleTargetAnyCheckpoint(seen, p) ==
    IF p = "phase_1a" THEN "phase_2" ELSE "phase_3"

\* Where a row whose progress says phase p goes, by the artifacts the scan saw.
StaleTarget(seen, p) ==
    IF p = "phase_1a" /\ "chunk_cache" \in seen /\ "ledger" \notin seen
    THEN "phase_1a"
    ELSE IF "handoff" \in seen /\ p # "phase_1a" THEN "phase_3" ELSE "phase_2"

StaleDecision ==
    IF artifacts \cap Checkpoint = {} THEN FailStuck
    ELSE [Nothing EXCEPT !.do = "rescue_stale",
                         !.seen = artifacts \cap Checkpoint]

\* Pass 1 of the same invocation has dealt with stale heartbeats, except for a
\* phase-1a job it chose to leave alone.
Pass1LeavesAlone ==
    /\ job.phase = "phase_1a" /\ "handoff" \notin artifacts
    /\ "chunk_cache" \in artifacts => "ledger" \in artifacts
    /\ job.cause \notin TerminalCause /\ ~Exhausted

\* Mutant: only heartbeats are looked at.
ScanStaleBeats(s) ==
    /\ Running
    /\ job.beat = "stale" /\ Pass1LeavesAlone
    /\ Scans(s, "stale_running", StaleDecision)

ScanStale(s) ==
    /\ Running
    /\ IF job.beat = "stale" THEN Pass1LeavesAlone ELSE job.lease = "lapsed"
    /\ Scans(s, "stale_running", StaleDecision)

\* The row is read again for its phase, the artifacts are not.
RescueStale(s) ==
    /\ sweep[s].do = "rescue_stale"
    /\ \E p \in ProgressPhase(job.phase) :
          Rereads(s, StaleTarget(sweep[s].seen, p))
    /\ UNCHANGED <<job, artifacts>>

\* Both passes leave a code that self-recovery retries, and pulse and heartbeat
\* as they were.
FailStuckJob(s) ==
    Writes(s, "fail_stuck", Running, FailedWith(Unclaimed(job), "transient"))

-----------------------------------------------------------------------------
(* Queued jobs past their deadline: terminalizeQueuedHardStops, and the    *)
(* two-hour kill switch of processQueuedJobs.  queued -> failed being an   *)
(* illegal transition, both promote the row to running first.              *)

\* Past the pipeline's SLA; how long a row has been is not in the model.
ScanHardStop(s) ==
    /\ job.status = "queued" /\ job.phaseStatus # "awaiting_approval"
    /\ Scans(s, "hard_stop", [Nothing EXCEPT !.do = "promote_hard_stop"])

\* The first three times, an SLA breach only restarts the clock.
SlaRequeue ==
    /\ "hard_stop" \in Daemons
    /\ job.status = "queued" /\ job.phaseStatus # "awaiting_approval"
    /\ UpdateWhere(TRUE, QueuedAt(job, job.phase))
    /\ UNCHANGED <<artifacts, sweep>>

\* quiet is 75 min; the kill switch waits for two hours of it.
ScanKillSwitch(s) ==
    /\ job.quiet
    /\ \/ Running /\ Scans(s, "kill_switch", FailExpired)
       \/ /\ job.status = "queued" /\ job.phaseStatus = "queued"
          /\ Scans(s, "kill_switch", [Nothing EXCEPT !.do = "promote_kill"])

Promoted(t) == [ClaimedBy(job, t) EXCEPT !.beat = "stale"]

\* An error ends it.  The hard stop goes on to fail the row even when the
\* promotion matched none; the kill switch fails only rows it promoted.
Promote(s, t) ==
    LET hard  == sweep[s].do = "promote_hard_stop"
        match == job.status = "queued" /\ (hard \/ job.phaseStatus = "queued")
        goes  == IF match THEN Accepts(job, Promoted(t)) ELSE hard
    IN  /\ sweep[s].do \in {"promote_hard_stop", "promote_kill"}
        /\ UpdateWhere(match, Promoted(t))
        /\ Decides(s, IF goes THEN FailExpired ELSE Nothing)
        /\ UNCHANGED artifacts

\* PIPELINE_GLOBAL_SLA_EXCEEDED or MAX_AGE_KILL_SWITCH.
FailExpiredJob(s) ==
    Writes(s, "fail_expired", Running,
           FailedWith(Silenced(Unclaimed(job)), "transient"))

-----------------------------------------------------------------------------
(* selfRecoverRetryableFailedJobs                                          *)

\* An error reading the artifacts is taken for there being none.
ScanFailed(s) ==
    /\ job.status = "failed" /\ job.cause \notin TerminalCause
    /\ \E p \in {ResumePhase, "phase_1a"} :
          Scans(s, "self_recovery",
                IF job.recoveries >= MaxRecoveries
                THEN [Nothing EXCEPT !.do = "exhaust"]
                ELSE [Nothing EXCEPT !.do = "recover", !.to = p,
                                     !.count = job.recoveries])

Recover(s) ==
    Writes(s, "recover", job.status = "failed",
           [QueuedAt(Silenced(Unclaimed(job)), sweep[s].to)
               EXCEPT !.cause = "none",
                      !.recoveries = Bump(sweep[s].count, MaxRecoveries)])

\* TECHNICAL_FAILURE_REQUIRES_REVIEW, which is terminal.
Exhaust(s) ==
    Writes(s, "exhaust", job.status = "failed",
           [job EXCEPT !.cause = "deterministic"])

-----------------------------------------------------------------------------
(* SQL sweepers: one statement, or one transaction                         *)

\* kill_stale_evaluation_jobs
KillStale ==
    /\ "kill_stale" \in Daemons
    /\ job.quiet /\ ~job.stamped
    /\ job.status \in {"queued", "running", "failed"}
    /\ UpdateWhere(TRUE, [job EXCEPT !.status = "failed", !.stamped = TRUE])
    /\ UNCHANGED <<artifacts, sweep>>

\* kill_absolute_overage_evaluation_jobs: a queued row is stepped through
\* running, and an UPDATE that raises takes the whole call with it.
KillOverage ==
    LET promoted == [job EXCEPT !.status = "running", !.phaseStatus = "running"]
        ended(r) == Update(r, FailedWith(Silenced(Unclaimed(r)), "cap"))
    IN  /\ "overage" \in Daemons
        /\ job.aged
        /\ \/ Running /\ job' = ended(job)
           \/ /\ job.status = "queued"
              /\ job' = IF Accepts(job, promoted)
                        THEN ended(Update(job, promoted)) ELSE job
        /\ UNCHANGED <<artifacts, sweep>>

-----------------------------------------------------------------------------
SweepInit == sweep = [s \in Sweepers |-> Nothing]

SweepScan(s) ==
    \/ ScanIdle(s) \/ ScanOrphan(s) \/ ScanFrozen(s) \/ ScanStale(s)
    \/ ScanHardStop(s) \/ ScanKillSwitch(s) \/ ScanFailed(s)

SweepWrite(s) ==
    \/ RescueIdle(s) \/ RescueOrphan(s) \/ RescueFrozen(s) \/ RescueStale(s)
    \/ RequeueRescued(s) \/ FailStuckJob(s) \/ FailExpiredJob(s) \/ Recover(s) \/ Exhaust(s)

SweepNext(fresh) ==
    \/ \E s \in Sweepers : \/ SweepScan(s) \/ SweepWrite(s)
                           \/ \E t \in fresh : Promote(s, t)
    \/ RepairReviewGate \/ SlaRequeue \/ KillStale \/ KillOverage
=============================================================================
