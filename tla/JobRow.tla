------------------------------- MODULE JobRow -------------------------------
(***************************************************************************)
(* One row of public.evaluation_jobs and what the database does to every   *)
(* UPDATE of it, whoever sends it: the BEFORE UPDATE triggers in firing    *)
(* order (absolute runtime cap, then phase_status transitions), the CHECK  *)
(* constraints, and the updated_at touch.  The module has no variables;    *)
(* EvaluationJobs holds a row in one.                                      *)
(*                                                                         *)
(* Timestamps are kept as what the code compares them with: a lease is     *)
(* live or lapsed, a pulse and a heartbeat fresh or stale, the row quiet   *)
(* once updated_at is older than the claim window, aged once created_at is *)
(* older than the two-hour cap (and no admin authorization is in force).   *)
(***************************************************************************)
EXTENDS Naturals

CONSTANTS
    MaxAttempts,     \* evaluation_jobs.max_attempts
    MaxRecoveries,   \* FAILED_SELF_RECOVERY_MAX
    MaxRetries,      \* PHASE_3_MAX_RETRIES
    Token,           \* a claimant with the lease token (uuid) it drew
    NoToken          \* claimed_by and lease_token are null

ASSUME BoundsAssumption ==
    MaxAttempts \in Nat /\ MaxRecoveries \in Nat /\ MaxRetries \in Nat

ASSUME TokenAssumption == NoToken \notin Token

Status == {"queued", "running", "complete", "failed"}
Phase == {"phase_0", "phase_1a", "review_gate", "phase_2", "phase_3"}
PhaseStatus == {"queued", "running", "awaiting_approval", "complete", "failed"}

\* Classes of failure_code that the recovery code tells apart.
Cause == {"none", "transient", "deterministic", "cap",
          "user_cancelled", "owner_cancelled"}

Row == [status : Status, phase : Phase, phaseStatus : PhaseStatus,
        owner : Token \cup {NoToken},        \* claimed_by, lease_token
        lease : {"none", "live", "lapsed"},  \* lease_until
        pulse : {"none", "fresh", "stale"},  \* worker_pulse_at
        beat  : {"none", "fresh", "stale"},  \* last_heartbeat_at
        quiet : BOOLEAN,                     \* updated_at < now() - 75 min
        aged  : BOOLEAN,                     \* created_at <= now() - 2 h
        stamped : BOOLEAN,                   \* completed_at is not null
        attempts : 0..MaxAttempts,           \* attempt_count, saturating
        recoveries : 0..MaxRecoveries,       \* progress.self_recovery_count
        retries : 0..MaxRetries,             \* progress.phase_3_retry_count
        cause : Cause]                       \* failure_code

\* The code compares these counters with their bounds and with nothing else, so
\* a count past the bound and the bound itself are the same to it.
Bump(n, max) == IF n < max THEN n + 1 ELSE n

-----------------------------------------------------------------------------
(* Field groups that many statements write together.                       *)

\* Mutant: the lease is dropped, its owner is not.
UnclaimedKeepsOwner(r) == [r EXCEPT !.lease = "none"]

Unclaimed(r) == [r EXCEPT !.owner = NoToken, !.lease = "none"]
Silenced(r)  == [r EXCEPT !.pulse = "none", !.beat = "none"]

QueuedAt(r, p) == [r EXCEPT !.status = "queued", !.phase = p,
                            !.phaseStatus = "queued"]

FailedWith(r, c) == [r EXCEPT !.status = "failed", !.phaseStatus = "failed",
                              !.cause = c]

\* Written by every claim: a fresh token and a lease that has just begun.
ClaimedBy(r, t) == [r EXCEPT !.status = "running", !.phaseStatus = "running",
                             !.owner = t, !.lease = "live"]

-----------------------------------------------------------------------------
(* trg_enforce_absolute_evaluation_runtime_cap                             *)

\* Mutant: age measured from the last write instead of from creation.
CapRejectsByActivity(r, n) ==
    r.quiet /\ r.status = "queued" /\ n.status = "running"

CapRejects(r, n) ==
    r.aged /\ r.status = "queued" /\ n.status = "running"

Capped(r, n) ==
    IF r.aged /\ r.status = "running"
    THEN FailedWith(Silenced(Unclaimed(n)), "cap")
    ELSE n

(* trigger_enforce_evaluation_job_phase_status_transition                  *)

\* Mutant: complete treated like the other terminal value.
NextPhaseStatusReopening ==
    [complete |-> {"queued"}, failed |-> {"queued"}, queued |-> {"running"},
     running |-> {"awaiting_approval", "complete", "failed", "queued"},
     awaiting_approval |-> {"queued", "complete"}]

NextPhaseStatus ==
    [complete |-> {}, failed |-> {"queued"}, queued |-> {"running"},
     running |-> {"awaiting_approval", "complete", "failed", "queued"},
     awaiting_approval |-> {"queued", "complete"}]

PhaseStatusMayMove(r, n) ==
    n.phaseStatus = r.phaseStatus \/ n.phaseStatus \in NextPhaseStatus[r.phaseStatus]

(* evaluation_jobs_status_phase_consistent                                 *)
\* Mutant: failed rows are not held to their phase_status.
StatusPhaseConsistentUnlessFailed(n) ==
    \/ n.status = "queued" /\ n.phaseStatus \in {"queued", "awaiting_approval"}
    \/ n.status = "running" /\ n.phaseStatus \in {"running", "awaiting_approval"}
    \/ n.status = "complete" /\ n.phaseStatus = "complete"
    \/ n.status = "failed"

StatusPhaseConsistent(n) ==
    \/ n.status = "queued" /\ n.phaseStatus \in {"queued", "awaiting_approval"}
    \/ n.status = "running" /\ n.phaseStatus \in {"running", "awaiting_approval"}
    \/ n.status \in {"complete", "failed"} /\ n.phaseStatus = n.status

\* A row that names an owner has a lease to go by.  No constraint says so: it is
\* what the statements that write the two together come to.
Leased(n) == n.owner # NoToken => n.lease # "none"

(* evaluation_jobs_running_requires_claim                                  *)
RunningRequiresClaim(n) ==
    n.status = "running" => n.owner # NoToken /\ n.lease # "none"

-----------------------------------------------------------------------------
(* An UPDATE that asks for row n over row r either raises and changes      *)
(* nothing, or stores what the triggers made of n.                         *)

Accepts(r, n) ==
    /\ ~CapRejects(r, n)
    /\ PhaseStatusMayMove(r, Capped(r, n))
    /\ StatusPhaseConsistent(Capped(r, n))
    /\ RunningRequiresClaim(Capped(r, n))

Stored(r, n) == [Capped(r, n) EXCEPT !.quiet = FALSE]

Update(r, n) == IF Accepts(r, n) THEN Stored(r, n) ELSE r
-----------------------------------------------------------------------------
(* persist_evaluation_v2_atomic, one transaction of up to three UPDATEs:   *)
(* a terminal row steps back to queued, a queued row takes a claim of the  *)
(* function's own (t), and then the row is completed.                      *)

StepBack(r) == [r EXCEPT !.phaseStatus = "queued", !.status = "queued"]

Completed(r) ==
    [Unclaimed(r) EXCEPT !.status = "complete", !.phaseStatus = "complete",
                         !.phase = "phase_2", !.beat = "fresh",
                         !.stamped = TRUE]

PersistChain(r, t) ==
    LET back == r.phaseStatus = "failed"
        r1 == IF back THEN Update(r, StepBack(r)) ELSE r
        claim == r.phaseStatus \in {"failed", "queued"}
        r2 == IF claim THEN Update(r1, ClaimedBy(r1, t)) ELSE r1
    IN  [commits |-> /\ back => Accepts(r, StepBack(r))
                     /\ claim => Accepts(r1, ClaimedBy(r1, t))
                     /\ Accepts(r2, Completed(r2)),
         row     |-> Update(r2, Completed(r2))]
=============================================================================
