----------------------------- MODULE JobControls -----------------------------
(***************************************************************************)
(* What people may ask of a job: cancel it (the author, or the owner's     *)
(* emergency halt), resume it, retry it as an administrator, turn down the *)
(* story ledger at the review gate; and the end it is put to when its      *)
(* kickoff fails or its cost passes the cap.  Cancelling a queued job      *)
(* takes several statements, the progress of which is in cancel.           *)
(*                                                                         *)
(* Controls names the requests made in an instance.                        *)
(***************************************************************************)
EXTENDS JobTable

CONSTANT Controls    \* subset of {"user_cancelled", "owner_cancelled",
                     \*            "transient", "resume", "admin_retry",
                     \*            "reject_ledger"}

VARIABLE cancel

CancelCode == {"user_cancelled", "owner_cancelled"}

\* Also WORKER_KICKOFF_FAILED and COST_CAP_EXCEEDED, which recovery takes for
\* transient: what failEvaluationJobTerminally is called with.
StopCode == CancelCode \cup {"transient"}

CancelState == [at    : {"idle", "queued", "claimed"},
                token : Token \cup {NoToken},
                code  : StopCode \cup {"none"}]

NoCancel == [at |-> "idle", token |-> NoToken, code |-> "none"]

Cancelled(code) == FailedWith(Silenced(Unclaimed(job)), code)

-----------------------------------------------------------------------------
(* cancelEvaluationAsUser, failEvaluationJobTerminally                     *)

\* A running job is failed in one statement, whoever runs it.
CancelRunning(code) ==
    /\ code \in Controls /\ cancel.at = "idle"
    /\ Running
    /\ UpdateWhere(TRUE, Cancelled(code))
    /\ UNCHANGED <<artifacts, cancel>>

\* A queued job's cancellation begins; to cancel one parked at the review gate
\* makes it claimable first.
CancelQueued(code) ==
    /\ code \in Controls /\ cancel.at = "idle"
    /\ job.status = "queued"
    /\ UpdateWhere(job.phaseStatus = "awaiting_approval" /\ code \in CancelCode,
                   [job EXCEPT !.phaseStatus = "queued"])
    /\ cancel' = [NoCancel EXCEPT !.at = "queued", !.code = code]
    /\ UNCHANGED artifacts

\* The row is claimed for the cancellation, or no longer queued.
CancelClaim(t) ==
    LET claimed == [ClaimedBy(job, t) EXCEPT !.pulse = "fresh", !.beat = "fresh"]
    IN
    /\ cancel.at = "queued"
    /\ UpdateWhere(job.status = "queued", claimed)
    /\ cancel' = IF job.status = "queued" /\ Accepts(job, claimed)
                 THEN [cancel EXCEPT !.at = "claimed", !.token = t]
                 ELSE NoCancel
    /\ UNCHANGED artifacts

CancelFinish ==
    /\ cancel.at = "claimed"
    /\ UpdateWhere(Running /\ job.owner = cancel.token, Cancelled(cancel.code))
    /\ cancel' = NoCancel
    /\ UNCHANGED artifacts

\* The request dies between two of its statements.
CancelAborts ==
    /\ cancel.at # "idle"
    /\ cancel' = NoCancel
    /\ UNCHANGED <<job, artifacts>>

\* failEvaluationJobTerminally, called when a worker was not heard to take the
\* new job, or by the worker that recorded the cost: the same statements, but
\* a parked job stays where it is.
FailTerminally == CancelRunning("transient") \/ CancelQueued("transient")

-----------------------------------------------------------------------------
(* Resume, retry, reject                                                   *)

\* POST /api/jobs/[jobId]/resume: a phase-0 failure with a terminal code and a
\* job its author cancelled are turned away.
Resume ==
    /\ "resume" \in Controls
    /\ job.status = "failed"
    /\ job.cause # "user_cancelled"
    /\ ~(job.phase = "phase_0" /\ job.cause = "deterministic")
    /\ UpdateWhere(TRUE, [QueuedAt(Silenced(Unclaimed(job)), ResumePhase)
                             EXCEPT !.cause = "none"])
    /\ UNCHANGED <<artifacts, cancel>>

\* admin_retry_job: refused while a lease is live.
AdminRetry ==
    /\ "admin_retry" \in Controls
    /\ job.status = "failed" /\ job.lease # "live"
    /\ UpdateWhere(TRUE, QueuedAt(Unclaimed(job), job.phase))
    /\ UNCHANGED <<artifacts, cancel>>

\* POST /api/jobs/[jobId]/review-gate with disposition 'rejected'.
RejectLedger ==
    /\ "reject_ledger" \in Controls
    /\ job.phase = "review_gate" /\ job.phaseStatus = "awaiting_approval"
    /\ UpdateWhere(TRUE, FailedWith(job, "deterministic"))
    /\ UNCHANGED <<artifacts, cancel>>

-----------------------------------------------------------------------------
ControlInit == cancel = NoCancel

ControlNext(fresh) ==
    \/ FailTerminally
    \/ \E code \in CancelCode : CancelRunning(code) \/ CancelQueued(code)
    \/ \E t \in fresh : CancelClaim(t)
    \/ CancelFinish \/ CancelAborts
    \/ Resume \/ AdminRetry \/ RejectLedger
=============================================================================
