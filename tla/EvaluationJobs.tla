--------------------------- MODULE EvaluationJobs ---------------------------
(***************************************************************************)
(* One evaluation job and everything that acts on its row: the workers,    *)
(* the recovery sweeps, people's requests, and time.  They share nothing   *)
(* but the database, so a step of one interleaves with the others between  *)
(* any two statements.                                                     *)
(***************************************************************************)
EXTENDS EvaluationWorkers, RecoverySweeps, JobControls

vars == <<job, artifacts, worker, sweep, cancel>>

\* Lease tokens are uuids: a claim draws one that nobody remembers.
Held ==
    {job.owner, cancel.token}
        \cup {worker[w].token : w \in Workers}
        \cup {sweep[s].token : s \in Sweepers}

FreshTokens == Token \ Held

Init == TableInit /\ WorkerInit /\ SweepInit /\ ControlInit

\* A pulse cannot go stale by the cutoff of an idle scan already taken.
Time ==
    \/ LeaseLapses \/ BeatAges \/ Ages \/ GoesQuiet
    \/ PulseAges /\ ~IdleScanOpen

Next ==
    \/ WorkerNext(FreshTokens) /\ UNCHANGED <<sweep, cancel>>
    \/ SweepNext(FreshTokens) /\ UNCHANGED <<worker, cancel>>
    \/ ControlNext(FreshTokens) /\ UNCHANGED <<worker, sweep>>
    \/ Time /\ UNCHANGED <<worker, sweep, cancel>>

Spec == Init /\ [][Next]_vars

-----------------------------------------------------------------------------
(* Fairness                                                                *)

\* Nobody is at work on the job and no request is under way.
Unattended == cancel.at = "idle" /\ \A w \in Workers : worker[w].at = "idle"

\* A timestamp that nobody refreshes any more does go stale.
Expire == Unattended /\ Time /\ UNCHANGED <<worker, sweep, cancel>>

Sweep(A) == A /\ UNCHANGED <<worker, cancel>>

\* The watchdog and the worker route run every few minutes from cron, and an
\* invocation carries its decision out.
Fairness ==
    /\ WF_vars(Expire)
    /\ \A s \in Sweepers : /\ WF_vars(Sweep(SweepScan(s)))
                           /\ WF_vars(Sweep(SweepWrite(s)))
                           /\ WF_vars(Sweep(\E t \in FreshTokens : Promote(s, t)))
    /\ WF_vars(Sweep(RepairReviewGate))
    /\ WF_vars(Sweep(KillStale)) /\ WF_vars(Sweep(KillOverage))

FairSpec == Spec /\ Fairness

-----------------------------------------------------------------------------
(* Types                                                                   *)

\* Every variable keeps the shape the other modules rely on, and a row that
\* names an owner has a lease to go by, whichever statement last wrote it.
TypeOK ==
    /\ job \in Row
    /\ Leased(job)
    /\ artifacts \subseteq ArtifactType
    /\ worker \in [Workers -> WorkerState]
    /\ sweep \in [Sweepers -> Decision]
    /\ cancel \in CancelState

-----------------------------------------------------------------------------
(* Safety                                                                  *)

\* A completed evaluation is never reopened or failed, although the phase-3
\* retry, the rejection of a result and the uncaught-error fallback write by
\* job id alone and a worker that lost its job may get to them late.
CompleteIsFinal == [][job.status = "complete" => job'.status = "complete"]_vars

\* No requeue, be it a hand-off, a rescue, self-recovery, resume or a retry,
\* puts a job past checkpoints it has not earned: phase 3 finds phase 2's
\* hand-off, the hand-off rests on a ledger that was accepted, and a completed
\* job has the result that came of them.  Phase 2 makes no such claim: rescues
\* do send jobs there that have no ledger, and its gate is what stops them.
CheckpointsInPlace ==
    /\ job.phase = "phase_3" => "handoff" \in artifacts
    /\ "handoff" \in artifacts => {"ledger", "accepted"} \subseteq artifacts
    /\ "result" \in artifacts => "handoff" \in artifacts
    /\ job.status = "complete" => "result" \in artifacts

\* A worker whose token is on a running row works on the phase the row is in,
\* so what it writes under that token never takes the job back to an old phase.
OwnerRunsRowsPhase ==
    \A w \in Workers :
        worker[w].at # "idle" /\ worker[w].token # NoToken /\ Owns(w)
            => job.phase = worker[w].phase

\* The evaluation result and the completion of the job are one transaction: a
\* result that is stored belongs to a job that is complete, or to one past the
\* cap, which the trigger fails in that transaction.
PersistedIsComplete ==
    "result" \in artifacts => job.status = "complete" \/ job.aged

\* A failed job carries the code that resume and self-recovery classify it by,
\* although kill_stale_evaluation_jobs fails rows without writing one.
FailedIsExplained == job.status = "failed" => job.cause # "none"

\* Past the two-hour cap no claim, heartbeat, requeue, promotion or completion
\* starts the job again or gives it a new lease.
CapIsNeverExtended ==
    [][job.aged =>
          /\ job'.lease = "live" =>
                job.lease = "live" /\ job'.owner \in {job.owner, NoToken}
          /\ job'.status \in {"running", "complete"} => job'.status = job.status]_vars

-----------------------------------------------------------------------------
(* Refinement                                                              *)

Lifecycle == INSTANCE JobLifecycle WITH
    Job <- {"job"},
    Ticket <- Token,
    state <- [j \in {"job"} |-> job.status],
    tenure <- [j \in {"job"} |->
                  IF Running THEN {<<job.owner, job.phase>>} ELSE {}],
    spoken <- [j \in {"job"} |-> Held \ {NoToken}],
    late <- [j \in {"job"} |-> job.aged]

\* However the writes of workers, sweeps and people interleave, the job lives as
\* JobLifecycle says: no run is taken over or changes its phase, only a run
\* fails, a completion is final, and the cap stops all but failure and revival.
FollowsLifecycle == Lifecycle!Spec

-----------------------------------------------------------------------------
(* Liveness                                                                *)

\* A running job whose worker was killed, at whatever statement, and that is
\* not under a cancellation does not stay running: one of the sweeps requeues
\* or fails it, or somebody attends to it again.
AbandonedIsRescued == Running /\ Unattended ~> ~(Running /\ Unattended)

-----------------------------------------------------------------------------
(* What the repository says of the job and the code does not keep          *)

\* The owner's emergency halt holds until "a later normal resume request"
\* (userCancel.ts): no sweep ends it.
HaltedUntilResumed ==
    [][job.status = "failed" /\ job.cause = "owner_cancelled"
          => job'.status = "failed" \/ Resume \/ AdminRetry]_vars
=============================================================================
