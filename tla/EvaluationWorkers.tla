-------------------------- MODULE EvaluationWorkers --------------------------
(***************************************************************************)
(* The workers that run evaluations: claimQueuedJobs / claimQueuedJobById, *)
(* then processEvaluationJob for the claimed row (lib/evaluation/          *)
(* processor.ts), the persistence of its result, and the failure writes.   *)
(* Every action is one statement the worker sends to the database; what a  *)
(* worker remembers between two of them is in worker[w].                   *)
(*                                                                         *)
(*   idle      no invocation                                               *)
(*   claimed   the claim RPC returned the row, which waits for its turn in *)
(*             the batch; its token is not kept                            *)
(*   working   processEvaluationJob passed its eligibility check and took  *)
(*             claimed_by and lease_token from the row it read             *)
(*   fallback  markFailed: the finalizer RPC errored, direct write pending *)
(*   uncaught  outer catch: the finalizer RPC errored, direct write pending*)
(***************************************************************************)
EXTENDS JobTable

CONSTANTS
    Workers,
    FailureCauses    \* subset of Cause: what a worker's own failures may be

ASSUME FailureCausesAssumption == FailureCauses \subseteq Cause \ {"none"}

VARIABLE worker

ExecutionPhase == Phase \ {"review_gate"}

WorkerState == [at    : {"idle", "claimed", "working", "fallback", "uncaught"},
                token : Token \cup {NoToken},
                phase : Phase,
                cause : Cause]

Idle == [at |-> "idle", token |-> NoToken, phase |-> "phase_0", cause |-> "none"]

Becomes(w, s) == worker' = [worker EXCEPT ![w] = s]

Working(w) == worker[w].at = "working"
WorkingOn(w, p) == Working(w) /\ worker[w].phase = p

\* The WHERE clause of the writes that check who owns the row.
Owns(w) == Running /\ job.owner = worker[w].token

-----------------------------------------------------------------------------
(* Claim and start                                                         *)

\* The claim SQL also passes over rows marked _admin_stop, an operators' switch
\* that nothing in the repository sets.
\* Mutant: a running job whose lease has run out may be claimed again.
ClaimableAgain(byId) ==
    /\ \/ job.status = "queued" /\ job.phaseStatus = "queued"
       \/ Running /\ job.lease = "lapsed"
    /\ ~job.stamped /\ ~job.quiet
    /\ byId \/ job.phase # "review_gate"

Claimable(byId) ==
    /\ job.status = "queued" /\ job.phaseStatus = "queued"
    /\ ~job.stamped
    /\ ~job.quiet
    /\ byId \/ job.phase # "review_gate"

\* claim_evaluation_jobs picks rows by phase; claim_evaluation_job_by_id does
\* not look at it.  The cap trigger may raise, and the RPC then claims nothing.
Claim(w, t) ==
    LET claimedRow == [ClaimedBy(job, t) EXCEPT !.pulse = "fresh"] IN
    /\ worker[w].at = "idle"
    /\ \E byId \in BOOLEAN : Claimable(byId)
    /\ UpdateWhere(TRUE, claimedRow)
    /\ IF Accepts(job, claimedRow)
       THEN Becomes(w, [Idle EXCEPT !.at = "claimed"])
       ELSE UNCHANGED worker
    /\ UNCHANGED artifacts

Eligible ==
    /\ Running /\ job.phaseStatus = "running"
    /\ job.owner # NoToken /\ job.lease = "live"
    /\ job.phase \in ExecutionPhase

\* The row is read again, and the worker goes by the owner and phase it finds.
Begin(w) ==
    /\ worker[w].at = "claimed"
    /\ Becomes(w, IF Eligible
                  THEN [Idle EXCEPT !.at = "working", !.token = job.owner,
                                    !.phase = job.phase]
                  ELSE Idle)
    /\ UNCHANGED <<job, artifacts>>

\* The invocation is killed: nothing more is written.
Crash(w) ==
    /\ worker[w].at # "idle"
    /\ Becomes(w, Idle)
    /\ UNCHANGED <<job, artifacts>>

-----------------------------------------------------------------------------
(* Signs of life                                                           *)

RenewLease(w) ==
    /\ Working(w)
    /\ UpdateWhere(Running, [job EXCEPT !.lease = "live", !.pulse = "fresh",
                                        !.beat = "fresh"])
    /\ UNCHANGED <<artifacts, worker>>

\* pulseWorker; declarePersistenceLock writes a later time, fresh for longer.
Pulse(w) ==
    /\ Working(w)
    /\ UpdateWhere(Running, [job EXCEPT !.pulse = "fresh"])
    /\ UNCHANGED <<artifacts, worker>>

\* Mutant: the token is not checked.
MarkRunningUnchecked(w) ==
    /\ Working(w) /\ worker[w].phase # "phase_0"
    /\ UpdateWhere(Running, [job EXCEPT !.phase = worker[w].phase,
                                       !.phaseStatus = "running",
                                       !.pulse = "fresh", !.beat = "fresh"])
    /\ UNCHANGED <<artifacts, worker>>

MarkRunning(w) ==
    /\ Working(w) /\ worker[w].phase # "phase_0"
    /\ UpdateWhere(Owns(w), [job EXCEPT !.phase = worker[w].phase,
                                        !.phaseStatus = "running",
                                        !.pulse = "fresh", !.beat = "fresh"])
    /\ UNCHANGED <<artifacts, worker>>

-----------------------------------------------------------------------------
(* Checkpoints and hand-offs between phases                                *)

Produces == [phase_1a |-> {"chunk_cache", "ledger"}, phase_2 |-> {"handoff"}]

\* Phase 2 starts by accepting the ledger on the author's behalf where that has
\* not been done yet, and fails the job (MarkFailed) where it cannot.
AcceptLedger(w) ==
    /\ WorkingOn(w, "phase_2") /\ "ledger" \in artifacts
    /\ artifacts' = artifacts \cup {"accepted"}
    /\ UNCHANGED <<job, worker>>

\* Phases 2 and 3 do nothing for a job without an accepted ledger but fail it,
\* and phase 3 nothing without the hand-off.
Needs ==
    [phase_0 |-> {}, phase_1a |-> {}, phase_2 |-> {"accepted"},
     phase_3 |-> {"accepted", "handoff"}]

Provided(w) == Working(w) /\ Needs[worker[w].phase] \subseteq artifacts

SaveArtifact(w) ==
    /\ Provided(w) /\ worker[w].phase \in DOMAIN Produces
    /\ \E a \in Produces[worker[w].phase] \ artifacts :
          artifacts' = artifacts \cup {a}
    /\ UNCHANGED <<job, worker>>

\* complete_phase0_to_phase1a_handoff
Phase0Handoff(w) ==
    /\ WorkingOn(w, "phase_0")
    /\ UpdateWhere(Owns(w) /\ job.phase = "phase_0" /\ job.phaseStatus = "running",
                   QueuedAt(Silenced(Unclaimed(job)), "phase_1a"))
    /\ Becomes(w, Idle)
    /\ UNCHANGED artifacts

\* A requeue that checks only that the row is running.
Requeue(w, n) ==
    /\ UpdateWhere(Running, n)
    /\ Becomes(w, Idle)

\* The function's time budget is spent: the phase goes on in a later one.
SelfChain(w) ==
    /\ Provided(w) /\ worker[w].phase # "phase_0"
    /\ worker[w].phase = "phase_1a" => "chunk_cache" \in artifacts
    /\ Requeue(w, QueuedAt([Unclaimed(job) EXCEPT !.pulse = "none"],
                           worker[w].phase))
    /\ UNCHANGED artifacts

\* The ledger is accepted on the author's behalf (the review gate is switched
\* off) and the job moves on; the short-form path keeps failure_code.
Phase1aHandoff(w) ==
    /\ WorkingOn(w, "phase_1a") /\ "ledger" \in artifacts
    /\ artifacts' = artifacts \cup {"accepted"}
    /\ \E c \in {"none", job.cause} :
          Requeue(w, QueuedAt([Unclaimed(job) EXCEPT !.cause = c], "phase_2"))

\* A story layer whose pass 3a is not in yet is tried again; one that did not
\* pass its gate fails the job.
ReviewGateBlocked(w) ==
    /\ WorkingOn(w, "phase_1a") /\ "ledger" \in artifacts
    /\ \/ Requeue(w, QueuedAt(Unclaimed(job), "phase_1a"))
       \/ Requeue(w, FailedWith([Unclaimed(job) EXCEPT !.phase = "phase_1a"],
                                "deterministic"))
    /\ UNCHANGED artifacts

Phase2Handoff(w) ==
    /\ WorkingOn(w, "phase_2") /\ Provided(w) /\ "handoff" \in artifacts
    /\ Requeue(w, QueuedAt(Unclaimed(job), "phase_3"))
    /\ UNCHANGED artifacts

-----------------------------------------------------------------------------
(* Synthesis and completion                                                *)

Synthesising(w) == WorkingOn(w, "phase_3") /\ Provided(w)

\* Synthesis failed and the phase's own retry budget is not spent: the row is
\* requeued by id alone, claim and failure_code left as they are.
Phase3Retry(w) ==
    /\ Synthesising(w)
    /\ job.retries < MaxRetries
    /\ UpdateWhere(TRUE, [QueuedAt(job, "phase_3") EXCEPT !.retries = @ + 1])
    /\ Becomes(w, Idle)
    /\ UNCHANGED artifacts

\* persistEvaluationResultV2 turns the evaluation down: the row is failed by id
\* alone, and a write the database refuses throws to markFailed.
RejectResult(w) ==
    LET rejected == [FailedWith(job, "deterministic")
                        EXCEPT !.phase = "phase_2", !.beat = "fresh"] IN
    /\ Synthesising(w)
    /\ Accepts(job, rejected)
    /\ UpdateWhere(TRUE, rejected)
    /\ Becomes(w, Idle)
    /\ UNCHANGED artifacts

\* Mutant: the artifact is stored first, and the worker may die before the rest.
PersistResultApart(w, t) ==
    /\ Synthesising(w)
    /\ PersistChain(job, t).commits
    /\ job' \in {job, PersistChain(job, t).row}
    /\ artifacts' = artifacts \cup {"result"}
    /\ Becomes(w, Idle)

PersistResult(w, t) ==
    /\ Synthesising(w)
    /\ PersistChain(job, t).commits
    /\ job' = PersistChain(job, t).row
    /\ artifacts' = artifacts \cup {"result"}
    /\ Becomes(w, Idle)

-----------------------------------------------------------------------------
(* Failure                                                                 *)

\* finalize_job_failure_atomic under the worker's owner and token.
Finalised(c) ==
    [FailedWith(Silenced(Unclaimed(job)), c)
        EXCEPT !.attempts = Bump(job.attempts, MaxAttempts)]

\* markFailed: the RPC fails the job, or finds another owner (lease lost, the
\* worker stops), or errors and leaves the failure to be written directly.
MarkFailed(w, c) ==
    /\ Working(w)
    /\ \/ /\ UpdateWhere(Owns(w), Finalised(c))
          /\ Becomes(w, Idle)
       \/ /\ Becomes(w, [worker[w] EXCEPT !.at = "fallback", !.cause = c])
          /\ UNCHANGED job
    /\ UNCHANGED artifacts

\* markFailed's own write, which knows no phase before phase_1a.
FallbackFail(w) ==
    /\ worker[w].at = "fallback"
    /\ UpdateWhere(Owns(w), [FailedWith(Silenced(Unclaimed(job)), worker[w].cause)
                                EXCEPT !.phase = IF worker[w].phase = "phase_0"
                                                 THEN "phase_1a"
                                                 ELSE worker[w].phase])
    /\ Becomes(w, Idle)
    /\ UNCHANGED artifacts

\* The outer catch of processEvaluationJob goes through the same RPC first ...
Throws(w) ==
    /\ Working(w)
    /\ \/ /\ UpdateWhere(Owns(w), Finalised("transient"))
          /\ Becomes(w, Idle)
       \/ /\ Becomes(w, [worker[w] EXCEPT !.at = "uncaught"])
          /\ UNCHANGED job
    /\ UNCHANGED artifacts

\* ... and then fails the row by id alone, in the phase of the progress it read
\* at the start.
UncaughtFail(w) ==
    /\ worker[w].at = "uncaught"
    /\ \E p \in ProgressPhase(worker[w].phase) :
          UpdateWhere(TRUE,
                      [FailedWith([job EXCEPT !.owner = NoToken], "transient")
                          EXCEPT !.phase = p])
    /\ Becomes(w, Idle)
    /\ UNCHANGED artifacts

-----------------------------------------------------------------------------
WorkerInit == worker = [w \in Workers |-> Idle]

\* fresh: the tokens nobody holds.
WorkerNext(fresh) ==
    \E w \in Workers :
        \/ Begin(w) \/ Crash(w)
        \/ RenewLease(w) \/ Pulse(w) \/ MarkRunning(w)
        \/ AcceptLedger(w) \/ SaveArtifact(w)
        \/ Phase0Handoff(w) \/ SelfChain(w) \/ Phase1aHandoff(w)
        \/ ReviewGateBlocked(w) \/ Phase2Handoff(w)
        \/ Phase3Retry(w) \/ RejectResult(w)
        \/ \E c \in FailureCauses : MarkFailed(w, c)
        \/ FallbackFail(w) \/ Throws(w) \/ UncaughtFail(w)
        \/ \E t \in fresh : Claim(w, t) \/ PersistResult(w, t)
=============================================================================
