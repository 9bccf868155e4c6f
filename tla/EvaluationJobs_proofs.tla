------------------------ MODULE EvaluationJobs_proofs ------------------------
(***************************************************************************)
(* Theorems about EvaluationJobs, for any number of workers, sweeps and    *)
(* tokens, any bounds and any choice of clocks, daemons and requests.      *)
(*                                                                         *)
(* Every step but four kinds sends one UPDATE, or none.  Sends says what   *)
(* is true of every row such an UPDATE asks for; the lemmas of             *)
(* JobRow_proofs then say what the database makes of it, so that a theorem *)
(* looks at the kinds of step and not at the actions.                      *)
(***************************************************************************)
EXTENDS EvaluationJobs, JobRow_proofs

-----------------------------------------------------------------------------
(* The inductive invariant                                                 *)

\* Every code that is about to be written exists.
CodesKnown ==
    /\ FailedIsExplained
    /\ \A w \in Workers : worker[w].at = "fallback" => worker[w].cause # "none"
    /\ cancel.at # "idle" => cancel.code # "none"

\* No worker is at work on a job parked at the review gate.
ParkedIsUnattended ==
    job.phaseStatus = "awaiting_approval" =>
        \A w \in Workers : worker[w].at = "idle"

IInv ==
    /\ TypeOK
    /\ StatusPhaseConsistent(job)
    /\ RunningRequiresClaim(job)
    /\ CodesKnown
    /\ ParkedIsUnattended
    /\ OwnerRunsRowsPhase

-----------------------------------------------------------------------------
(* Kinds of step                                                           *)

\* A run goes on, or a waiting job is taken under a token nobody remembers.
OnOrFresh(n) ==
    \/ Running /\ n.owner = job.owner /\ n.phase = job.phase
    \/ job.status = "queued" /\ n.owner \in FreshTokens

\* A row that a statement sent now may ask for.
Sends(n) ==
    /\ n \in Row
    /\ n.aged = job.aged
    /\ (job.owner # NoToken => job.lease # "none")
          => (n.owner # NoToken => n.lease # "none")
    /\ n.status = "failed" /\ n.phaseStatus = "failed" => n.cause # "none"
    /\ n.status = "complete" => job.status = "complete"
    /\ n.phaseStatus = "awaiting_approval" => job.phaseStatus = "awaiting_approval"
    /\ n.lease = "live" /\ n.status # "running" =>
          job.lease = "live" /\ n.owner \in {job.owner, NoToken}
    /\ \/ n.status # "running" /\ n.owner \in {job.owner, NoToken}
       \/ n.status = "running" /\ OnOrFresh(n)

\* One UPDATE, or none.
Sent == job' = job \/ \E n \in Row : Sends(n) /\ job' = Update(job, n)

\* The persistence transaction of a worker commits, and stores the result.
Persists ==
    /\ "result" \in artifacts'
    /\ \E w \in Workers : worker[w].at # "idle"
    /\ \E t \in Token : /\ PersistChain(job, t).commits
                        /\ job' = PersistChain(job, t).row

\* A timestamp grows old.
Aged ==
    /\ job' \in Row
    /\ job'.status = job.status /\ job'.phaseStatus = job.phaseStatus
    /\ job'.cause = job.cause /\ job'.owner = job.owner
    /\ job'.phase = job.phase
    /\ job'.lease = "live" => job.lease = "live"
    /\ job'.lease = "none" => job.lease = "none"
    /\ job.aged => job'.aged

\* An UPDATE, carried out if the row is as expected, is a step of the first kind.
LEMMA SendsSent ==
    ASSUME NEW n, NEW guard \in BOOLEAN, guard => Sends(n), UpdateWhere(guard, n)
    PROVE  Sent
BY DEF Sends, OnOrFresh, Sent, UpdateWhere

-----------------------------------------------------------------------------
(* Workers                                                                 *)

\* Claims and signs of life send one UPDATE, or none.
LEMMA LifeSends ==
    ASSUME IInv, NEW w \in Workers
    PROVE  /\ \A t \in FreshTokens : Claim(w, t) => Sent
           /\ RenewLease(w) => Sent
           /\ Pulse(w) => Sent
           /\ MarkRunning(w) => Sent
<1>1. /\ job \in Row
      /\ worker[w].phase \in Phase
      /\ job.status = "failed" => job.cause # "none"
  BY DEF IInv, TypeOK, WorkerState, CodesKnown, FailedIsExplained
<1>2. ASSUME NEW t \in FreshTokens, Claim(w, t) PROVE Sent
  <2> DEFINE n == [ClaimedBy(job, t) EXCEPT !.pulse = "fresh"]
  <2>1. n \in Row BY <1>1, ClaimedByType DEF FreshTokens, Row
  <2>2. job.status = "queued" BY <1>2 DEF Claim, Claimable
  <2>3. Sends(n)
    BY <1>1, <2>1, <2>2 DEF Sends, OnOrFresh, ClaimedBy, Row
  <2> QED BY <1>2, <2>3, SendsSent DEF Claim
<1>3. ASSUME RenewLease(w) PROVE Sent
  <2> DEFINE n == [job EXCEPT !.lease = "live", !.pulse = "fresh",
                              !.beat = "fresh"]
  <2>1. n \in Row BY <1>1 DEF Row
  <2>2. CASE Running
    <3>1. Sends(n) BY <1>1, <2>1, <2>2 DEF Sends, OnOrFresh, Running, Row
    <3> QED BY <1>3, <3>1, SendsSent DEF RenewLease, Running
  <2>3. CASE ~Running BY <1>3, <2>3 DEF RenewLease, UpdateWhere, Sent
  <2> QED BY <2>2, <2>3
<1>4. ASSUME Pulse(w) PROVE Sent
  <2> DEFINE n == [job EXCEPT !.pulse = "fresh"]
  <2>1. n \in Row BY <1>1 DEF Row
  <2>2. Sends(n) BY <1>1, <2>1 DEF Sends, OnOrFresh, Running, Row
  <2> QED BY <1>4, <2>2, SendsSent DEF Pulse, Running
<1>5. ASSUME MarkRunning(w) PROVE Sent
  <2> DEFINE n == [job EXCEPT !.phase = worker[w].phase,
                              !.phaseStatus = "running",
                              !.pulse = "fresh", !.beat = "fresh"]
  <2>1. n \in Row BY <1>1 DEF Row, PhaseStatus
  <2>2. ASSUME Owns(w) PROVE job.phase = worker[w].phase
    <3>1. worker[w].at # "idle" /\ job.owner = worker[w].token /\ job.owner # NoToken
      BY <1>5, <2>2
      DEF MarkRunning, Working, Owns, Running, IInv, RunningRequiresClaim
    <3> QED BY <2>2, <3>1 DEF IInv, OwnerRunsRowsPhase
  <2>3. Owns(w) => Sends(n) BY <1>1, <2>1, <2>2
    DEF Sends, OnOrFresh, Owns, Running, Row
  <2> QED BY <1>5, <2>3, SendsSent DEF MarkRunning, Owns, Running
<1> QED BY <1>2, <1>3, <1>4, <1>5

\* So do the hand-offs between phases.
LEMMA HandoffSends ==
    ASSUME IInv, NEW w \in Workers
    PROVE  /\ Phase0Handoff(w) => Sent
           /\ SelfChain(w) => Sent
           /\ Phase1aHandoff(w) => Sent
           /\ ReviewGateBlocked(w) => Sent
           /\ Phase2Handoff(w) => Sent
           /\ Phase3Retry(w) => Sent
<1>1. job \in Row /\ worker[w].phase \in Phase
  BY DEF IInv, TypeOK, WorkerState
<1>2. /\ Unclaimed(job) \in Row
      /\ {"phase_0", "phase_1a", "phase_2", "phase_3"} \subseteq Phase
      /\ {"none", "deterministic"} \subseteq Cause
  BY <1>1, UnclaimedType DEF Phase, Cause
<1>3. ASSUME Phase0Handoff(w) PROVE Sent
  <2> DEFINE n == QueuedAt(Silenced(Unclaimed(job)), "phase_1a")
  <2>1. n \in Row BY <1>2, UnclaimedType, QueuedAtType
  <2>2. Sends(n) BY <1>1, <2>1 DEF Sends, QueuedAt, Silenced, Unclaimed, Row
  <2> QED BY <1>3, <2>2, SendsSent DEF Phase0Handoff, Owns, Running
<1>4. ASSUME SelfChain(w) PROVE Sent
  <2> DEFINE m == [Unclaimed(job) EXCEPT !.pulse = "none"]
             n == QueuedAt(m, worker[w].phase)
  <2>1. m \in Row BY <1>2 DEF Row
  <2>2. n \in Row BY <1>1, <2>1, QueuedAtType
  <2>3. Sends(n) BY <1>1, <2>2 DEF Sends, QueuedAt, Unclaimed, Row
  <2> QED BY <1>4, <2>3, SendsSent DEF SelfChain, Requeue, Running
<1>5. ASSUME Phase1aHandoff(w) PROVE Sent
  <2>1. PICK c \in {"none", job.cause} :
           Requeue(w, QueuedAt([Unclaimed(job) EXCEPT !.cause = c], "phase_2"))
    BY <1>5 DEF Phase1aHandoff
  <2> DEFINE m == [Unclaimed(job) EXCEPT !.cause = c]
             n == QueuedAt(m, "phase_2")
  <2>2. m \in Row BY <1>1, <1>2 DEF Row
  <2>3. n \in Row BY <1>2, <2>2, QueuedAtType
  <2>4. Sends(n) BY <1>1, <2>3 DEF Sends, QueuedAt, Unclaimed, Row
  <2> QED BY <2>1, <2>4, SendsSent DEF Requeue, Running
<1>6. ASSUME ReviewGateBlocked(w) PROVE Sent
  <2> DEFINE again == QueuedAt(Unclaimed(job), "phase_1a")
             m == [Unclaimed(job) EXCEPT !.phase = "phase_1a"]
             blocked == FailedWith(m, "deterministic")
  <2>1. again \in Row BY <1>2, QueuedAtType
  <2>2. m \in Row BY <1>2 DEF Row
  <2>3. blocked \in Row BY <1>2, <2>2, FailedWithType
  <2>4. Sends(again) BY <1>1, <2>1 DEF Sends, QueuedAt, Unclaimed, Row
  <2>5. Sends(blocked) BY <1>1, <2>3 DEF Sends, FailedWith, Unclaimed, Row
  <2>6. Requeue(w, again) \/ Requeue(w, blocked)
    BY <1>6 DEF ReviewGateBlocked
  <2> QED BY <2>4, <2>5, <2>6, SendsSent DEF Requeue, Running
<1>7. ASSUME Phase2Handoff(w) PROVE Sent
  <2> DEFINE n == QueuedAt(Unclaimed(job), "phase_3")
  <2>1. n \in Row BY <1>2, QueuedAtType
  <2>2. Sends(n) BY <1>1, <2>1 DEF Sends, QueuedAt, Unclaimed, Row
  <2> QED BY <1>7, <2>2, SendsSent DEF Phase2Handoff, Requeue, Running
<1>8. ASSUME Phase3Retry(w) PROVE Sent
  <2> DEFINE n == [QueuedAt(job, "phase_3") EXCEPT !.retries = @ + 1]
  <2>1. job.retries + 1 \in 0..MaxRetries
    BY <1>1, <1>8, BoundsAssumption DEF Phase3Retry, Row
  <2>2. /\ n.retries = job.retries + 1
        /\ n = [QueuedAt(job, "phase_3") EXCEPT !.retries = job.retries + 1]
    BY <1>1 DEF QueuedAt, Row
  <2>3. n \in Row
    <3>1. QueuedAt(job, "phase_3") \in Row BY <1>1, <1>2, QueuedAtType
    <3> QED BY <2>1, <2>2, <3>1 DEF Row
  <2>4. Sends(n) BY <1>1, <2>3 DEF Sends, QueuedAt, Row
  <2> QED BY <1>8, <2>4, SendsSent DEF Phase3Retry
<1> QED BY <1>3, <1>4, <1>5, <1>6, <1>7, <1>8

\* So do a worker's failures, each with a code.
LEMMA FailureSends ==
    ASSUME IInv, NEW w \in Workers
    PROVE  /\ RejectResult(w) => Sent
           /\ \A c \in FailureCauses : MarkFailed(w, c) => Sent
           /\ FallbackFail(w) => Sent
           /\ Throws(w) => Sent
           /\ UncaughtFail(w) => Sent
<1>1. /\ job \in Row
      /\ worker[w].phase \in Phase /\ worker[w].cause \in Cause
      /\ worker[w].at = "fallback" => worker[w].cause # "none"
  BY DEF IInv, TypeOK, WorkerState, CodesKnown
<1>2. /\ Silenced(Unclaimed(job)) \in Row
      /\ {"phase_1a", "phase_2"} \subseteq Phase
      /\ {"transient", "deterministic"} \subseteq Cause
  BY <1>1, UnclaimedType DEF Phase, Cause
<1>3. ASSUME NEW c \in Cause \ {"none"} PROVE Sends(Finalised(c))
  <2>1. Bump(job.attempts, MaxAttempts) \in 0..MaxAttempts
    BY <1>1, BumpType, BoundsAssumption DEF Row
  <2>2. FailedWith(Silenced(Unclaimed(job)), c) \in Row
    BY <1>2, FailedWithType
  <2>3. Finalised(c) \in Row BY <2>1, <2>2 DEF Finalised, Row
  <2> QED
    BY <1>1, <2>3 DEF Sends, Finalised, FailedWith, Silenced, Unclaimed, Row
<1>4. ASSUME RejectResult(w) PROVE Sent
  <2> DEFINE n == [FailedWith(job, "deterministic")
                      EXCEPT !.phase = "phase_2", !.beat = "fresh"]
  <2>1. FailedWith(job, "deterministic") \in Row BY <1>1, <1>2, FailedWithType
  <2>2. n \in Row BY <1>2, <2>1 DEF Row
  <2>3. Sends(n) BY <1>1, <2>2 DEF Sends, FailedWith, Row
  <2> QED BY <1>4, <2>3, SendsSent DEF RejectResult
<1>5. ASSUME NEW c \in FailureCauses, MarkFailed(w, c) PROVE Sent
  BY <1>3, <1>5, SendsSent, FailureCausesAssumption
  DEF MarkFailed, Owns, Running, Sent
<1>6. ASSUME FallbackFail(w) PROVE Sent
  <2> DEFINE m == FailedWith(Silenced(Unclaimed(job)), worker[w].cause)
             p == IF worker[w].phase = "phase_0" THEN "phase_1a"
                  ELSE worker[w].phase
             n == [m EXCEPT !.phase = p]
  <2>1. m \in Row BY <1>1, <1>2, FailedWithType
  <2>2. n \in Row BY <1>1, <1>2, <2>1 DEF Row
  <2>3. Sends(n)
    BY <1>1, <1>6, <2>2
    DEF FallbackFail, Sends, FailedWith, Silenced, Unclaimed, Row
  <2> QED BY <1>6, <2>3, SendsSent DEF FallbackFail, Owns, Running
<1>7. ASSUME Throws(w) PROVE Sent
  BY <1>2, <1>3, <1>7, SendsSent DEF Throws, Owns, Running, Sent
<1>8. ASSUME UncaughtFail(w) PROVE Sent
  <2> DEFINE m == [job EXCEPT !.owner = NoToken]
             n(p) == [FailedWith(m, "transient") EXCEPT !.phase = p]
  <2>1. PICK p \in Phase : UpdateWhere(TRUE, n(p))
    BY <1>1, <1>2, <1>8 DEF UncaughtFail, ProgressPhase, Phase
  <2>2. m \in Row BY <1>1 DEF Row
  <2>3. FailedWith(m, "transient") \in Row BY <1>2, <2>2, FailedWithType
  <2>4. n(p) \in Row BY <2>3 DEF Row
  <2>5. Sends(n(p)) BY <1>1, <2>4 DEF Sends, FailedWith, Row
  <2> QED BY <2>1, <2>5, SendsSent
<1> QED BY <1>4, <1>5, <1>6, <1>7, <1>8

\* A worker's step sends one UPDATE, or none, or commits a result.
LEMMA WorkerSteps ==
    ASSUME IInv, WorkerNext(FreshTokens)
    PROVE  Sent \/ Persists
<1>1. PICK w \in Workers :
        \/ Begin(w) \/ Crash(w)
        \/ RenewLease(w) \/ Pulse(w) \/ MarkRunning(w)
        \/ AcceptLedger(w) \/ SaveArtifact(w)
        \/ Phase0Handoff(w) \/ SelfChain(w) \/ Phase1aHandoff(w)
        \/ ReviewGateBlocked(w) \/ Phase2Handoff(w)
        \/ Phase3Retry(w) \/ RejectResult(w)
        \/ \E c \in FailureCauses : MarkFailed(w, c)
        \/ FallbackFail(w) \/ Throws(w) \/ UncaughtFail(w)
        \/ \E t \in FreshTokens : Claim(w, t) \/ PersistResult(w, t)
  BY DEF WorkerNext
<1>2. CASE Begin(w) \/ Crash(w) \/ AcceptLedger(w) \/ SaveArtifact(w)
  BY <1>2 DEF Begin, Crash, AcceptLedger, SaveArtifact, Sent
<1>3. ASSUME NEW t \in FreshTokens, PersistResult(w, t)
      PROVE  Persists
  BY <1>3
  DEF PersistResult, Persists, FreshTokens, Synthesising, WorkingOn, Working
<1>4. FreshTokens \subseteq Token BY DEF FreshTokens
<1> QED BY <1>1, <1>2, <1>3, <1>4, LifeSends, HandoffSends, FailureSends

-----------------------------------------------------------------------------
(* Sweeps                                                                  *)

\* The rescues send one UPDATE, or none.
LEMMA RescueSends ==
    ASSUME IInv, NEW s \in Sweepers
    PROVE  /\ RescueIdle(s) => Sent
           /\ RescueOrphan(s) => Sent
           /\ RescueFrozen(s) => Sent
           /\ RescueStale(s) => Sent
           /\ RequeueRescued(s) => Sent
<1>1. /\ job \in Row /\ job.phase \in Phase /\ sweep[s].to \in Phase
      /\ sweep[s].attempts \in 0..MaxAttempts
  BY DEF IInv, TypeOK, Decision, Row
<1>2. Silenced(Unclaimed(job)) \in Row BY <1>1, UnclaimedType
<1>3. ASSUME RescueIdle(s) PROVE Sent
  <2> DEFINE m == QueuedAt(Silenced(Unclaimed(job)), job.phase)
             n == [m EXCEPT !.attempts = Bump(job.attempts, MaxAttempts)]
  <2>1. Bump(job.attempts, MaxAttempts) \in 0..MaxAttempts
    BY <1>1, BumpType, BoundsAssumption DEF Row
  <2>2. m \in Row BY <1>1, <1>2, QueuedAtType
  <2>3. n \in Row BY <2>1, <2>2 DEF Row
  <2>4. Sends(n)
    BY <1>1, <2>3 DEF Sends, QueuedAt, Silenced, Unclaimed, Row
  <2> QED BY <1>3, <2>4, SendsSent DEF RescueIdle, Writes, Running
<1>4. ASSUME RescueOrphan(s) PROVE Sent
  <2> DEFINE n == QueuedAt(Silenced(Unclaimed(job)), job.phase)
  <2>1. n \in Row BY <1>1, <1>2, QueuedAtType
  <2>2. Sends(n)
    BY <1>1, <2>1 DEF Sends, QueuedAt, Silenced, Unclaimed, Row
  <2> QED BY <1>4, <2>2, SendsSent DEF RescueOrphan, Writes, Running
<1>5. ASSUME RescueFrozen(s) PROVE Sent
  BY <1>5 DEF RescueFrozen, Sent
<1>6. ASSUME RescueStale(s) PROVE Sent
  BY <1>6 DEF RescueStale, Sent
<1>7. ASSUME RequeueRescued(s) PROVE Sent
  <2> DEFINE m == QueuedAt(Unclaimed(job), sweep[s].to)
             n == [m EXCEPT !.attempts = Bump(sweep[s].attempts, MaxAttempts)]
  <2>1. Bump(sweep[s].attempts, MaxAttempts) \in 0..MaxAttempts
    BY <1>1, BumpType, BoundsAssumption
  <2>2. m \in Row BY <1>1, UnclaimedType, QueuedAtType
  <2>3. n \in Row BY <2>1, <2>2 DEF Row
  <2>4. Sends(n) BY <1>1, <2>3 DEF Sends, QueuedAt, Unclaimed, Row
  <2> QED BY <1>7, <2>4, SendsSent DEF RequeueRescued, Writes, Running
<1> QED BY <1>3, <1>4, <1>5, <1>6, <1>7

\* So do the passes that end a job.
LEMMA EndingSends ==
    ASSUME IInv, NEW s \in Sweepers
    PROVE  /\ FailStuckJob(s) => Sent
           /\ \A t \in FreshTokens : Promote(s, t) => Sent
           /\ FailExpiredJob(s) => Sent
           /\ Exhaust(s) => Sent
<1>1. /\ job \in Row /\ job.phase \in Phase
      /\ job.status = "failed" => job.cause # "none"
  BY DEF IInv, TypeOK, Row, CodesKnown, FailedIsExplained
<1>2. /\ Unclaimed(job) \in Row /\ Silenced(Unclaimed(job)) \in Row
      /\ {"transient", "deterministic"} \subseteq Cause
  BY <1>1, UnclaimedType DEF Cause
<1>3. ASSUME FailStuckJob(s) PROVE Sent
  <2> DEFINE n == FailedWith(Unclaimed(job), "transient")
  <2>1. n \in Row BY <1>2, FailedWithType
  <2>2. Sends(n) BY <1>1, <2>1 DEF Sends, FailedWith, Unclaimed, Row
  <2> QED BY <1>3, <2>2, SendsSent DEF FailStuckJob, Writes, Running
<1>5. ASSUME NEW t \in FreshTokens, Promote(s, t) PROVE Sent
  <2>1. Promoted(t) \in Row
    BY <1>1, ClaimedByType DEF Promoted, FreshTokens, Row
  <2>2. job.status = "queued" => Sends(Promoted(t))
    BY <1>1, <2>1 DEF Sends, OnOrFresh, Promoted, ClaimedBy, Row
  <2> QED BY <1>5, <2>2, SendsSent DEF Promote
<1>6. ASSUME FailExpiredJob(s) PROVE Sent
  <2> DEFINE n == FailedWith(Silenced(Unclaimed(job)), "transient")
  <2>1. n \in Row BY <1>2, FailedWithType
  <2>2. Sends(n)
    BY <1>1, <2>1 DEF Sends, FailedWith, Silenced, Unclaimed, Row
  <2> QED BY <1>6, <2>2, SendsSent DEF FailExpiredJob, Writes, Running
<1>7. ASSUME Exhaust(s) PROVE Sent
  <2> DEFINE n == [job EXCEPT !.cause = "deterministic"]
  <2>1. n \in Row BY <1>1, <1>2 DEF Row
  <2>2. Sends(n) BY <1>1, <2>1 DEF Sends, OnOrFresh, Running, Row
  <2> QED BY <1>7, <2>2, SendsSent DEF Exhaust, Writes
<1> QED BY <1>3, <1>5, <1>6, <1>7

\* So does self-recovery.
LEMMA RecoverSends ==
    ASSUME IInv, NEW s \in Sweepers, Recover(s)
    PROVE  Sent
<1>1. job \in Row /\ sweep[s].to \in Phase /\ sweep[s].count \in 0..MaxRecoveries
  BY DEF IInv, TypeOK, Decision
<1> DEFINE m == QueuedAt(Silenced(Unclaimed(job)), sweep[s].to)
           n == [m EXCEPT !.cause = "none",
                          !.recoveries = Bump(sweep[s].count, MaxRecoveries)]
<1>2. m \in Row BY <1>1, UnclaimedType, QueuedAtType
<1>3. Bump(sweep[s].count, MaxRecoveries) \in 0..MaxRecoveries
  BY <1>1, BumpType, BoundsAssumption
<1>4. n \in Row BY <1>2, <1>3 DEF Row, Cause
<1>5. Sends(n) BY <1>1, <1>4 DEF Sends, QueuedAt, Silenced, Unclaimed, Row
<1> QED BY <1>5, SendsSent DEF Recover, Writes

\* So do the passes that read and write in one statement: the SQL sweeper that
\* fails rows without a code cannot fail a row that is not failed yet, and the
\* one that promotes queued rows past the cap is refused.
LEMMA PassSends ==
    ASSUME IInv
    PROVE  /\ RepairReviewGate => Sent
           /\ SlaRequeue => Sent
           /\ KillStale => Sent
           /\ KillOverage => Sent
<1>1. /\ job \in Row
      /\ job.phaseStatus = "failed" => job.cause # "none"
  BY DEF IInv, TypeOK, CodesKnown, FailedIsExplained, StatusPhaseConsistent
<1>2. ASSUME KillStale PROVE Sent
  <2> DEFINE n == [job EXCEPT !.status = "failed", !.stamped = TRUE]
  <2>1. n \in Row BY <1>1 DEF Row, Status
  <2>2. Sends(n)
    BY <1>1, <1>2, <2>1 DEF Sends, OnOrFresh, Row
  <2> QED BY <1>2, <2>2, SendsSent DEF KillStale
<1>3. ASSUME KillOverage PROVE Sent
  <2> DEFINE n == FailedWith(Silenced(Unclaimed(job)), "cap")
             promoted == [job EXCEPT !.status = "running",
                                     !.phaseStatus = "running"]
  <2>1. n \in Row BY <1>1, UnclaimedType, FailedWithType DEF Cause
  <2>2. Sends(n)
    BY <1>1, <2>1 DEF Sends, FailedWith, Silenced, Unclaimed, Row
  <2>3. CASE Running /\ job' = Update(job, n) BY <2>1, <2>2, <2>3 DEF Sent
  <2>4. CASE job.status = "queued"
    <3>1. job.aged BY <1>3 DEF KillOverage
    <3>2. promoted.status = "running" BY <1>1 DEF Row
    <3>3. ~Accepts(job, promoted) BY <2>4, <3>1, <3>2 DEF Accepts, CapRejects
    <3>4. job' = job BY <1>3, <2>4, <3>3 DEF KillOverage, Running
    <3> QED BY <3>4 DEF Sent
  <2> QED BY <1>3, <2>3, <2>4 DEF KillOverage
<1>4. ASSUME RepairReviewGate PROVE Sent
  <2> DEFINE n == [QueuedAt(job, "phase_2") EXCEPT !.cause = "none"]
  <2>1. QueuedAt(job, "phase_2") \in Row BY <1>1, QueuedAtType DEF Phase
  <2>2. n \in Row BY <2>1 DEF Row, Cause
  <2>3. Sends(n) BY <1>1, <2>2 DEF Sends, QueuedAt, Row
  <2> QED BY <1>4, <2>3, SendsSent DEF RepairReviewGate
<1>5. ASSUME SlaRequeue PROVE Sent
  <2> DEFINE n == QueuedAt(job, job.phase)
  <2>1. n \in Row BY <1>1, QueuedAtType DEF Row
  <2>2. Sends(n) BY <1>1, <2>1 DEF Sends, QueuedAt, Row
  <2> QED BY <1>5, <2>2, SendsSent DEF SlaRequeue
<1> QED BY <1>2, <1>3, <1>4, <1>5

\* A sweep's step sends one UPDATE, or none.
LEMMA SweepSteps ==
    ASSUME IInv, SweepNext(FreshTokens)
    PROVE  Sent
<1>1. CASE RepairReviewGate \/ SlaRequeue \/ KillStale \/ KillOverage
  BY <1>1, PassSends
<1>2. ASSUME NEW s \in Sweepers, SweepScan(s) PROVE Sent
  BY <1>2
  DEF SweepScan, ScanIdle, ScanOrphan, ScanFrozen, ScanStale, ScanHardStop,
      ScanKillSwitch, ScanFailed, Scans, Sent
<1>3. ASSUME NEW s \in Sweepers, SweepWrite(s) PROVE Sent
  BY <1>3, RescueSends, EndingSends, RecoverSends DEF SweepWrite
<1>4. ASSUME NEW s \in Sweepers, NEW t \in FreshTokens, Promote(s, t) PROVE Sent
  BY <1>4, EndingSends
<1> QED BY <1>1, <1>2, <1>3, <1>4 DEF SweepNext

-----------------------------------------------------------------------------
(* Requests                                                                *)

\* What people ask of the job sends one UPDATE, or none.
LEMMA ControlSteps ==
    ASSUME IInv, ControlNext(FreshTokens)
    PROVE  Sent
<1>1. /\ job \in Row /\ job.phase \in Phase
      /\ cancel.at # "idle" => cancel.code \in Cause \ {"none"}
  BY DEF IInv, TypeOK, Row, CodesKnown, CancelState, StopCode, CancelCode, Cause
<1>2. /\ Unclaimed(job) \in Row /\ Silenced(Unclaimed(job)) \in Row
      /\ {"none", "deterministic"} \cup StopCode \subseteq Cause
  BY <1>1, UnclaimedType DEF Cause, StopCode, CancelCode
<1>3. ASSUME NEW c \in Cause \ {"none"} PROVE Sends(Cancelled(c))
  <2>1. Cancelled(c) \in Row BY <1>2, FailedWithType DEF Cancelled
  <2> QED
    BY <1>1, <2>1 DEF Sends, Cancelled, FailedWith, Silenced, Unclaimed, Row
<1>4. ASSUME NEW c \in StopCode, CancelRunning(c) PROVE Sent
  BY <1>2, <1>3, <1>4, SendsSent DEF CancelRunning, StopCode, CancelCode
<1>5. ASSUME NEW c \in StopCode, CancelQueued(c) PROVE Sent
  <2> DEFINE n == [job EXCEPT !.phaseStatus = "queued"]
  <2>1. n \in Row BY <1>1 DEF Row, PhaseStatus
  <2>2. Sends(n) BY <1>1, <2>1 DEF Sends, OnOrFresh, Running, Row
  <2> QED BY <1>5, <2>2, SendsSent DEF CancelQueued
<1>6. ASSUME NEW t \in FreshTokens, CancelClaim(t) PROVE Sent
  <2> DEFINE n == [ClaimedBy(job, t) EXCEPT !.pulse = "fresh", !.beat = "fresh"]
  <2>1. n \in Row BY <1>1, ClaimedByType DEF FreshTokens, Row
  <2>2. job.status = "queued" => Sends(n)
    BY <1>1, <2>1 DEF Sends, OnOrFresh, ClaimedBy, Row
  <2> QED BY <1>6, <2>2, SendsSent DEF CancelClaim
<1>7. ASSUME CancelFinish PROVE Sent
  BY <1>1, <1>3, <1>7, SendsSent DEF CancelFinish, Running
<1>8. ASSUME CancelAborts PROVE Sent
  BY <1>8 DEF CancelAborts, Sent
<1>9. ASSUME Resume PROVE Sent
  <2> DEFINE m == QueuedAt(Silenced(Unclaimed(job)), ResumePhase)
             n == [m EXCEPT !.cause = "none"]
  <2>1. ResumePhase \in Phase BY DEF ResumePhase, Phase
  <2>2. m \in Row BY <1>2, <2>1, QueuedAtType
  <2>3. n \in Row BY <1>2, <2>2 DEF Row
  <2>4. Sends(n)
    BY <1>1, <2>3 DEF Sends, QueuedAt, Silenced, Unclaimed, Row
  <2> QED BY <1>9, <2>4, SendsSent DEF Resume
<1>10. ASSUME AdminRetry PROVE Sent
  <2> DEFINE n == QueuedAt(Unclaimed(job), job.phase)
  <2>1. n \in Row BY <1>1, <1>2, QueuedAtType
  <2>2. Sends(n) BY <1>1, <2>1 DEF Sends, QueuedAt, Unclaimed, Row
  <2> QED BY <1>10, <2>2, SendsSent DEF AdminRetry
<1>11. ASSUME RejectLedger PROVE Sent
  <2> DEFINE n == FailedWith(job, "deterministic")
  <2>1. n \in Row BY <1>1, <1>2, FailedWithType
  <2>2. Sends(n) BY <1>1, <2>1 DEF Sends, FailedWith, Row
  <2> QED BY <1>11, <2>2, SendsSent DEF RejectLedger
<1> QED
  BY <1>4, <1>5, <1>6, <1>7, <1>8, <1>9, <1>10, <1>11
  DEF ControlNext, FailTerminally, StopCode

-----------------------------------------------------------------------------
(* All steps                                                               *)

\* A passing of time makes a timestamp older.
LEMMA TimeAges ==
    ASSUME IInv, Time
    PROVE  Aged
<1>1. job \in Row BY DEF IInv, TypeOK
<1>2. CASE LeaseLapses BY <1>1, <1>2 DEF LeaseLapses, Aged, Row
<1>3. CASE PulseAges BY <1>1, <1>3 DEF PulseAges, Aged, Row
<1>4. CASE BeatAges BY <1>1, <1>4 DEF BeatAges, Aged, Row
<1>5. CASE Ages BY <1>1, <1>5 DEF Ages, Aged, Row
<1>6. CASE GoesQuiet BY <1>1, <1>6 DEF GoesQuiet, Aged, Row
<1> QED BY <1>2, <1>3, <1>4, <1>5, <1>6 DEF Time

\* A step of the system is of one of these kinds.
LEMMA StepKinds ==
    ASSUME IInv, [Next]_vars
    PROVE  Sent \/ Persists \/ Aged
<1>1. CASE WorkerNext(FreshTokens) BY <1>1, WorkerSteps
<1>2. CASE SweepNext(FreshTokens) BY <1>2, SweepSteps
<1>3. CASE ControlNext(FreshTokens) BY <1>3, ControlSteps
<1>4. CASE Time BY <1>4, TimeAges
<1>5. CASE UNCHANGED vars BY <1>5 DEF vars, Sent
<1> QED BY <1>1, <1>2, <1>3, <1>4, <1>5 DEF Next

\* A committed persistence completes the row, or past the cap fails it with
\* the cap's code; either way the row is unclaimed.
LEMMA PersistOutcome ==
    ASSUME IInv, Persists
    PROVE  /\ job' \in Row
           /\ StatusPhaseConsistent(job')
           /\ job'.lease = "none" /\ job'.owner = NoToken
           /\ job'.phase = "phase_2" /\ job'.aged = job.aged
           /\ \/ job'.status = "complete"
              \/ job'.status = "failed" /\ job'.cause = "cap" /\ job'.aged
BY ChainOutcome DEF Persists, IInv, TypeOK

-----------------------------------------------------------------------------
(* What is remembered between statements                                   *)

\* A worker goes on under its token in its phase, has none, or begins with those
\* of the row.
Keeps(x, y) ==
    /\ y.phase \in {x.phase, job.phase, "phase_0"}
    /\ y.token \in {x.token, job.owner, NoToken}
    /\ y.at # "idle" =>
          \/ x.at # "idle" /\ y.token = x.token /\ y.phase = x.phase
          \/ y.token = NoToken
          \/ job' = job /\ y.token = job.owner /\ y.phase = job.phase

\* What a worker may turn into: it comes to work only on a job that is not
\* parked, and to a pending failure only with a code.
Moves ==
    /\ worker' \in [Workers -> WorkerState]
    /\ \A v \in Workers :
          /\ worker'[v].at # "idle" =>
                worker[v].at # "idle" \/ job'.phaseStatus # "awaiting_approval"
          /\ worker'[v].at = "fallback" => worker'[v].cause # "none"
          /\ Keeps(worker[v], worker'[v])

\* One worker moves and the others stay where they are.
LEMMA BecomesMoves ==
    ASSUME IInv, NEW w \in Workers, NEW x \in WorkerState, Becomes(w, x),
           x.at # "idle" =>
              worker[w].at # "idle" \/ job'.phaseStatus # "awaiting_approval",
           x.at = "fallback" => x.cause # "none",
           Keeps(worker[w], x)
    PROVE  Moves
BY DEF Moves, Keeps, Becomes, IInv, TypeOK, CodesKnown

\* Workers move like that.
LEMMA WorkersMove ==
    ASSUME IInv, WorkerNext(FreshTokens)
    PROVE  Moves
<1>1. /\ Idle \in WorkerState /\ Idle.at = "idle"
      /\ Idle.phase = "phase_0" /\ Idle.token = NoToken
  BY DEF Idle, WorkerState, Phase, Cause
<1>2. job \in Row /\ worker \in [Workers -> WorkerState] BY DEF IInv, TypeOK
<1>3. ASSUME NEW w \in Workers, Becomes(w, Idle) PROVE Moves
  BY <1>1, <1>3, BecomesMoves DEF Keeps
<1>4. ASSUME UNCHANGED worker PROVE Moves
  BY <1>4 DEF Moves, Keeps, IInv, TypeOK, CodesKnown
<1>5. ASSUME NEW w \in Workers, NEW t \in FreshTokens, Claim(w, t) PROVE Moves
  <2> DEFINE n == [ClaimedBy(job, t) EXCEPT !.pulse = "fresh"]
             x == [Idle EXCEPT !.at = "claimed"]
  <2>1. CASE Accepts(job, n) /\ Becomes(w, x)
    <3>1. n \in Row /\ n.phaseStatus = "running"
      BY <1>2, ClaimedByType DEF FreshTokens, ClaimedBy, Row
    <3>2. job' = Update(job, n) BY <1>5 DEF Claim, UpdateWhere
    <3>3. job'.phaseStatus # "awaiting_approval"
      BY <1>2, <1>5, <3>1, <3>2, UpdatePhaseStatus DEF Claim, Claimable
    <3>4. x \in WorkerState /\ x.at = "claimed" /\ Keeps(worker[w], x)
      BY DEF Idle, WorkerState, Phase, Cause, Keeps
    <3> QED BY <2>1, <3>3, <3>4, BecomesMoves
  <2> QED BY <1>4, <1>5, <2>1 DEF Claim
<1>6. ASSUME NEW w \in Workers, Begin(w) PROVE Moves
  <2> DEFINE x == [Idle EXCEPT !.at = "working", !.token = job.owner,
                               !.phase = job.phase]
  <2>1. /\ x \in WorkerState /\ x.at = "working"
        /\ x.token = job.owner /\ x.phase = job.phase
    BY <1>2 DEF Idle, WorkerState, Cause, Row
  <2>2. worker[w].at # "idle" BY <1>6 DEF Begin
  <2>3. Becomes(w, x) \/ Becomes(w, Idle) BY <1>6 DEF Begin
  <2>4. Keeps(worker[w], x) BY <1>6, <2>1 DEF Begin, Keeps
  <2> QED BY <1>3, <2>1, <2>2, <2>3, <2>4, BecomesMoves
<1>7. ASSUME NEW w \in Workers, NEW c \in FailureCauses, MarkFailed(w, c)
      PROVE  Moves
  <2> DEFINE x == [worker[w] EXCEPT !.at = "fallback", !.cause = c]
  <2>1. /\ x \in WorkerState /\ x.at = "fallback" /\ x.cause # "none"
        /\ x.token = worker[w].token /\ x.phase = worker[w].phase
    BY <1>2, FailureCausesAssumption DEF WorkerState
  <2>2. worker[w].at # "idle" BY <1>7 DEF MarkFailed, Working
  <2>3. Becomes(w, x) \/ Becomes(w, Idle) BY <1>7 DEF MarkFailed
  <2>4. Keeps(worker[w], x) BY <2>1, <2>2 DEF Keeps
  <2> QED BY <1>3, <2>1, <2>2, <2>3, <2>4, BecomesMoves
<1>8. ASSUME NEW w \in Workers, Throws(w) PROVE Moves
  <2> DEFINE x == [worker[w] EXCEPT !.at = "uncaught"]
  <2>1. /\ x \in WorkerState /\ x.at = "uncaught"
        /\ x.token = worker[w].token /\ x.phase = worker[w].phase
    BY <1>2 DEF WorkerState
  <2>2. worker[w].at # "idle" BY <1>8 DEF Throws, Working
  <2>3. Becomes(w, x) \/ Becomes(w, Idle) BY <1>8 DEF Throws
  <2>4. Keeps(worker[w], x) BY <2>1, <2>2 DEF Keeps
  <2> QED BY <1>3, <2>1, <2>2, <2>3, <2>4, BecomesMoves
<1>9. ASSUME NEW w \in Workers,
             \/ RenewLease(w) \/ Pulse(w) \/ MarkRunning(w)
             \/ AcceptLedger(w) \/ SaveArtifact(w)
      PROVE  Moves
  BY <1>4, <1>9
  DEF RenewLease, Pulse, MarkRunning, AcceptLedger, SaveArtifact
<1>10. ASSUME NEW w \in Workers,
              \/ Crash(w) \/ Phase0Handoff(w) \/ SelfChain(w)
              \/ Phase1aHandoff(w) \/ ReviewGateBlocked(w) \/ Phase2Handoff(w)
              \/ Phase3Retry(w) \/ RejectResult(w)
              \/ FallbackFail(w) \/ UncaughtFail(w)
              \/ \E t \in FreshTokens : PersistResult(w, t)
       PROVE  Moves
  <2>1. Becomes(w, Idle)
    BY <1>10
    DEF Crash, Phase0Handoff, SelfChain, Phase1aHandoff, ReviewGateBlocked,
        Phase2Handoff, Phase3Retry, RejectResult, FallbackFail, UncaughtFail,
        PersistResult, Requeue
  <2> QED BY <1>3, <2>1
<1> QED
  BY <1>5, <1>6, <1>7, <1>8, <1>9, <1>10 DEF WorkerNext

\* Four of a worker's steps store artifacts.
LEMMA WorkersThatStore ==
    ASSUME WorkerNext(FreshTokens)
    PROVE  \/ UNCHANGED artifacts
           \/ \E w \in Workers :
                 \/ AcceptLedger(w) \/ SaveArtifact(w) \/ Phase1aHandoff(w)
                 \/ \E t \in FreshTokens : PersistResult(w, t)
<1>1. ASSUME NEW w \in Workers,
             \/ Begin(w) \/ Crash(w) \/ RenewLease(w) \/ Pulse(w)
             \/ MarkRunning(w) \/ Phase0Handoff(w) \/ SelfChain(w)
             \/ ReviewGateBlocked(w) \/ Phase2Handoff(w) \/ Phase3Retry(w)
             \/ RejectResult(w) \/ FallbackFail(w) \/ Throws(w) \/ UncaughtFail(w)
             \/ \E c \in FailureCauses : MarkFailed(w, c)
             \/ \E t \in FreshTokens : Claim(w, t)
      PROVE  UNCHANGED artifacts
  BY <1>1
  DEF Begin, Crash, RenewLease, Pulse, MarkRunning, Phase0Handoff, SelfChain,
      ReviewGateBlocked, Phase2Handoff, Phase3Retry, RejectResult, FallbackFail,
      Throws, UncaughtFail, MarkFailed, Claim
<1> QED BY <1>1 DEF WorkerNext

\* Workers store artifacts of the known types, and delete none.
LEMMA WorkersStore ==
    ASSUME WorkerNext(FreshTokens)
    PROVE  \E more \in SUBSET ArtifactType : artifacts' = artifacts \cup more
<1>1. CASE UNCHANGED artifacts
  <2>1. artifacts' = artifacts \cup {} BY <1>1
  <2> QED BY <2>1
<1>2. ASSUME NEW a \in ArtifactType, artifacts' = artifacts \cup {a}
      PROVE  \E more \in SUBSET ArtifactType : artifacts' = artifacts \cup more
  BY <1>2
<1>3. /\ {"accepted", "result"} \subseteq ArtifactType
      /\ \A p \in DOMAIN Produces : Produces[p] \subseteq ArtifactType
  BY DEF ArtifactType, Produces
<1>4. ASSUME NEW w \in Workers, SaveArtifact(w)
      PROVE  \E more \in SUBSET ArtifactType : artifacts' = artifacts \cup more
  BY <1>2, <1>3, <1>4 DEF SaveArtifact
<1>5. ASSUME NEW w \in Workers, AcceptLedger(w) \/ Phase1aHandoff(w)
      PROVE  \E more \in SUBSET ArtifactType : artifacts' = artifacts \cup more
  BY <1>2, <1>3, <1>5 DEF AcceptLedger, Phase1aHandoff
<1>6. ASSUME NEW w \in Workers, NEW t \in FreshTokens, PersistResult(w, t)
      PROVE  \E more \in SUBSET ArtifactType : artifacts' = artifacts \cup more
  BY <1>2, <1>3, <1>6 DEF PersistResult
<1> QED BY <1>1, <1>4, <1>5, <1>6, WorkersThatStore

\* The sweeps keep their decisions in shape, and touch no worker.
LEMMA SweepsMove ==
    ASSUME IInv, SweepNext(FreshTokens)
    PROVE  sweep' \in [Sweepers -> Decision] /\ artifacts' \subseteq ArtifactType
<1>1. /\ sweep \in [Sweepers -> Decision]
      /\ artifacts \subseteq ArtifactType
      /\ job \in Row
  BY DEF IInv, TypeOK
<1>2. /\ Nothing \in Decision /\ FailStuck \in Decision /\ FailExpired \in Decision
      /\ \A p \in Phase : Rescue(p) \in Decision
  <2>1. Nothing \in Decision BY BoundsAssumption DEF Nothing, Decision, Phase
  <2> QED BY <2>1 DEF FailStuck, FailExpired, Rescue, Decision
<1>3. ASSUME NEW s \in Sweepers, NEW d \in Decision, Decides(s, d)
      PROVE  sweep' \in [Sweepers -> Decision]
  BY <1>1, <1>3 DEF Decides
<1>4. ASSUME NEW s \in Sweepers, NEW daemon, NEW d \in Decision,
             Scans(s, daemon, d)
      PROVE  sweep' \in [Sweepers -> Decision] /\ artifacts' \subseteq ArtifactType
  BY <1>1, <1>3, <1>4 DEF Scans
<1>5. ASSUME NEW s \in Sweepers, SweepScan(s)
      PROVE  sweep' \in [Sweepers -> Decision] /\ artifacts' \subseteq ArtifactType
  <2>1. CASE ScanIdle(s)
    <3>1. [Nothing EXCEPT !.do = "rescue_idle", !.token = job.owner] \in Decision
      BY <1>1, <1>2 DEF Decision, Row
    <3> QED BY <1>4, <2>1, <3>1 DEF ScanIdle
  <2>2. CASE ScanOrphan(s)
    <3>1. [Nothing EXCEPT !.do = "rescue_orphan"] \in Decision
      BY <1>2 DEF Decision
    <3> QED BY <1>4, <2>2, <3>1 DEF ScanOrphan
  <2>3. CASE ScanFrozen(s)
    <3>1. FrozenDecisions \subseteq Decision
      BY <1>2 DEF FrozenDecisions, Phase
    <3> QED BY <1>4, <2>3, <3>1 DEF ScanFrozen
  <2>4. CASE ScanStale(s)
    <3>1. StaleDecision \in Decision
      BY <1>2 DEF StaleDecision, Decision, Checkpoint
    <3> QED BY <1>4, <2>4, <3>1 DEF ScanStale
  <2>5. CASE ScanHardStop(s)
    <3>1. [Nothing EXCEPT !.do = "promote_hard_stop"] \in Decision
      BY <1>2 DEF Decision
    <3> QED BY <1>4, <2>5, <3>1 DEF ScanHardStop
  <2>6. CASE ScanKillSwitch(s)
    <3>1. [Nothing EXCEPT !.do = "promote_kill"] \in Decision
      BY <1>2 DEF Decision
    <3> QED BY <1>2, <1>4, <2>6, <3>1 DEF ScanKillSwitch
  <2>7. CASE ScanFailed(s)
    <3>1. [Nothing EXCEPT !.do = "exhaust"] \in Decision
      BY <1>2 DEF Decision
    <3>2. ResumePhase \in Phase /\ "phase_1a" \in Phase
      BY DEF ResumePhase, Phase
    <3>3. \A p \in Phase : [Nothing EXCEPT !.do = "recover", !.to = p,
                                           !.count = job.recoveries] \in Decision
      BY <1>1, <1>2 DEF Decision, Row
    <3>4. PICK p \in {ResumePhase, "phase_1a"} :
             \/ Scans(s, "self_recovery", [Nothing EXCEPT !.do = "exhaust"])
             \/ Scans(s, "self_recovery",
                      [Nothing EXCEPT !.do = "recover", !.to = p,
                                      !.count = job.recoveries])
      BY <2>7 DEF ScanFailed
    <3> QED BY <1>4, <3>1, <3>2, <3>3, <3>4
  <2> QED BY <1>5, <2>1, <2>2, <2>3, <2>4, <2>5, <2>6, <2>7 DEF SweepScan
<1>6. ASSUME NEW s \in Sweepers, SweepWrite(s)
      PROVE  sweep' \in [Sweepers -> Decision] /\ artifacts' \subseteq ArtifactType
  <2>1. artifacts' \in {artifacts, artifacts \cup {"accepted"}}
    BY <1>6
    DEF SweepWrite, RescueIdle, RescueOrphan, RescueFrozen, RescueStale,
        RequeueRescued, FailStuckJob, FailExpiredJob, Recover, Exhaust, Writes
  <2>2. CASE RescueFrozen(s) \/ RescueStale(s)
    <3>1. PICK p \in Phase : Rereads(s, p)
      BY <1>1, <2>2
      DEF RescueFrozen, RescueStale, StaleTarget, Decision, Phase
    <3>2. [Nothing EXCEPT !.do = "requeue", !.to = p,
                          !.attempts = job.attempts] \in Decision
      BY <1>1, <1>2 DEF Decision, Row
    <3> QED BY <1>1, <1>3, <2>1, <3>1, <3>2 DEF Rereads, ArtifactType
  <2>3. CASE ~(RescueFrozen(s) \/ RescueStale(s))
    <3>1. Decides(s, Nothing)
      BY <1>6, <2>3
      DEF SweepWrite, RescueIdle, RescueOrphan, RequeueRescued, FailStuckJob,
          FailExpiredJob, Recover, Exhaust, Writes
    <3> QED BY <1>1, <1>2, <1>3, <2>1, <3>1 DEF ArtifactType
  <2> QED BY <2>2, <2>3
<1>7. ASSUME NEW s \in Sweepers, NEW t \in FreshTokens, Promote(s, t)
      PROVE  sweep' \in [Sweepers -> Decision] /\ artifacts' \subseteq ArtifactType
  <2>1. UNCHANGED artifacts /\ (Decides(s, Nothing) \/ Decides(s, FailExpired))
    BY <1>7 DEF Promote
  <2> QED BY <1>1, <1>2, <1>3, <2>1
<1>8. CASE RepairReviewGate \/ SlaRequeue \/ KillStale \/ KillOverage
  BY <1>1, <1>8
  DEF RepairReviewGate, SlaRequeue, KillStale, KillOverage, ArtifactType
<1> QED BY <1>5, <1>6, <1>7, <1>8 DEF SweepNext

\* Requests keep the record of a cancellation in shape, with its code.
LEMMA ControlsMove ==
    ASSUME IInv, ControlNext(FreshTokens)
    PROVE  /\ cancel' \in CancelState
           /\ cancel'.at # "idle" => cancel'.code # "none"
           /\ UNCHANGED artifacts
<1>1. cancel \in CancelState /\ (cancel.at # "idle" => cancel.code # "none")
  BY DEF IInv, TypeOK, CodesKnown
<1>2. NoCancel \in CancelState /\ NoCancel.at = "idle"
  BY DEF NoCancel, CancelState
<1>3. ASSUME NEW c \in StopCode, CancelQueued(c)
      PROVE  /\ cancel' \in CancelState /\ cancel'.code # "none"
             /\ UNCHANGED artifacts
  BY <1>3 DEF CancelQueued, NoCancel, CancelState, StopCode, CancelCode
<1>4. ASSUME NEW t \in FreshTokens, CancelClaim(t)
      PROVE  /\ cancel' \in CancelState
             /\ cancel'.at # "idle" => cancel'.code # "none"
             /\ UNCHANGED artifacts
  <2> DEFINE next == [cancel EXCEPT !.at = "claimed", !.token = t]
  <2>1. next \in CancelState /\ next.code = cancel.code
    BY <1>1 DEF CancelState, FreshTokens
  <2>2. cancel.code # "none" BY <1>1, <1>4 DEF CancelClaim
  <2>3. cancel' = next \/ cancel' = NoCancel BY <1>4 DEF CancelClaim
  <2> QED BY <1>2, <1>4, <2>1, <2>2, <2>3 DEF CancelClaim
<1>5. CASE CancelFinish \/ CancelAborts
  BY <1>2, <1>5 DEF CancelFinish, CancelAborts
<1>6. CASE \/ \E c \in StopCode : CancelRunning(c)
           \/ Resume \/ AdminRetry \/ RejectLedger
  BY <1>1, <1>6 DEF CancelRunning, Resume, AdminRetry, RejectLedger
<1> QED BY <1>3, <1>4, <1>5, <1>6 DEF ControlNext, FailTerminally, StopCode

-----------------------------------------------------------------------------
(* The invariant                                                           *)

\* A row stays a consistent one, is claimed when it is running, and has a code
\* when it is failed.
LEMMA RowsStay ==
    ASSUME IInv, [Next]_vars
    PROVE  /\ job' \in Row
           /\ StatusPhaseConsistent(job')
           /\ RunningRequiresClaim(job')
           /\ Leased(job')
           /\ job'.status = "failed" => job'.cause # "none"
<1>1. /\ job \in Row /\ StatusPhaseConsistent(job) /\ RunningRequiresClaim(job)
      /\ job.owner # NoToken => job.lease # "none"
      /\ job.status = "failed" => job.cause # "none"
  BY DEF IInv, TypeOK, Leased, CodesKnown, FailedIsExplained
<1>2. CASE Sent
  <2>1. CASE job' = job BY <1>1, <2>1 DEF Leased
  <2>2. ASSUME NEW n \in Row, Sends(n), job' = Update(job, n)
        PROVE  /\ job' \in Row
               /\ StatusPhaseConsistent(job')
               /\ RunningRequiresClaim(job')
               /\ Leased(job')
               /\ job'.status = "failed" => job'.cause # "none"
    <3>1. n.status = "failed" /\ n.phaseStatus = "failed" => n.cause # "none"
      BY <2>2 DEF Sends
    <3>2. RunningRequiresClaim(job')
      BY <1>1, <2>2, UpdateOutcome DEF Accepts, RunningRequiresClaim
    <3>3. n.owner # NoToken => n.lease # "none" BY <1>1, <2>2 DEF Sends
    <3>4. Leased(job')
      BY <1>1, <2>2, <3>3, UpdateOutcome, CappedOutcome DEF Leased
    <3> QED
      BY <1>1, <2>2, <3>1, <3>2, <3>4, UpdateType, UpdateConsistent,
         UpdateExplained
  <2> QED BY <1>2, <2>1, <2>2 DEF Sent
<1>3. CASE Persists BY <1>3, PersistOutcome DEF RunningRequiresClaim, Leased
<1>4. CASE Aged
  BY <1>1, <1>4 DEF Aged, StatusPhaseConsistent, RunningRequiresClaim, Leased
<1> QED BY <1>2, <1>3, <1>4, StepKinds

\* Who is running after a step was so before, in the same phase, or has a token
\* that nobody remembers.
LEMMA RunsOnOrFresh ==
    ASSUME IInv, [Next]_vars, job'.status = "running"
    PROVE  OnOrFresh(job')
<1>1. job \in Row BY DEF IInv, TypeOK
<1>2. CASE job' = job BY <1>2 DEF Running, OnOrFresh
<1>3. ASSUME NEW n \in Row, Sends(n), job' = Update(job, n), job' # job
      PROVE  OnOrFresh(job')
  <2>1. n.status = "running" /\ job'.owner = n.owner /\ job'.phase = n.phase
    BY <1>1, <1>3, UpdateOutcome, CappedOutcome
  <2> QED BY <1>3, <2>1 DEF Sends, OnOrFresh, OnOrFresh
<1>4. CASE Persists BY <1>4, PersistOutcome
<1>5. CASE Aged BY <1>5 DEF Aged, Running, OnOrFresh
<1> QED BY <1>2, <1>3, <1>4, <1>5, StepKinds DEF Sent

\* No step parks a job: only a row that is parked asks to be.
LEMMA NobodyParks ==
    ASSUME IInv, [Next]_vars, job'.phaseStatus = "awaiting_approval"
    PROVE  job.phaseStatus = "awaiting_approval"
<1>1. job \in Row BY DEF IInv, TypeOK
<1>2. CASE Sent
  <2>1. ASSUME NEW n \in Row, Sends(n), job' = Update(job, n)
        PROVE  job.phaseStatus = "awaiting_approval"
    BY <1>1, <2>1, UpdatePhaseStatus DEF Sends
  <2> QED BY <1>2, <2>1 DEF Sent
<1>3. CASE Persists BY <1>3, PersistOutcome DEF StatusPhaseConsistent
<1>4. CASE Aged BY <1>4 DEF Aged
<1> QED BY <1>2, <1>3, <1>4, StepKinds

\* What is remembered keeps its shape.
LEMMA MemoryStays ==
    ASSUME IInv, [Next]_vars
    PROVE  /\ Moves
           /\ artifacts' \subseteq ArtifactType
           /\ sweep' \in [Sweepers -> Decision]
           /\ cancel' \in CancelState
           /\ cancel'.at # "idle" => cancel'.code # "none"
<1>1. /\ artifacts \subseteq ArtifactType
      /\ sweep \in [Sweepers -> Decision]
      /\ cancel \in CancelState
      /\ cancel.at # "idle" => cancel.code # "none"
  BY DEF IInv, TypeOK, CodesKnown
<1>2. UNCHANGED worker => Moves
  BY DEF Moves, Keeps, IInv, TypeOK, CodesKnown
<1>3. CASE WorkerNext(FreshTokens) /\ UNCHANGED <<sweep, cancel>>
  <2>1. artifacts' \subseteq ArtifactType
    BY <1>3, WorkersStore DEF IInv, TypeOK
  <2> QED BY <1>1, <1>3, <2>1, WorkersMove
<1>4. CASE SweepNext(FreshTokens) /\ UNCHANGED <<worker, cancel>>
  BY <1>1, <1>2, <1>4, SweepsMove
<1>5. CASE ControlNext(FreshTokens) /\ UNCHANGED <<worker, sweep>>
  BY <1>1, <1>2, <1>5, ControlsMove
<1>6. CASE Time /\ UNCHANGED <<worker, sweep, cancel>>
  <2>1. UNCHANGED artifacts
    BY <1>6 DEF Time, LeaseLapses, PulseAges, BeatAges, Ages, GoesQuiet
  <2> QED BY <1>1, <1>2, <1>6, <2>1
<1>7. CASE UNCHANGED vars BY <1>1, <1>2, <1>7 DEF vars
<1> QED BY <1>3, <1>4, <1>5, <1>6, <1>7 DEF Next

\* The invariant holds at the start.
LEMMA InitIInv == Init => IInv
<1> SUFFICES ASSUME Init PROVE IInv OBVIOUS
<1>1. job \in {FreshRow, ParkedRow} /\ artifacts \in {{}, {"ledger"}}
  BY DEF Init, TableInit
<1>2. FreshRow \in Row
  BY BoundsAssumption DEF FreshRow, Row, Status, Phase, PhaseStatus, Cause
<1>3. ParkedRow \in Row BY <1>2 DEF ParkedRow, Row, Phase, PhaseStatus
<1>4. job.status = "queued"
      /\ job.phaseStatus \in {"queued", "awaiting_approval"}
  <2>1. CASE job = FreshRow BY <2>1 DEF FreshRow
  <2>2. CASE job = ParkedRow BY <1>2, <2>2 DEF ParkedRow, FreshRow, Row
  <2> QED BY <1>1, <2>1, <2>2
<1>5. Idle \in WorkerState /\ Nothing \in Decision /\ NoCancel \in CancelState
  BY BoundsAssumption
  DEF Idle, WorkerState, Nothing, Decision, NoCancel, CancelState, Phase, Cause
<1>6. /\ worker = [w \in Workers |-> Idle]
      /\ sweep = [s \in Sweepers |-> Nothing]
      /\ cancel = NoCancel
  BY DEF Init, WorkerInit, SweepInit, ControlInit
<1>7. Leased(job)
  <2>1. FreshRow.owner = NoToken BY DEF FreshRow
  <2>2. ParkedRow.owner = FreshRow.owner BY DEF ParkedRow, FreshRow
  <2> QED BY <1>1, <2>1, <2>2 DEF Leased
<1>11. TypeOK BY <1>1, <1>2, <1>3, <1>5, <1>6, <1>7 DEF TypeOK, ArtifactType
<1>8. CodesKnown
  BY <1>4, <1>6 DEF CodesKnown, FailedIsExplained, Idle, NoCancel
<1>9. ParkedIsUnattended BY <1>6 DEF ParkedIsUnattended, Idle
<1>10. OwnerRunsRowsPhase BY <1>6 DEF OwnerRunsRowsPhase, Idle
<1> QED
  BY <1>4, <1>8, <1>9, <1>10, <1>11
  DEF IInv, StatusPhaseConsistent, RunningRequiresClaim

\* Every step keeps it.
LEMMA NextIInv == IInv /\ [Next]_vars => IInv'
<1> SUFFICES ASSUME IInv, [Next]_vars PROVE IInv' OBVIOUS
<1>1. TypeOK' BY RowsStay, MemoryStays DEF TypeOK, Leased, Moves
<1>2. StatusPhaseConsistent(job)' BY RowsStay DEF StatusPhaseConsistent
<1>3. CodesKnown'
  BY RowsStay, MemoryStays DEF CodesKnown, FailedIsExplained, Moves
<1>4. ParkedIsUnattended'
  <2> SUFFICES ASSUME job'.phaseStatus = "awaiting_approval",
                      NEW w \in Workers
               PROVE  worker'[w].at = "idle"
    BY DEF ParkedIsUnattended
  <2>1. worker[w].at = "idle" BY NobodyParks DEF IInv, ParkedIsUnattended
  <2> QED BY <2>1, MemoryStays DEF Moves
<1>5. RunningRequiresClaim(job)' BY RowsStay DEF RunningRequiresClaim
<1>6. OwnerRunsRowsPhase'
  <2> SUFFICES ASSUME NEW w \in Workers, worker'[w].at # "idle",
                      worker'[w].token # NoToken,
                      job'.status = "running", job'.owner = worker'[w].token
               PROVE  job'.phase = worker'[w].phase
    BY DEF OwnerRunsRowsPhase, Owns, Running
  <2>1. Keeps(worker[w], worker'[w]) BY MemoryStays DEF Moves
  <2>2. CASE worker[w].at # "idle" /\ worker'[w].token = worker[w].token
             /\ worker'[w].phase = worker[w].phase
    <3>1. job'.owner \notin FreshTokens BY <2>2 DEF FreshTokens, Held
    <3>2. Running /\ job'.owner = job.owner /\ job'.phase = job.phase
      BY <3>1, RunsOnOrFresh DEF OnOrFresh
    <3> QED BY <2>2, <3>2 DEF IInv, OwnerRunsRowsPhase, Owns
  <2>3. CASE job' = job /\ worker'[w].phase = job.phase BY <2>3
  <2> QED BY <2>1, <2>2, <2>3 DEF Keeps
<1> QED BY <1>1, <1>2, <1>3, <1>4, <1>5, <1>6 DEF IInv

\* The inductive invariant holds throughout.
THEOREM Invariance == Spec => []IInv
BY InitIInv, NextIInv, PTL DEF Spec

-----------------------------------------------------------------------------
(* Theorems                                                                *)

\* The row, the artifacts, and what workers, sweeps and a cancellation remember
\* between two statements keep their shape, and a row with an owner has a lease.
THEOREM TypeCorrect == Spec => []TypeOK
<1>1. IInv => TypeOK BY DEF IInv
<1> QED BY <1>1, Invariance, PTL

\* Whatever fails a job, the row has a code for resume and self-recovery to
\* classify, also when it is failed by the sweeper that writes none.
THEOREM FailedExplained == Spec => []FailedIsExplained
<1>1. IInv => FailedIsExplained BY DEF IInv, CodesKnown
<1> QED BY <1>1, Invariance, PTL

\* A worker whose token is on a running row works on the phase the row is in:
\* nothing changes the phase under a token, and no token comes back.
THEOREM OwnersPhase == Spec => []OwnerRunsRowsPhase
<1>1. IInv => OwnerRunsRowsPhase BY DEF IInv
<1> QED BY <1>1, Invariance, PTL

\* No step takes a job out of complete.
LEMMA CompleteStep ==
    ASSUME IInv, [Next]_vars, job.status = "complete"
    PROVE  job'.status = "complete"
<1>1. job \in Row /\ StatusPhaseConsistent(job) BY DEF IInv, TypeOK
<1>2. CASE Sent BY <1>1, <1>2, CompleteStays DEF Sent
<1>3. CASE Persists
  <2>1. job.phaseStatus = "complete" BY <1>1 DEF StatusPhaseConsistent
  <2>2. PICK t \in Token : job' = PersistChain(job, t).row
    BY <1>3 DEF Persists
  <2>3. job' = Update(job, Completed(job)) BY <2>1, <2>2 DEF PersistChain
  <2>4. Completed(job) \in Row
    <3>1. Unclaimed(job) \in Row BY <1>1, UnclaimedType
    <3> QED BY <3>1 DEF Completed, Row, Status, Phase, PhaseStatus
  <2> QED BY <1>1, <2>3, <2>4, CompleteStays
<1>4. CASE Aged BY <1>4 DEF Aged
<1> QED BY <1>2, <1>3, <1>4, StepKinds

\* No write, however late and however loosely guarded, reopens or fails a
\* completed evaluation.
THEOREM CompleteForever == Spec => CompleteIsFinal
<1>1. IInv /\ [Next]_vars =>
         [job.status = "complete" => job'.status = "complete"]_vars
  BY CompleteStep
<1> QED BY <1>1, Invariance, PTL DEF Spec, CompleteIsFinal

\* The sweeps store nothing but an accepted ledger.
LEMMA SweepsStore ==
    ASSUME SweepNext(FreshTokens)
    PROVE  artifacts' \in {artifacts, artifacts \cup {"accepted"}}
<1>1. ASSUME NEW s \in Sweepers, SweepScan(s) PROVE UNCHANGED artifacts
  <2>1. \E daemon, d : Scans(s, daemon, d)
    BY <1>1
    DEF SweepScan, ScanIdle, ScanOrphan, ScanFrozen, ScanStale, ScanHardStop,
        ScanKillSwitch, ScanFailed
  <2> QED BY <2>1 DEF Scans
<1>2. ASSUME NEW s \in Sweepers, SweepWrite(s)
      PROVE  artifacts' \in {artifacts, artifacts \cup {"accepted"}}
  BY <1>2
  DEF SweepWrite, RescueIdle, RescueOrphan, RescueFrozen, RescueStale,
      RequeueRescued, FailStuckJob, FailExpiredJob, Recover, Exhaust, Writes
<1>3. ASSUME NEW s \in Sweepers, NEW t \in FreshTokens, Promote(s, t)
      PROVE  UNCHANGED artifacts
  BY <1>3 DEF Promote
<1>4. CASE RepairReviewGate BY <1>4 DEF RepairReviewGate
<1>5. CASE SlaRequeue \/ KillStale \/ KillOverage
  BY <1>5 DEF SlaRequeue, KillStale, KillOverage
<1> QED BY <1>1, <1>2, <1>3, <1>4, <1>5 DEF SweepNext

\* A result is stored by the transaction that completes the job.
LEMMA ResultIsPersisted ==
    ASSUME IInv, [Next]_vars, "result" \in artifacts', "result" \notin artifacts
    PROVE  Persists
<1>1. ASSUME NEW w \in Workers, NEW t \in FreshTokens, PersistResult(w, t)
      PROVE  Persists
  BY <1>1
  DEF PersistResult, Persists, FreshTokens, Synthesising, WorkingOn, Working
<1>2. ASSUME NEW w \in Workers,
             AcceptLedger(w) \/ SaveArtifact(w) \/ Phase1aHandoff(w)
      PROVE  FALSE
  BY <1>2 DEF AcceptLedger, SaveArtifact, Phase1aHandoff, Produces
<1>3. CASE WorkerNext(FreshTokens) BY <1>1, <1>2, <1>3, WorkersThatStore
<1>4. ~SweepNext(FreshTokens) BY SweepsStore
<1>5. ~ControlNext(FreshTokens) BY ControlsMove
<1>6. ~Time BY DEF Time, LeaseLapses, PulseAges, BeatAges, Ages, GoesQuiet
<1> QED BY <1>3, <1>4, <1>5, <1>6 DEF Next, vars

\* A job does not grow younger.
LEMMA AgedStays ==
    ASSUME IInv, [Next]_vars, job.aged
    PROVE  job'.aged
<1>1. job \in Row BY DEF IInv, TypeOK
<1>2. CASE Sent BY <1>1, <1>2, UpdateOutcome DEF Sent, Sends
<1>3. CASE Persists BY <1>3, PersistOutcome
<1>4. CASE Aged BY <1>4 DEF Aged
<1> QED BY <1>2, <1>3, <1>4, StepKinds

\* Once a result is stored the job is complete, and stays so; only past the
\* cap may the trigger have failed the job that the transaction completes.
THEOREM PersistedComplete == Spec => []PersistedIsComplete
<1>1. Init => PersistedIsComplete BY DEF Init, TableInit, PersistedIsComplete
<1>2. IInv /\ PersistedIsComplete /\ [Next]_vars => PersistedIsComplete'
  <2> SUFFICES ASSUME IInv, [Next]_vars, PersistedIsComplete,
                      "result" \in artifacts'
               PROVE  job'.status = "complete" \/ job'.aged
    BY DEF PersistedIsComplete
  <2>1. CASE "result" \in artifacts
    BY <2>1, CompleteStep, AgedStays DEF PersistedIsComplete
  <2>2. CASE "result" \notin artifacts
    BY <2>2, ResultIsPersisted, PersistOutcome
  <2> QED BY <2>1, <2>2
<1> QED BY <1>1, <1>2, Invariance, PTL DEF Spec

\* A persistence that commits past the cap fails the run, unless the job is
\* complete already.
LEMMA PersistPastCap ==
    ASSUME IInv, Persists, job.aged
    PROVE  \/ Running /\ job'.status = "failed"
           \/ job.status = "complete" /\ job'.status = "complete"
<1>1. job \in Row /\ StatusPhaseConsistent(job) BY DEF IInv, TypeOK
<1>2. job.phaseStatus # "awaiting_approval"
  BY DEF Persists, IInv, ParkedIsUnattended
<1> QED BY <1>1, <1>2, ChainPastCap DEF Persists, Running

\* Two hours after its creation nothing gives a job a new lease, starts it or
\* completes it: the trigger stops every write that tries, for every writer.
THEOREM CapHolds == Spec => CapIsNeverExtended
<1> DEFINE Capping ==
      job.aged =>
         /\ job'.lease = "live" =>
               job.lease = "live" /\ job'.owner \in {job.owner, NoToken}
         /\ job'.status \in {"running", "complete"} => job'.status = job.status
<1>1. ASSUME IInv, [Next]_vars PROVE Capping
  <2> SUFFICES ASSUME job.aged
               PROVE  /\ job'.lease = "live" =>
                            /\ job.lease = "live"
                            /\ job'.owner \in {job.owner, NoToken}
                      /\ job'.status \in {"running", "complete"} =>
                            job'.status = job.status
    OBVIOUS
  <2>1. job \in Row /\ StatusPhaseConsistent(job) BY <1>1 DEF IInv, TypeOK
  <2>2. CASE job' = job BY <2>2
  <2>3. ASSUME NEW n \in Row, Sends(n), job' = Update(job, n), job' # job
        PROVE  /\ job'.lease = "live" =>
                     job.lease = "live" /\ job'.owner \in {job.owner, NoToken}
               /\ job'.status \in {"running", "complete"} =>
                     job'.status = job.status
    <3>1. /\ job'.status # "running"
          /\ job'.lease = "live" =>
                n.lease = "live" /\ n.status # "running" /\ job'.owner = n.owner
      BY <2>1, <2>3, CapStops
    <3>2. job'.status \in {n.status, "failed"}
      BY <2>1, <2>3, UpdateOutcome, CappedOutcome
    <3> QED BY <2>3, <3>1, <3>2 DEF Sends
  <2>4. CASE Sent BY <2>2, <2>3, <2>4 DEF Sent
  <2>5. CASE Persists BY <1>1, <2>5, PersistOutcome, PersistPastCap
  <2>6. CASE Aged BY <2>6 DEF Aged
  <2> QED BY <1>1, <2>4, <2>5, <2>6, StepKinds
<1>2. IInv /\ [Next]_vars => [Capping]_vars BY <1>1
<1> QED BY <1>2, Invariance, PTL DEF Spec, CapIsNeverExtended

-----------------------------------------------------------------------------
(* The life of a job                                                       *)

\* A row's owner stays, leaves, or takes the row out of the queue.
LEMMA OwnerStays ==
    ASSUME IInv, [Next]_vars
    PROVE  \/ job'.owner \in {job.owner, NoToken}
           \/ job'.status = "running" /\ job'.owner \in FreshTokens
<1>1. job \in Row BY DEF IInv, TypeOK
<1>2. ASSUME NEW n \in Row, Sends(n), job' = Update(job, n), job' # job
      PROVE  \/ job'.owner \in {job.owner, NoToken}
             \/ job'.status = "running" /\ job'.owner \in FreshTokens
  <2>1. /\ job'.owner = Capped(job, n).owner
        /\ job'.status = Capped(job, n).status
    BY <1>1, <1>2, UpdateOutcome
  <2> QED BY <1>1, <1>2, <2>1, CappedOutcome DEF Sends, OnOrFresh
<1>3. CASE Persists BY <1>3, PersistOutcome
<1>4. CASE Aged BY <1>4 DEF Aged
<1> QED BY <1>2, <1>3, <1>4, StepKinds DEF Sent

\* A sweep remembers a token only from the row.
LEMMA SweepTokens ==
    ASSUME IInv, SweepNext(FreshTokens), NEW s \in Sweepers
    PROVE  sweep'[s].token \in {sweep[s].token, job.owner, NoToken}
<1>1. sweep \in [Sweepers -> Decision] BY DEF IInv, TypeOK
<1>2. ASSUME NEW v \in Sweepers, NEW d, Decides(v, d),
             d.token \in {job.owner, NoToken}
      PROVE  sweep'[s].token \in {sweep[s].token, job.owner, NoToken}
  BY <1>1, <1>2 DEF Decides
<1>3. /\ Nothing.token = NoToken /\ FailStuck.token = NoToken
      /\ FailExpired.token = NoToken
      /\ \A p : Rescue(p).token = NoToken
  BY DEF Nothing, FailStuck, FailExpired, Rescue
<1>4. ASSUME NEW v \in Sweepers, SweepScan(v)
      PROVE  sweep'[s].token \in {sweep[s].token, job.owner, NoToken}
  <2>1. CASE ScanIdle(v)
    BY <1>2, <2>1 DEF ScanIdle, Scans, Nothing
  <2>2. CASE ScanFrozen(v)
    <3>1. \A d \in FrozenDecisions : d.token = NoToken
      BY <1>3 DEF FrozenDecisions
    <3> QED BY <1>2, <2>2, <3>1 DEF ScanFrozen, Scans
  <2>3. CASE ScanStale(v)
    <3>1. StaleDecision.token = NoToken BY <1>3 DEF StaleDecision, Nothing
    <3> QED BY <1>2, <2>3, <3>1 DEF ScanStale, Scans
  <2>4. CASE ScanOrphan(v) \/ ScanHardStop(v)
    BY <1>2, <2>4 DEF ScanOrphan, ScanHardStop, Scans, Nothing
  <2>5. CASE ScanKillSwitch(v)
    <3>1. [Nothing EXCEPT !.do = "promote_kill"].token = NoToken BY DEF Nothing
    <3> QED BY <1>2, <1>3, <2>5, <3>1 DEF ScanKillSwitch, Scans
  <2>6. CASE ScanFailed(v)
    <3>1. PICK p : Decides(v, IF job.recoveries >= MaxRecoveries
                              THEN [Nothing EXCEPT !.do = "exhaust"]
                              ELSE [Nothing EXCEPT !.do = "recover", !.to = p,
                                                   !.count = job.recoveries])
      BY <2>6 DEF ScanFailed, Scans
    <3>2. /\ [Nothing EXCEPT !.do = "exhaust"].token = NoToken
          /\ [Nothing EXCEPT !.do = "recover", !.to = p,
                             !.count = job.recoveries].token = NoToken
      BY DEF Nothing
    <3> QED BY <1>2, <3>1, <3>2
  <2> QED
    BY <1>4, <2>1, <2>2, <2>3, <2>4, <2>5, <2>6 DEF SweepScan
<1>5. ASSUME NEW v \in Sweepers, SweepWrite(v)
      PROVE  sweep'[s].token \in {sweep[s].token, job.owner, NoToken}
  <2>1. Decides(v, Nothing) \/ \E p : Rereads(v, p)
    BY <1>5
    DEF SweepWrite, RescueIdle, RescueOrphan, RescueFrozen, RescueStale,
        RequeueRescued, FailStuckJob, FailExpiredJob, Recover, Exhaust, Writes
  <2> QED BY <1>2, <1>3, <2>1 DEF Rereads, Nothing
<1>6. ASSUME NEW v \in Sweepers, NEW t \in FreshTokens, Promote(v, t)
      PROVE  sweep'[s].token \in {sweep[s].token, job.owner, NoToken}
  BY <1>2, <1>3, <1>6 DEF Promote
<1>7. CASE RepairReviewGate \/ SlaRequeue \/ KillStale \/ KillOverage
  BY <1>7 DEF RepairReviewGate, SlaRequeue, KillStale, KillOverage
<1> QED BY <1>4, <1>5, <1>6, <1>7 DEF SweepNext

\* A cancellation remembers the token it put on the row.
LEMMA CancelTokens ==
    ASSUME IInv, ControlNext(FreshTokens)
    PROVE  cancel'.token \in {cancel.token, job'.owner, NoToken}
<1>1. job \in Row /\ cancel \in CancelState BY DEF IInv, TypeOK
<1>2. NoCancel.token = NoToken BY DEF NoCancel
<1>3. ASSUME NEW c \in StopCode, CancelQueued(c)
      PROVE  cancel'.token = NoToken
  BY <1>3 DEF CancelQueued, NoCancel
<1>4. ASSUME NEW t \in FreshTokens, CancelClaim(t)
      PROVE  cancel'.token \in {cancel.token, job'.owner, NoToken}
  <2> DEFINE n == [ClaimedBy(job, t) EXCEPT !.pulse = "fresh", !.beat = "fresh"]
             next == [cancel EXCEPT !.at = "claimed", !.token = t]
  <2>1. next.token = t BY <1>1 DEF CancelState
  <2>2. n \in Row /\ n.owner = t
    BY <1>1, ClaimedByType DEF FreshTokens, ClaimedBy, Row
  <2>3. CASE job.status = "queued" /\ Accepts(job, n)
    <3>1. job' = Update(job, n) /\ cancel' = next
      BY <1>4, <2>3 DEF CancelClaim, UpdateWhere
    <3> HIDE DEF n
    <3>2. job'.owner = Capped(job, n).owner
      BY <1>1, <2>2, <2>3, <3>1, UpdateOutcome
    <3>3. Capped(job, n) = n BY <1>1, <2>2, <2>3, CappedOutcome
    <3> QED BY <2>1, <2>2, <3>1, <3>2, <3>3
  <2>4. CASE ~(job.status = "queued" /\ Accepts(job, n))
    <3>1. cancel' = NoCancel BY <1>4, <2>4 DEF CancelClaim
    <3> QED BY <1>2, <3>1
  <2> QED BY <2>3, <2>4
<1>5. CASE CancelFinish \/ CancelAborts
  BY <1>2, <1>5 DEF CancelFinish, CancelAborts
<1>6. CASE \/ \E c \in StopCode : CancelRunning(c)
           \/ Resume \/ AdminRetry \/ RejectLedger
  BY <1>6 DEF CancelRunning, Resume, AdminRetry, RejectLedger
<1> QED BY <1>3, <1>4, <1>5, <1>6 DEF ControlNext, FailTerminally, StopCode

\* A token that nobody remembers comes back only on the row.
LEMMA HeldStays ==
    ASSUME IInv, [Next]_vars
    PROVE  Held' \subseteq Held \cup {job'.owner, NoToken}
<1>1. ASSUME NEW w \in Workers
      PROVE  worker'[w].token \in {worker[w].token, job.owner, NoToken}
  BY MemoryStays DEF Moves, Keeps
<1>2. ASSUME NEW s \in Sweepers
      PROVE  sweep'[s].token \in {sweep[s].token, job.owner, NoToken}
  BY SweepTokens DEF Next, vars
<1>3. cancel'.token \in {cancel.token, job'.owner, NoToken}
  BY CancelTokens DEF Next, vars
<1> QED BY <1>1, <1>2, <1>3 DEF Held

\* What a step makes of the job's status, its owner and its phase.
LEMMA LifeStep ==
    ASSUME IInv, [Next]_vars
    PROVE  \/ /\ job.status = "queued" /\ ~job.aged
              /\ job'.status = "running" /\ job'.owner \in FreshTokens
           \/ Running /\ ~job.aged /\ job'.status = "queued"
           \/ Running /\ job'.status = "failed"
           \/ job.status = "failed" /\ job'.status = "queued"
           \/ /\ job.status # "complete" /\ ~job.aged
              /\ job'.status = "complete"
           \/ /\ job'.status = job.status
              /\ Running => job'.owner = job.owner /\ job'.phase = job.phase
<1>1. /\ job \in Row /\ StatusPhaseConsistent(job)
      /\ job' \in Row
  BY RowsStay DEF IInv, TypeOK
<1>2. job'.status = "running" => OnOrFresh(job') BY RunsOnOrFresh
<1>3. CASE Sent
  <2>1. CASE job' = job BY <2>1
  <2>2. ASSUME NEW n \in Row, Sends(n), job' = Update(job, n), job' # job
        PROVE  job'.status = "complete" => job.status = "complete"
    <3>1. job'.status \in {n.status, "failed"}
      BY <1>1, <2>2, UpdateOutcome, CappedOutcome
    <3> QED BY <2>2, <3>1 DEF Sends
  <2>3. ASSUME NEW n \in Row, Sends(n), job' = Update(job, n)
        PROVE  \/ job'.status = job.status
               \/ job.status = "queued" /\ job'.status = "running" /\ ~job.aged
               \/ job.status = "queued" /\ job'.status = "complete"
               \/ /\ Running /\ job'.status \in {"queued", "complete"}
                  /\ ~job.aged
               \/ Running /\ job'.status = "failed"
               \/ job.status = "failed" /\ job'.status = "queued"
    BY <1>1, <2>3, UpdateMoves DEF Running
  <2> QED BY <1>2, <1>3, <2>1, <2>2, <2>3 DEF Sent, OnOrFresh, Running
<1>4. CASE Persists
  <2>1. CASE job.aged
    BY <1>4, <2>1, PersistPastCap DEF Running
  <2>2. CASE ~job.aged
    BY <1>4, <2>2, PersistOutcome DEF Running
  <2> QED BY <2>1, <2>2
<1>5. CASE Aged BY <1>5 DEF Aged
<1> QED BY <1>3, <1>4, <1>5, StepKinds

\* Whatever the workers, sweeps and people do, in whatever order, the job lives
\* as the abstract lifecycle says: no run is taken over or moved to another
\* phase, tickets that are still spoken for are not given out again, only a run
\* fails, completion is final, and past the cap nothing starts or completes.
THEOREM JobLivesAsPromised == Spec => FollowsLifecycle
<1>1. Init => Lifecycle!Init
  <2> SUFFICES ASSUME Init PROVE Lifecycle!Init OBVIOUS
  <2>1. job.status = "queued" /\ job.owner = NoToken /\ ~job.aged
    <3>1. job = FreshRow \/ job = ParkedRow BY DEF Init, TableInit
    <3>2. /\ FreshRow.status = "queued" /\ ParkedRow.status = "queued"
          /\ FreshRow.owner = NoToken /\ ParkedRow.owner = NoToken
          /\ ~FreshRow.aged /\ ~ParkedRow.aged
      BY DEF FreshRow, ParkedRow
    <3> QED BY <3>1, <3>2
  <2>2. Held \subseteq {NoToken}
    BY <2>1
    DEF Held, Init, WorkerInit, SweepInit, ControlInit, Idle, Nothing, NoCancel
  <2>3. ~Running /\ Held \ {NoToken} = {} /\ job.aged \in BOOLEAN
    BY <2>1, <2>2, InitIInv DEF Running, IInv, TypeOK, Row
  <2>4. job.aged = FALSE BY <2>1, <2>3
  <2> QED BY <2>1, <2>3, <2>4 DEF Lifecycle!Init
<1>2. IInv /\ [Next]_vars => [Lifecycle!Next]_(Lifecycle!lives)
  <2> SUFFICES ASSUME IInv, [Next]_vars PROVE Lifecycle!Next OBVIOUS
  <2>1. job.aged => job'.aged BY AgedStays
  <2> DEFINE spoken == Held \ {NoToken}
             tenure == IF Running THEN {<<job.owner, job.phase>>} ELSE {}
  <2>2. CASE /\ job.status = "queued" /\ ~job.aged
             /\ job'.status = "running" /\ job'.owner \in FreshTokens
    <3>1. /\ job'.owner \in Token \ spoken /\ job'.phase \in Phase
          /\ tenure' = {<<job'.owner, job'.phase>>}
      BY <2>2, RowsStay DEF FreshTokens, Row, Running
    <3>2. spoken' \subseteq spoken \cup {job'.owner} BY HeldStays
    <3>3. Lifecycle!Starts("job") BY <2>2, <3>1, <3>2 DEF Lifecycle!Starts
    <3> QED BY <2>1, <3>3 DEF Lifecycle!Next
  <2>3. CASE ~(job'.status = "running" /\ job'.owner \in FreshTokens)
    <3>1. spoken' \subseteq spoken
      <4>1. job'.owner \in {job.owner, NoToken} BY <2>3, OwnerStays
      <4>2. job.owner \in Held BY DEF Held
      <4> QED BY <4>1, <4>2, HeldStays
    <3>2. CASE job'.status # "running" /\ job'.status # job.status
      <4>1. tenure' = {} BY <3>2 DEF Running
      <4>2. job.status \in Status BY DEF IInv, TypeOK, Row
      <4>3. \/ Lifecycle!Requeues("job") \/ Lifecycle!Fails("job")
            \/ Lifecycle!Revives("job") \/ Lifecycle!Completes("job")
        BY <3>1, <3>2, <4>1, <4>2, LifeStep
        DEF Lifecycle!Requeues, Lifecycle!Fails, Lifecycle!Revives,
            Lifecycle!Completes, Lifecycle!Leaves, Running, Status
      <4> QED BY <2>1, <4>3 DEF Lifecycle!Next
    <3>3. CASE job'.status = job.status
      <4>1. Running => job'.owner = job.owner /\ job'.phase = job.phase
        BY <3>3, LifeStep DEF Running
      <4>2. tenure' = tenure BY <3>3, <4>1 DEF Running
      <4>3. Lifecycle!Stays("job") BY <3>1, <3>3, <4>2 DEF Lifecycle!Stays
      <4> QED BY <2>1, <4>3 DEF Lifecycle!Next
    <3> QED BY <2>3, <3>2, <3>3, LifeStep
  <2>4. CASE job'.status = "running" /\ job'.owner \in FreshTokens
    <3>1. ~Running
      <4>1. job.owner \in Held BY DEF Held
      <4> QED BY <2>4, <4>1, LifeStep DEF FreshTokens, Running
    <3> QED BY <2>2, <2>4, <3>1, LifeStep DEF Running
  <2> QED BY <2>3, <2>4
<1> QED
  BY <1>1, <1>2, Invariance, PTL DEF Spec, FollowsLifecycle, Lifecycle!Spec
=============================================================================
