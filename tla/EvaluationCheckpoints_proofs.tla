--------------------- MODULE EvaluationCheckpoints_proofs ---------------------
(***************************************************************************)
(* That no requeue puts a job past checkpoints it has not earned, for any  *)
(* number of workers, sweeps and tokens, any clocks and any requests.      *)
(***************************************************************************)
EXTENDS EvaluationJobs_proofs

-----------------------------------------------------------------------------
(* The inductive invariant                                                 *)

\* Checkpoints are stored in the order of the phases.
Ordered ==
    /\ "accepted" \in artifacts => "ledger" \in artifacts
    /\ "handoff" \in artifacts => "accepted" \in artifacts
    /\ "result" \in artifacts => "handoff" \in artifacts

\* With these artifacts stored a job may be in phase p.
Placed(p, stored) == p = "phase_3" => "handoff" \in stored

\* A decision to requeue was taken on checkpoints that are still there.
DecisionPlaced(d, stored) ==
    /\ d.do = "rescue_frozen" =>
          Placed(d.to, stored) /\ (d.to = "phase_2" => "ledger" \in stored)
    /\ d.do = "rescue_stale" => d.seen \subseteq stored
    /\ d.do \in {"requeue", "recover"} => Placed(d.to, stored)

CInv ==
    /\ Ordered
    /\ Placed(job.phase, artifacts)
    /\ job.status = "complete" => "result" \in artifacts
    /\ \A w \in Workers : Placed(worker[w].phase, artifacts)
    /\ \A s \in Sweepers : DecisionPlaced(sweep[s], artifacts)

-----------------------------------------------------------------------------
(* Where a step takes the job                                              *)

\* It leaves the job in its phase, or takes it to one it finds its checkpoint in.
Leads == job'.phase = job.phase \/ Placed(job'.phase, artifacts)

\* A worker's writes lead there: it works in a phase it found its checkpoint in.
LEMMA WorkerLeads ==
    ASSUME IInv, CInv, NEW w \in Workers
    PROVE  /\ \A t \in FreshTokens : Claim(w, t) => Leads
           /\ RenewLease(w) \/ Pulse(w) \/ MarkRunning(w) => Leads
           /\ Phase0Handoff(w) \/ SelfChain(w) => Leads
           /\ Phase1aHandoff(w) \/ ReviewGateBlocked(w) => Leads
           /\ Phase2Handoff(w) \/ Phase3Retry(w) \/ RejectResult(w) => Leads
           /\ \A c \in FailureCauses : MarkFailed(w, c) => Leads
           /\ FallbackFail(w) \/ Throws(w) \/ UncaughtFail(w) => Leads
<1>1. job \in Row /\ Placed(worker[w].phase, artifacts) BY DEF IInv, TypeOK, CInv
<1> USE DEF UpdateWhere, Update, Stored, Capped, FailedWith, Silenced,
            Unclaimed, QueuedAt, Row, Leads
<1>2. ASSUME NEW t \in FreshTokens, Claim(w, t) PROVE Leads
  BY <1>1, <1>2 DEF Claim, Claimable, ClaimedBy
<1>3. ASSUME RenewLease(w) \/ Pulse(w) PROVE Leads
  BY <1>1, <1>3 DEF RenewLease, Pulse
<1>4. ASSUME MarkRunning(w) PROVE Leads
  BY <1>1, <1>4 DEF MarkRunning
<1>5. ASSUME Phase0Handoff(w) PROVE Leads
  BY <1>1, <1>5 DEF Phase0Handoff, Placed
<1>6. ASSUME SelfChain(w) PROVE Leads
  BY <1>1, <1>6 DEF SelfChain, Requeue
<1>7. ASSUME Phase1aHandoff(w) PROVE Leads
  <2>1. PICK c \in {"none", job.cause} :
           Requeue(w, QueuedAt([Unclaimed(job) EXCEPT !.cause = c], "phase_2"))
    BY <1>7 DEF Phase1aHandoff
  <2>2. job'.phase \in {job.phase, "phase_2"}
    BY <1>1, <2>1 DEF Requeue
  <2> QED BY <2>2 DEF Placed
<1>8. ASSUME ReviewGateBlocked(w) PROVE Leads
  <2> DEFINE again == QueuedAt(Unclaimed(job), "phase_1a")
             blocked == FailedWith([Unclaimed(job) EXCEPT !.phase = "phase_1a"],
                                   "deterministic")
  <2>1. UpdateWhere(Running, again) \/ UpdateWhere(Running, blocked)
    BY <1>8 DEF ReviewGateBlocked, Requeue
  <2>2. CASE UpdateWhere(Running, again) BY <1>1, <2>2 DEF Placed
  <2>3. CASE UpdateWhere(Running, blocked) BY <1>1, <2>3 DEF Placed
  <2> QED BY <2>1, <2>2, <2>3
<1>9. ASSUME Phase2Handoff(w) PROVE Leads
  BY <1>1, <1>9 DEF Phase2Handoff, Requeue, Placed
<1>10. ASSUME Phase3Retry(w) PROVE Leads
  BY <1>1, <1>10
  DEF Phase3Retry, Synthesising, WorkingOn, Provided, Needs, Placed
<1>11. ASSUME RejectResult(w) PROVE Leads
  BY <1>1, <1>11 DEF RejectResult, Placed
<1>12. ASSUME NEW c \in FailureCauses, MarkFailed(w, c) PROVE Leads
  BY <1>1, <1>12 DEF MarkFailed, Finalised
<1>13. ASSUME FallbackFail(w) PROVE Leads
  BY <1>1, <1>13 DEF FallbackFail, Placed
<1>14. ASSUME Throws(w) PROVE Leads
  BY <1>1, <1>14 DEF Throws, Finalised
<1>15. ASSUME UncaughtFail(w) PROVE Leads
  <2> DEFINE n(p) == [FailedWith([job EXCEPT !.owner = NoToken], "transient")
                         EXCEPT !.phase = p]
  <2>1. PICK p \in ProgressPhase(worker[w].phase) : UpdateWhere(TRUE, n(p))
    BY <1>15 DEF UncaughtFail
  <2>2. Placed(p, artifacts) BY <1>1 DEF ProgressPhase, Placed
  <2> QED BY <1>1, <2>1, <2>2
<1> HIDE DEF Leads
<1> QED
  BY <1>2, <1>3, <1>4, <1>5, <1>6, <1>7, <1>8, <1>9, <1>10, <1>11, <1>12,
     <1>13, <1>14, <1>15

\* So do a sweep's: what it decided on is still stored when it writes.
LEMMA SweepLeads ==
    ASSUME IInv, CInv, SweepNext(FreshTokens)
    PROVE  Leads
<1>1. job \in Row /\ Placed(job.phase, artifacts) BY DEF IInv, TypeOK, CInv
<1> USE DEF UpdateWhere, Update, Stored, Capped, FailedWith, Silenced,
            Unclaimed, QueuedAt, Row, Leads
<1>2. ASSUME NEW s \in Sweepers, SweepScan(s) PROVE Leads
  BY <1>2
  DEF SweepScan, ScanIdle, ScanOrphan, ScanFrozen, ScanStale, ScanHardStop,
      ScanKillSwitch, ScanFailed, Scans
<1>3. ASSUME NEW s \in Sweepers, RescueIdle(s) \/ RescueOrphan(s) PROVE Leads
  BY <1>1, <1>3 DEF RescueIdle, RescueOrphan, Writes, Running
<1>4. ASSUME NEW s \in Sweepers, RescueFrozen(s) \/ RescueStale(s) PROVE Leads
  BY <1>4 DEF RescueFrozen, RescueStale
<1>5. ASSUME NEW s \in Sweepers, RequeueRescued(s) PROVE Leads
  BY <1>1, <1>5 DEF RequeueRescued, Writes, CInv, DecisionPlaced
<1>6. ASSUME NEW s \in Sweepers, FailStuckJob(s) \/ FailExpiredJob(s) PROVE Leads
  BY <1>1, <1>6 DEF FailStuckJob, FailExpiredJob, Writes
<1>7. ASSUME NEW s \in Sweepers, Recover(s) PROVE Leads
  BY <1>1, <1>7 DEF Recover, Writes, CInv, DecisionPlaced
<1>8. ASSUME NEW s \in Sweepers, Exhaust(s) PROVE Leads
  BY <1>1, <1>8 DEF Exhaust, Writes
<1>9. ASSUME NEW s \in Sweepers, NEW t \in FreshTokens, Promote(s, t) PROVE Leads
  BY <1>1, <1>9 DEF Promote, Promoted, ClaimedBy
<1>10. ASSUME RepairReviewGate PROVE Leads
  BY <1>1, <1>10 DEF RepairReviewGate, Placed
<1>11. ASSUME SlaRequeue PROVE Leads
  BY <1>1, <1>11 DEF SlaRequeue
<1>12. ASSUME KillStale PROVE Leads
  BY <1>1, <1>12 DEF KillStale
<1>13. ASSUME KillOverage PROVE Leads
  BY <1>1, <1>13 DEF KillOverage, Running
<1> HIDE DEF Leads
<1> QED
  BY <1>2, <1>3, <1>4, <1>5, <1>6, <1>7, <1>8, <1>9, <1>10, <1>11, <1>12, <1>13
  DEF SweepNext, SweepWrite

\* So does all that is asked of a job: an administrator's retry leaves the
\* phase as it is.
LEMMA ControlLeads ==
    ASSUME IInv, CInv, ControlNext(FreshTokens)
    PROVE  Leads
<1>1. job \in Row BY DEF IInv, TypeOK
<1> USE DEF UpdateWhere, Update, Stored, Capped, FailedWith, Silenced,
            Unclaimed, QueuedAt, Row, Leads
<1>2. ASSUME NEW c \in StopCode, CancelRunning(c) PROVE Leads
  BY <1>1, <1>2 DEF CancelRunning, Cancelled
<1>3. ASSUME NEW c \in StopCode, CancelQueued(c) PROVE Leads
  BY <1>1, <1>3 DEF CancelQueued
<1>4. ASSUME NEW t \in FreshTokens, CancelClaim(t) PROVE Leads
  BY <1>1, <1>4 DEF CancelClaim, ClaimedBy
<1>5. ASSUME CancelFinish PROVE Leads
  BY <1>1, <1>5 DEF CancelFinish, Cancelled
<1>6. ASSUME CancelAborts PROVE Leads
  BY <1>6 DEF CancelAborts
<1>7. ASSUME Resume PROVE Leads
  <2>1. Placed(ResumePhase, artifacts)
    BY DEF ResumePhase, Placed, CInv, Ordered
  <2> QED BY <1>1, <1>7, <2>1 DEF Resume
<1>8. ASSUME AdminRetry PROVE Leads
  BY <1>1, <1>8 DEF AdminRetry
<1>9. ASSUME RejectLedger PROVE Leads
  BY <1>1, <1>9 DEF RejectLedger
<1> HIDE DEF Leads
<1> QED
  BY <1>2, <1>3, <1>4, <1>5, <1>6, <1>7, <1>8, <1>9
  DEF ControlNext, FailTerminally, StopCode

\* A step leads there, or completes the job, or is a timestamp's.
LEMMA StepLeads ==
    ASSUME IInv, CInv, [Next]_vars
    PROVE  Leads \/ Persists \/ Aged
<1>1. ASSUME UNCHANGED job PROVE Leads BY <1>1 DEF Leads
<1>2. ASSUME NEW w \in Workers,
             Begin(w) \/ Crash(w) \/ AcceptLedger(w) \/ SaveArtifact(w)
      PROVE  Leads
  BY <1>1, <1>2 DEF Begin, Crash, AcceptLedger, SaveArtifact
<1>3. ASSUME NEW w \in Workers, NEW t \in FreshTokens, PersistResult(w, t)
      PROVE  Persists
  BY <1>3
  DEF PersistResult, Persists, FreshTokens, Synthesising, WorkingOn, Working
<1>4. CASE WorkerNext(FreshTokens)
  BY <1>2, <1>3, <1>4, WorkerLeads DEF WorkerNext
<1>5. CASE SweepNext(FreshTokens) BY <1>5, SweepLeads
<1>6. CASE ControlNext(FreshTokens) BY <1>6, ControlLeads
<1>7. CASE Time BY <1>7, TimeAges
<1>8. CASE UNCHANGED vars BY <1>1, <1>8 DEF vars
<1> QED BY <1>4, <1>5, <1>6, <1>7, <1>8 DEF Next

-----------------------------------------------------------------------------
(* What a step stores and remembers                                        *)

\* A sweep accepts a ledger only where there is one.
LEMMA SweepsAccept ==
    ASSUME CInv, SweepNext(FreshTokens)
    PROVE  \/ UNCHANGED artifacts
           \/ "ledger" \in artifacts /\ artifacts' = artifacts \cup {"accepted"}
<1>1. ASSUME NEW s \in Sweepers, RescueFrozen(s)
      PROVE  \/ UNCHANGED artifacts
             \/ "ledger" \in artifacts /\ artifacts' = artifacts \cup {"accepted"}
  BY <1>1 DEF RescueFrozen, CInv, DecisionPlaced
<1>2. ASSUME NEW s \in Sweepers,
             SweepScan(s) \/ \E t \in FreshTokens : Promote(s, t)
      PROVE  UNCHANGED artifacts
  BY <1>2
  DEF SweepScan, ScanIdle, ScanOrphan, ScanFrozen, ScanStale, ScanHardStop,
      ScanKillSwitch, ScanFailed, Scans, Promote
<1>3. ASSUME NEW s \in Sweepers, SweepWrite(s), ~RescueFrozen(s)
      PROVE  UNCHANGED artifacts
  BY <1>3
  DEF SweepWrite, RescueIdle, RescueOrphan, RescueStale, RequeueRescued,
      FailStuckJob, FailExpiredJob, Recover, Exhaust, Writes
<1>4. CASE RepairReviewGate BY <1>4 DEF RepairReviewGate
<1>5. CASE SlaRequeue \/ KillStale \/ KillOverage
  BY <1>5 DEF SlaRequeue, KillStale, KillOverage
<1> QED BY <1>1, <1>2, <1>3, <1>4, <1>5 DEF SweepNext

\* Checkpoints are never deleted, and are stored in order.
LEMMA StoresInOrder ==
    ASSUME IInv, CInv, [Next]_vars
    PROVE  artifacts \subseteq artifacts' /\ Ordered'
<1>1. Ordered BY DEF CInv
<1>2. CASE UNCHANGED artifacts BY <1>1, <1>2 DEF Ordered
<1>3. ASSUME NEW w \in Workers, SaveArtifact(w)
      PROVE  artifacts \subseteq artifacts' /\ Ordered'
  <2>1. PICK a \in Produces[worker[w].phase] : artifacts' = artifacts \cup {a}
    BY <1>3 DEF SaveArtifact
  <2>2. \/ a \in {"chunk_cache", "ledger"}
        \/ a = "handoff" /\ "accepted" \in artifacts
    BY <1>3, <2>1 DEF SaveArtifact, Produces, Provided, Needs
  <2> QED BY <1>1, <2>1, <2>2 DEF Ordered
<1>4. ASSUME NEW w \in Workers, AcceptLedger(w) \/ Phase1aHandoff(w)
      PROVE  artifacts \subseteq artifacts' /\ Ordered'
  BY <1>1, <1>4 DEF AcceptLedger, Phase1aHandoff, Ordered
<1>5. ASSUME NEW w \in Workers, NEW t \in FreshTokens, PersistResult(w, t)
      PROVE  artifacts \subseteq artifacts' /\ Ordered'
  <2>1. "handoff" \in artifacts
    BY <1>5 DEF PersistResult, Synthesising, WorkingOn, Provided, Needs
  <2> QED BY <1>1, <1>5, <2>1 DEF PersistResult, Ordered
<1>6. CASE WorkerNext(FreshTokens)
  BY <1>2, <1>3, <1>4, <1>5, <1>6, WorkersThatStore
<1>7. CASE SweepNext(FreshTokens)
  BY <1>1, <1>2, <1>7, SweepsAccept DEF Ordered
<1>8. CASE ControlNext(FreshTokens) BY <1>2, <1>8, ControlsMove
<1>9. CASE Time
  BY <1>2, <1>9 DEF Time, LeaseLapses, PulseAges, BeatAges, Ages, GoesQuiet
<1>10. CASE UNCHANGED vars BY <1>2, <1>10 DEF vars
<1> QED BY <1>6, <1>7, <1>8, <1>9, <1>10 DEF Next

\* What is in place stays in place while artifacts are added.
LEMMA PlacedGrows ==
    ASSUME NEW stored, NEW more, stored \subseteq more
    PROVE  /\ \A p : Placed(p, stored) => Placed(p, more)
           /\ \A d : DecisionPlaced(d, stored) => DecisionPlaced(d, more)
BY DEF Placed, DecisionPlaced

\* A decision to requeue is taken on checkpoints that are there.
LEMMA DecisionsPlaced ==
    ASSUME IInv, CInv, [Next]_vars, NEW s \in Sweepers
    PROVE  DecisionPlaced(sweep'[s], artifacts)
<1>1. /\ sweep \in [Sweepers -> Decision] /\ job \in Row
      /\ \A x \in Sweepers : DecisionPlaced(sweep[x], artifacts)
      /\ Ordered
  BY DEF IInv, TypeOK, CInv
<1>2. CASE UNCHANGED sweep BY <1>1, <1>2
<1>3. ASSUME NEW x \in Sweepers, NEW d, Decides(x, d),
             DecisionPlaced(d, artifacts)
      PROVE  DecisionPlaced(sweep'[s], artifacts)
  BY <1>1, <1>3 DEF Decides
<1>4. ASSUME NEW d,
             d.do \notin {"rescue_frozen", "rescue_stale", "requeue", "recover"}
      PROVE  DecisionPlaced(d, artifacts)
  BY <1>4 DEF DecisionPlaced
<1>5. ASSUME NEW x \in Sweepers, SweepScan(x)
      PROVE  DecisionPlaced(sweep'[s], artifacts)
  <2>1. ASSUME ScanIdle(x) \/ ScanOrphan(x) \/ ScanHardStop(x) \/ ScanKillSwitch(x)
        PROVE  DecisionPlaced(sweep'[s], artifacts)
    <3> DEFINE d(do) == [Nothing EXCEPT !.do = do]
               owned == [Nothing EXCEPT !.do = "rescue_idle", !.token = job.owner]
    <3>1. \/ Decides(x, owned) \/ Decides(x, d("rescue_orphan"))
          \/ Decides(x, d("promote_hard_stop")) \/ Decides(x, d("promote_kill"))
          \/ Decides(x, d("fail_expired"))
      BY <2>1
      DEF ScanIdle, ScanOrphan, ScanHardStop, ScanKillSwitch, Scans, FailExpired
    <3>2. owned.do = "rescue_idle" /\ \A do : d(do).do = do BY DEF Nothing
    <3> HIDE DEF d, owned
    <3>3. /\ DecisionPlaced(owned, artifacts)
          /\ \A do \in {"rescue_orphan", "promote_hard_stop", "promote_kill",
                        "fail_expired"} : DecisionPlaced(d(do), artifacts)
      BY <1>4, <3>2
    <3> QED BY <1>3, <3>1, <3>3
  <2>2. ASSUME ScanFrozen(x) PROVE DecisionPlaced(sweep'[s], artifacts)
    <3>1. PICK d \in FrozenDecisions : Decides(x, d)
      BY <2>2 DEF ScanFrozen, Scans
    <3>2. DecisionPlaced(d, artifacts)
      BY <3>1
      DEF FrozenDecisions, DecisionPlaced, Placed, Rescue, FailStuck, Nothing
    <3> QED BY <1>3, <3>1, <3>2
  <2>3. ASSUME ScanStale(x) PROVE DecisionPlaced(sweep'[s], artifacts)
    <3>1. Decides(x, StaleDecision) BY <2>3 DEF ScanStale, Scans
    <3>2. DecisionPlaced(StaleDecision, artifacts)
      BY DEF StaleDecision, DecisionPlaced, FailStuck, Nothing
    <3> QED BY <1>3, <3>1, <3>2
  <2>4. ASSUME ScanFailed(x) PROVE DecisionPlaced(sweep'[s], artifacts)
    <3> DEFINE back(p) == [Nothing EXCEPT !.do = "recover", !.to = p,
                                          !.count = job.recoveries]
               never == [Nothing EXCEPT !.do = "exhaust"]
    <3>1. PICK p \in {ResumePhase, "phase_1a"} :
             Decides(x, back(p)) \/ Decides(x, never)
      BY <2>4 DEF ScanFailed, Scans
    <3>2. Placed(p, artifacts)
      BY <1>1 DEF ResumePhase, Placed, Ordered
    <3>3. DecisionPlaced(back(p), artifacts)
      BY <3>2 DEF DecisionPlaced, Nothing
    <3>4. never.do = "exhaust" BY DEF Nothing
    <3>5. DecisionPlaced(never, artifacts) BY <1>4, <3>4
    <3> QED BY <1>3, <3>1, <3>3, <3>5
  <2> QED BY <1>5, <2>1, <2>2, <2>3, <2>4 DEF SweepScan
<1>6. /\ DecisionPlaced(Nothing, artifacts)
      /\ DecisionPlaced(FailExpired, artifacts)
  BY DEF DecisionPlaced, Nothing, FailExpired
<1>7. ASSUME NEW x \in Sweepers, SweepWrite(x)
      PROVE  DecisionPlaced(sweep'[s], artifacts)
  <2> DEFINE again(p) == [Nothing EXCEPT !.do = "requeue", !.to = p,
                                         !.attempts = job.attempts]
  <2>1. ASSUME NEW p, Placed(p, artifacts), Rereads(x, p)
        PROVE  DecisionPlaced(sweep'[s], artifacts)
    <3>1. DecisionPlaced(again(p), artifacts)
      BY <2>1 DEF DecisionPlaced, Nothing
    <3> QED BY <1>3, <2>1, <3>1 DEF Rereads
  <2>2. CASE RescueFrozen(x)
    <3>1. Placed(sweep[x].to, artifacts)
      BY <1>1, <2>2 DEF RescueFrozen, DecisionPlaced
    <3> QED BY <2>1, <2>2, <3>1 DEF RescueFrozen
  <2>3. CASE RescueStale(x)
    <3>1. PICK p \in ProgressPhase(job.phase) :
             Rereads(x, StaleTarget(sweep[x].seen, p))
      BY <2>3 DEF RescueStale
    <3>2. sweep[x].seen \subseteq artifacts
      BY <1>1, <2>3 DEF RescueStale, DecisionPlaced
    <3>3. Placed(StaleTarget(sweep[x].seen, p), artifacts)
      BY <3>2 DEF StaleTarget, Placed
    <3> QED BY <2>1, <3>1, <3>3
  <2>4. CASE ~(RescueFrozen(x) \/ RescueStale(x))
    <3>1. Decides(x, Nothing)
      BY <1>7, <2>4
      DEF SweepWrite, RescueIdle, RescueOrphan, RequeueRescued, FailStuckJob,
          FailExpiredJob, Recover, Exhaust, Writes
    <3> QED BY <1>3, <1>6, <3>1
  <2> QED BY <2>2, <2>3, <2>4
<1>8. ASSUME NEW x \in Sweepers, NEW t \in FreshTokens, Promote(x, t)
      PROVE  DecisionPlaced(sweep'[s], artifacts)
  <2>1. Decides(x, Nothing) \/ Decides(x, FailExpired)
    BY <1>8 DEF Promote
  <2> QED BY <1>3, <1>6, <2>1
<1>9. CASE RepairReviewGate \/ SlaRequeue \/ KillStale \/ KillOverage
  BY <1>2, <1>9 DEF RepairReviewGate, SlaRequeue, KillStale, KillOverage
<1>10. CASE SweepNext(FreshTokens)
  BY <1>5, <1>7, <1>8, <1>9, <1>10 DEF SweepNext
<1> QED BY <1>2, <1>10 DEF Next, vars

-----------------------------------------------------------------------------
(* The invariant                                                           *)

\* The invariant holds at the start.
LEMMA InitCInv == Init => CInv
<1> SUFFICES ASSUME Init PROVE CInv OBVIOUS
<1>1. \/ job = FreshRow /\ artifacts = {}
      \/ job = ParkedRow /\ artifacts = {"ledger"}
  BY DEF Init, TableInit
<1>2. /\ FreshRow.phase = "phase_0" /\ FreshRow.status = "queued"
      /\ ParkedRow.phase = "review_gate" /\ ParkedRow.status = "queued"
  BY DEF FreshRow, ParkedRow
<1>3. /\ worker = [w \in Workers |-> Idle] /\ Idle.phase = "phase_0"
      /\ sweep = [s \in Sweepers |-> Nothing] /\ Nothing.do = "nothing"
  BY DEF Init, WorkerInit, SweepInit, Idle, Nothing
<1> QED
  BY <1>1, <1>2, <1>3
  DEF CInv, Ordered, Placed, DecisionPlaced

\* Every step keeps it.
LEMMA NextCInv ==
    ASSUME IInv, CInv, [Next]_vars
    PROVE  CInv'
<1>1. artifacts \subseteq artifacts' /\ Ordered' BY StoresInOrder
<1>2. Placed(job'.phase, artifacts')
  <2>1. Placed(job.phase, artifacts) BY DEF CInv
  <2>2. CASE Leads BY <1>1, <2>1, <2>2, PlacedGrows DEF Leads
  <2>3. CASE Persists
    BY <1>1, <2>3, PersistOutcome DEF Persists, Ordered, Placed
  <2>4. CASE Aged BY <1>1, <2>1, <2>4, PlacedGrows DEF Aged
  <2> QED BY <2>2, <2>3, <2>4, StepLeads
<1>3. ASSUME job'.status = "complete" PROVE "result" \in artifacts'
  <2>1. job \in Row BY DEF IInv, TypeOK
  <2>2. CASE Sent
    <3>1. job.status = "complete"
      BY <1>3, <2>1, <2>2, UpdateOutcome, CappedOutcome DEF Sent, Sends
    <3> QED BY <1>1, <3>1 DEF CInv
  <2>3. CASE Persists BY <2>3 DEF Persists
  <2>4. CASE Aged BY <1>1, <1>3, <2>4 DEF Aged, CInv
  <2> QED BY <2>2, <2>3, <2>4, StepKinds
<1>4. ASSUME NEW w \in Workers
      PROVE  worker'[w].phase \in {worker[w].phase, job.phase, "phase_0"}
  BY MemoryStays DEF Moves, Keeps
<1>5. ASSUME NEW w \in Workers PROVE Placed(worker'[w].phase, artifacts')
  <2>1. Placed(worker'[w].phase, artifacts) BY <1>4 DEF CInv, Placed
  <2> QED BY <1>1, <2>1, PlacedGrows
<1>6. ASSUME NEW s \in Sweepers PROVE DecisionPlaced(sweep'[s], artifacts')
  BY <1>1, DecisionsPlaced, PlacedGrows
<1> QED BY <1>1, <1>2, <1>3, <1>5, <1>6 DEF CInv

\* Whatever requeues a job, phase 3 finds phase 2's hand-off, the hand-off rests
\* on an accepted ledger and a completed job has its result.
THEOREM CheckpointsHeld == Spec => []CheckpointsInPlace
<1>1. Init => CInv BY InitCInv
<1>2. IInv /\ CInv /\ [Next]_vars => CInv' BY NextCInv
<1>3. CInv => CheckpointsInPlace
  BY DEF CInv, Ordered, Placed, CheckpointsInPlace
<1> QED BY <1>1, <1>2, <1>3, Invariance, PTL DEF Spec
=============================================================================
