---------------------------- MODULE JobRow_proofs ----------------------------
(***************************************************************************)
(* What one UPDATE of an evaluation_jobs row can and cannot do, for any    *)
(* row and whatever the statement asks for.                                *)
(***************************************************************************)
EXTENDS JobRow, TLAPS

-----------------------------------------------------------------------------
(* The field groups keep a row a row.                                      *)

\* A counter bumped stays within its bound.
LEMMA BumpType ==
    ASSUME NEW max \in Nat, NEW n \in 0..max
    PROVE  Bump(n, max) \in 0..max
BY DEF Bump

\* A row without its claim, and one without its signs of life, are rows.
LEMMA UnclaimedType ==
    ASSUME NEW r \in Row
    PROVE  Unclaimed(r) \in Row /\ Silenced(r) \in Row
BY DEF Unclaimed, Silenced, Row

\* A row queued at a phase is a row.
LEMMA QueuedAtType ==
    ASSUME NEW r \in Row, NEW p \in Phase
    PROVE  QueuedAt(r, p) \in Row
BY DEF QueuedAt, Row, Status, PhaseStatus

\* A row failed with a code is a row.
LEMMA FailedWithType ==
    ASSUME NEW r \in Row, NEW c \in Cause
    PROVE  FailedWith(r, c) \in Row
BY DEF FailedWith, Row, Status, PhaseStatus

\* A claimed row is a row.
LEMMA ClaimedByType ==
    ASSUME NEW r \in Row, NEW t \in Token
    PROVE  ClaimedBy(r, t) \in Row
BY DEF ClaimedBy, Row, Status, PhaseStatus

\* The cap trigger's rewriting of a row gives a row.
LEMMA CappedType ==
    ASSUME NEW r \in Row, NEW n \in Row
    PROVE  Capped(r, n) \in Row
<1>1. Silenced(Unclaimed(n)) \in Row BY UnclaimedType
<1>2. "cap" \in Cause BY DEF Cause
<1>3. FailedWith(Silenced(Unclaimed(n)), "cap") \in Row
  BY <1>1, <1>2, FailedWithType
<1> QED BY <1>3 DEF Capped

\* Whatever a statement asks for, what is stored is a row.
LEMMA UpdateType ==
    ASSUME NEW r \in Row, NEW n \in Row
    PROVE  Update(r, n) \in Row
<1>1. Capped(r, n) \in Row BY CappedType
<1>2. Stored(r, n) \in Row BY <1>1 DEF Stored, Row
<1> QED BY <1>2 DEF Update

-----------------------------------------------------------------------------
(* The outcome of an UPDATE                                                *)

\* Either the statement raised, or the row is what the triggers made of it.
LEMMA UpdateOutcome ==
    ASSUME NEW r \in Row, NEW n \in Row
    PROVE  \/ Update(r, n) = r /\ ~Accepts(r, n)
           \/ /\ Accepts(r, n)
              /\ Update(r, n) = Stored(r, n)
              /\ Update(r, n).status = Capped(r, n).status
              /\ Update(r, n).phaseStatus = Capped(r, n).phaseStatus
              /\ Update(r, n).phase = n.phase
              /\ Update(r, n).owner = Capped(r, n).owner
              /\ Update(r, n).lease = Capped(r, n).lease
              /\ Update(r, n).cause = Capped(r, n).cause
              /\ Update(r, n).aged = n.aged
<1>1. Capped(r, n) \in Row BY CappedType
<1>2. Capped(r, n).phase = n.phase /\ Capped(r, n).aged = n.aged
  BY DEF Capped, FailedWith, Silenced, Unclaimed, Row
<1> QED BY <1>1, <1>2 DEF Update, Stored, Row

\* On a row past the runtime cap a running job is failed and unclaimed.
LEMMA CappedOutcome ==
    ASSUME NEW r \in Row, NEW n \in Row
    PROVE  \/ Capped(r, n) = n /\ ~(r.aged /\ r.status = "running")
           \/ /\ r.aged /\ r.status = "running"
              /\ Capped(r, n).status = "failed"
              /\ Capped(r, n).phaseStatus = "failed"
              /\ Capped(r, n).owner = NoToken
              /\ Capped(r, n).lease = "none"
              /\ Capped(r, n).cause = "cap"
BY DEF Capped, FailedWith, Silenced, Unclaimed, Row

\* Status and phase_status stay consistent with one another.
LEMMA UpdateConsistent ==
    ASSUME NEW r \in Row, NEW n \in Row, StatusPhaseConsistent(r)
    PROVE  StatusPhaseConsistent(Update(r, n))
BY UpdateOutcome DEF Accepts, StatusPhaseConsistent

\* A complete row stays complete, whatever is written over it.
LEMMA CompleteStays ==
    ASSUME NEW r \in Row, NEW n \in Row, StatusPhaseConsistent(r),
           r.status = "complete"
    PROVE  Update(r, n).status = "complete"
<1>1. r.phaseStatus = "complete" BY DEF StatusPhaseConsistent
<1>2. CASE Update(r, n) = r BY <1>2
<1>3. CASE Accepts(r, n) /\ Update(r, n).status = Capped(r, n).status
  <2>1. PhaseStatusMayMove(r, Capped(r, n)) BY <1>3 DEF Accepts
  <2>2. Capped(r, n).phaseStatus = "complete"
    BY <1>1, <2>1 DEF PhaseStatusMayMove, NextPhaseStatus
  <2>3. Capped(r, n).status = "complete"
    BY <1>3, <2>2 DEF Accepts, StatusPhaseConsistent
  <2> QED BY <1>3, <2>3
<1> QED BY <1>2, <1>3, UpdateOutcome

\* A failed row has a code if the row before it and the row asked for do: the
\* one status the triggers write of themselves comes with a code.
LEMMA UpdateExplained ==
    ASSUME NEW r \in Row, NEW n \in Row,
           r.status = "failed" => r.cause # "none",
           n.status = "failed" /\ n.phaseStatus = "failed" => n.cause # "none"
    PROVE  Update(r, n).status = "failed" => Update(r, n).cause # "none"
BY UpdateOutcome, CappedOutcome DEF Accepts, StatusPhaseConsistent

\* A row whose owner has a lease, overwritten by one whose owner has, is such a
\* row: the cap trigger takes both away together.
LEMMA UpdateLeased ==
    ASSUME NEW r \in Row, NEW n \in Row, Leased(r), Leased(n)
    PROVE  Leased(Update(r, n))
BY UpdateOutcome, CappedOutcome DEF Leased

\* The phase_status stored is the old one, the one asked for, or failed.
LEMMA UpdatePhaseStatus ==
    ASSUME NEW r \in Row, NEW n \in Row
    PROVE  Update(r, n).phaseStatus \in {r.phaseStatus, n.phaseStatus, "failed"}
BY UpdateOutcome, CappedOutcome

\* Past the cap an UPDATE that changes a row does not leave it running, does
\* not complete it, and leaves a live lease only to a row that asked for one
\* without asking to run.
LEMMA CapStops ==
    ASSUME NEW r \in Row, NEW n \in Row, StatusPhaseConsistent(r), r.aged
    PROVE  LET u == Update(r, n) IN
           \/ u = r
           \/ /\ u.status # "running"
              /\ u.status = "complete" =>
                    r.status = "complete" \/ r.phaseStatus = "awaiting_approval"
              /\ u.lease = "live" =>
                    n.lease = "live" /\ n.status # "running" /\ u.owner = n.owner
<1>1. CASE ~Accepts(r, n) BY <1>1, UpdateOutcome
<1>2. CASE Accepts(r, n) /\ r.status = "running"
  BY <1>2, UpdateOutcome, CappedOutcome
<1>3. CASE Accepts(r, n) /\ r.status # "running"
  <2>1. Capped(r, n) = n BY <1>3, CappedOutcome
  <2>2. PhaseStatusMayMove(r, n) /\ StatusPhaseConsistent(n) /\ ~CapRejects(r, n)
    BY <1>3, <2>1 DEF Accepts
  <2>3. n.status # "running"
    <3>1. CASE r.status = "queued" BY <3>1, <2>2 DEF CapRejects
    <3>2. CASE r.status \in {"complete", "failed"}
      BY <3>2, <2>2 DEF PhaseStatusMayMove, NextPhaseStatus, StatusPhaseConsistent
    <3> QED BY <1>3, <3>1, <3>2 DEF Row, Status
  <2>4. n.status = "complete" =>
            r.status = "complete" \/ r.phaseStatus = "awaiting_approval"
    BY <2>2, <1>3
    DEF PhaseStatusMayMove, NextPhaseStatus, StatusPhaseConsistent, Row, Status
  <2> QED BY <1>3, <2>1, <2>3, <2>4, UpdateOutcome
<1> QED BY <1>1, <1>2, <1>3

\* The status of a row goes only the ways of the phase_status trigger: a row
\* that waits is not failed, a failed one is not run, and past the cap nothing
\* is started and no run ends but in failure.
LEMMA UpdateMoves ==
    ASSUME NEW r \in Row, NEW n \in Row, StatusPhaseConsistent(r)
    PROVE  LET u == Update(r, n) IN
           \/ u.status = r.status
           \/ r.status = "queued" /\ u.status = "running" /\ ~r.aged
           \/ r.status = "queued" /\ u.status = "complete"
           \/ r.status = "running" /\ u.status \in {"queued", "complete"} /\ ~r.aged
           \/ r.status = "running" /\ u.status = "failed"
           \/ r.status = "failed" /\ u.status = "queued"
<1>1. CASE ~Accepts(r, n) BY <1>1, UpdateOutcome
<1>2. CASE Accepts(r, n)
  <2> DEFINE c == Capped(r, n)
  <2>1. Update(r, n).status = c.status BY <1>2, UpdateOutcome
  <2>2. /\ c \in Row /\ PhaseStatusMayMove(r, c) /\ StatusPhaseConsistent(c)
        /\ ~CapRejects(r, n)
    BY <1>2, CappedType DEF Accepts
  <2>3. r.status = "running" /\ r.aged => c.status = "failed" BY CappedOutcome
  <2>4. r.status = "queued" /\ c.status = "running" => ~r.aged
    BY <2>2, CappedOutcome DEF CapRejects
  <2> HIDE DEF c
  <2>5. r.status = "queued" => c.status # "failed"
    BY <2>2 DEF PhaseStatusMayMove, NextPhaseStatus, StatusPhaseConsistent
  <2>6. r.status = "failed" => c.status \in {"failed", "queued"}
    BY <2>2 DEF PhaseStatusMayMove, NextPhaseStatus, StatusPhaseConsistent
  <2>7. r.status = "complete" => c.status = "complete"
    BY <2>2 DEF PhaseStatusMayMove, NextPhaseStatus, StatusPhaseConsistent
  <2>8. r.status \in Status /\ c.status \in Status BY <2>2 DEF Row
  <2> QED BY <2>1, <2>3, <2>4, <2>5, <2>6, <2>7, <2>8 DEF Status
<1> QED BY <1>1, <1>2

-----------------------------------------------------------------------------
(* The persistence transaction                                             *)

\* The row asked for by its last statement.
LEMMA CompletedType ==
    ASSUME NEW r \in Row
    PROVE  /\ Completed(r) \in Row
           /\ Completed(r).status = "complete"
           /\ Completed(r).phaseStatus = "complete"
           /\ Completed(r).owner = NoToken /\ Completed(r).lease = "none"
           /\ Completed(r).phase = "phase_2" /\ Completed(r).aged = r.aged
<1> DEFINE u == Unclaimed(r)
           n == Completed(r)
<1>1. u \in Row BY UnclaimedType
<1>2. u.owner = NoToken /\ u.lease = "none" /\ u.aged = r.aged
  BY DEF Unclaimed, Row
<1>3. n = [u EXCEPT !.status = "complete", !.phaseStatus = "complete",
                    !.phase = "phase_2", !.beat = "fresh", !.stamped = TRUE]
  BY DEF Completed
<1> HIDE DEF u, n
<1>4. n \in Row BY <1>1, <1>3 DEF Row, Status, Phase, PhaseStatus
<1>5. /\ n.status = "complete" /\ n.phaseStatus = "complete"
      /\ n.owner = u.owner /\ n.lease = u.lease
      /\ n.phase = "phase_2" /\ n.aged = u.aged
  BY <1>1, <1>3 DEF Row
<1> QED BY <1>2, <1>4, <1>5 DEF n

\* A committed transaction completes the row, or past the cap fails it with the
\* cap's code; either way the row is unclaimed.
LEMMA ChainOutcome ==
    ASSUME NEW r \in Row, NEW t \in Token, PersistChain(r, t).commits
    PROVE  LET u == PersistChain(r, t).row IN
           /\ u \in Row
           /\ StatusPhaseConsistent(u)
           /\ u.lease = "none" /\ u.owner = NoToken
           /\ u.phase = "phase_2" /\ u.aged = r.aged
           /\ \/ u.status = "complete"
              \/ u.status = "failed" /\ u.cause = "cap" /\ u.aged
<1> DEFINE back == r.phaseStatus = "failed"
           claim == r.phaseStatus \in {"failed", "queued"}
           r1 == IF back THEN Update(r, StepBack(r)) ELSE r
           r2 == IF claim THEN Update(r1, ClaimedBy(r1, t)) ELSE r1
           n == Completed(r2)
           u == PersistChain(r, t).row
<1>1. r1 \in Row /\ r1.aged = r.aged
  <2>1. StepBack(r) \in Row /\ StepBack(r).aged = r.aged
    BY DEF StepBack, Row, Status, PhaseStatus
  <2> QED BY <2>1, UpdateType, UpdateOutcome
<1> HIDE DEF r1
<1>2. r2 \in Row /\ r2.aged = r.aged
  <2>1. ClaimedBy(r1, t) \in Row /\ ClaimedBy(r1, t).aged = r1.aged
    BY <1>1, ClaimedByType DEF ClaimedBy, Row
  <2> QED BY <1>1, <2>1, UpdateType, UpdateOutcome
<1>3. Accepts(r2, n) /\ u = Update(r2, n) BY DEF PersistChain, r1
<1> HIDE DEF r2, u
<1>4. /\ n \in Row
      /\ n.status = "complete" /\ n.phaseStatus = "complete"
      /\ n.owner = NoToken /\ n.lease = "none"
      /\ n.phase = "phase_2" /\ n.aged = r2.aged
  BY <1>2, CompletedType
<1> HIDE DEF n
<1>5. /\ u \in Row
      /\ StatusPhaseConsistent(u)
      /\ u.lease = "none" /\ u.owner = NoToken
      /\ u.phase = "phase_2" /\ u.aged = r.aged
      /\ \/ u.status = "complete"
         \/ u.status = "failed" /\ u.cause = "cap" /\ u.aged
  BY <1>2, <1>3, <1>4, UpdateType, UpdateOutcome, CappedOutcome
  DEF Accepts, StatusPhaseConsistent
<1> QED BY <1>5 DEF u

\* Past the cap it can only fail a run, or write a complete row again: a claim
\* of its own would be refused.
LEMMA ChainPastCap ==
    ASSUME NEW r \in Row, StatusPhaseConsistent(r),
           r.phaseStatus # "awaiting_approval", r.aged,
           NEW t \in Token, PersistChain(r, t).commits
    PROVE  LET u == PersistChain(r, t).row IN
           \/ r.status = "running" /\ u.status = "failed"
           \/ r.status = "complete" /\ u.status = "complete"
<1>1. ASSUME r.phaseStatus = "queued" PROVE FALSE
  <2>1. Accepts(r, ClaimedBy(r, t)) BY <1>1 DEF PersistChain
  <2>2. r.status = "queued" BY <1>1 DEF StatusPhaseConsistent
  <2>3. ClaimedBy(r, t).status = "running" BY DEF ClaimedBy, Row
  <2> QED BY <2>1, <2>2, <2>3 DEF Accepts, CapRejects
<1>2. ASSUME r.phaseStatus = "failed" PROVE FALSE
  <2> DEFINE n == StepBack(r)
             b == Update(r, n)
  <2>1. Accepts(r, n) /\ Accepts(b, ClaimedBy(b, t))
    BY <1>2 DEF PersistChain
  <2>2. n \in Row /\ n.aged /\ n.status = "queued"
    BY DEF StepBack, Row, Status, PhaseStatus
  <2>3. r.status = "failed" BY <1>2 DEF StatusPhaseConsistent
  <2> HIDE DEF n
  <2>4. b \in Row /\ b.aged /\ b.status = "queued"
    BY <2>1, <2>2, <2>3, UpdateType, UpdateOutcome, CappedOutcome
  <2> HIDE DEF b
  <2>5. ClaimedBy(b, t).status = "running" BY <2>4 DEF ClaimedBy, Row
  <2> QED BY <2>1, <2>4, <2>5 DEF Accepts, CapRejects
<1>3. r.phaseStatus \in {"running", "complete"}
  BY <1>1, <1>2 DEF Row, PhaseStatus
<1>4. /\ Accepts(r, Completed(r))
      /\ PersistChain(r, t).row = Update(r, Completed(r))
  BY <1>3 DEF PersistChain
<1>5. Completed(r) \in Row BY CompletedType
<1>6. CASE r.phaseStatus = "running"
  <2>1. r.status = "running" BY <1>6 DEF StatusPhaseConsistent
  <2> QED BY <2>1, <1>4, <1>5, UpdateOutcome, CappedOutcome
<1>7. CASE r.phaseStatus = "complete"
  <2>1. r.status = "complete" BY <1>7 DEF StatusPhaseConsistent
  <2> QED BY <2>1, <1>4, <1>5, CompleteStays
<1> QED BY <1>3, <1>6, <1>7
=============================================================================
