--------------------------- MODULE ClaimQueue_proofs ---------------------------
(***************************************************************************)
(* The queue of jobs, for any number of jobs, invocations, batch size and  *)
(* limits: its types, that no job is left running with nobody to run it    *)
(* unless an invocation was killed, and that every job lives as            *)
(* JobLifecycle says.                                                      *)
(***************************************************************************)
EXTENDS ClaimQueue, JobRow_proofs, TLAPS

-----------------------------------------------------------------------------
(* Rows                                                                    *)

\* What every row of the queue keeps to.
RowOK(r) ==
    /\ r \in Row
    /\ StatusPhaseConsistent(r)
    /\ r.phaseStatus # "awaiting_approval"
    /\ r.status = "running" => r.owner # NoToken /\ r.lease # "none"
    /\ Leased(r)

\* An UPDATE that does not ask for approval, nor for an owner without a lease,
\* keeps a row to it.
LEMMA UpdateRow ==
    ASSUME NEW r, RowOK(r), NEW n \in Row, n.phaseStatus # "awaiting_approval",
           Leased(n)
    PROVE  RowOK(Update(r, n))
<1>1. r \in Row /\ StatusPhaseConsistent(r) BY DEF RowOK
<1>2. Update(r, n) \in Row BY <1>1, UpdateType
<1>3. StatusPhaseConsistent(Update(r, n)) BY <1>1, UpdateConsistent
<1>4. Update(r, n).phaseStatus # "awaiting_approval"
  BY <1>1, UpdatePhaseStatus DEF RowOK
<1>5. Update(r, n).status = "running" =>
          Update(r, n).owner # NoToken /\ Update(r, n).lease # "none"
  BY <1>1, UpdateOutcome DEF RowOK, Accepts, RunningRequiresClaim
<1>6. Leased(Update(r, n)) BY <1>1, UpdateLeased DEF RowOK
<1> QED BY <1>2, <1>3, <1>4, <1>5, <1>6 DEF RowOK

\* A row asked to be queued, failed or complete is not left running: from
\* running all three are allowed, and the cap makes them a failure.
LEMMA Stops ==
    ASSUME NEW r, RowOK(r), NEW n \in Row,
           n.status \in {"queued", "failed", "complete"}, n.phaseStatus = n.status
    PROVE  Update(r, n).status # "running"
<1>1. r \in Row /\ StatusPhaseConsistent(r) BY DEF RowOK
<1>2. CASE r.status # "running" BY <1>1, <1>2, UpdateOutcome, CappedOutcome
<1>3. CASE r.status = "running"
  <2>1. r.phaseStatus = "running" BY <1>3 DEF RowOK, StatusPhaseConsistent
  <2>2. ~CapRejects(r, n) BY <1>3 DEF CapRejects
  <2>3. Capped(r, n).status = Capped(r, n).phaseStatus
        /\ Capped(r, n).status \in {"queued", "failed", "complete"}
    BY <1>1, CappedOutcome
  <2>4. Accepts(r, n)
    BY <2>1, <2>2, <2>3
    DEF Accepts, PhaseStatusMayMove, NextPhaseStatus, StatusPhaseConsistent,
        RunningRequiresClaim
  <2> QED BY <1>1, <2>3, <2>4, UpdateOutcome
<1> QED BY <1>2, <1>3

-----------------------------------------------------------------------------
(* The invariant                                                           *)

\* Somebody has the job in hand.
Served(j) ==
    \E i \in Invocation : \/ j \in inv[i].todo
                          \/ inv[i].on = j /\ inv[i].as = rows[j].owner

\* Until an invocation is killed leases hold, and running jobs are served; an
\* invocation has a batch only while it works one off.
IInv ==
    /\ TypeOK
    /\ \A j \in Job : RowOK(rows[j])
    /\ \A i \in Invocation : inv[i].at # "batch" =>
          inv[i].todo = {} /\ inv[i].on = NoJob
    /\ crashes = 0 =>
          \A j \in Job : Running(j) => rows[j].lease = "live" /\ Served(j)

\* Job ids are not the id that stands for none.
LEMMA JobIsNat == \A j \in Job : j \in Nat /\ j # NoJob
BY QueueAssumption DEF Job, NoJob

\* The rows that the statements ask for are rows.
LEMMA AskedRows ==
    ASSUME NEW r \in Row, NEW p \in Phase
    PROVE  /\ QueuedAt(r, p) \in Row
           /\ QueuedAt(Unclaimed(r), p) \in Row
           /\ [QueuedAt(Unclaimed(r), p)
                  EXCEPT !.attempts = Bump(@, MaxAttempts)] \in Row
           /\ [QueuedAt(Silenced(Unclaimed(r)), p)
                  EXCEPT !.cause = "none",
                         !.recoveries = Bump(@, MaxRecoveries)] \in Row
           /\ FailedWith(Unclaimed(r), "transient") \in Row
           /\ [FailedWith(Silenced(Unclaimed(r)), "transient")
                  EXCEPT !.attempts = Bump(@, MaxAttempts)] \in Row
           /\ [r EXCEPT !.lease = "live", !.beat = "fresh"] \in Row
           /\ StepBack(r) \in Row
           /\ Completed(r) \in Row
<1>1. Unclaimed(r) \in Row /\ Silenced(Unclaimed(r)) \in Row BY UnclaimedType
<1>2. "transient" \in Cause /\ "none" \in Cause BY DEF Cause
<1>3. QueuedAt(Unclaimed(r), p) \in Row /\ QueuedAt(r, p) \in Row
      /\ QueuedAt(Silenced(Unclaimed(r)), p) \in Row
  BY <1>1, QueuedAtType
<1>4. FailedWith(Unclaimed(r), "transient") \in Row
      /\ FailedWith(Silenced(Unclaimed(r)), "transient") \in Row
  BY <1>1, <1>2, FailedWithType
<1>5. ASSUME NEW s \in Row
      PROVE  [s EXCEPT !.attempts = Bump(@, MaxAttempts)] \in Row
  <2>1. Bump(s.attempts, MaxAttempts) \in 0..MaxAttempts
    BY BumpType, BoundsAssumption DEF Row
  <2> QED BY <2>1 DEF Row
<1>6. ASSUME NEW s \in Row
      PROVE  [s EXCEPT !.cause = "none",
                       !.recoveries = Bump(@, MaxRecoveries)] \in Row
  <2>1. Bump(s.recoveries, MaxRecoveries) \in 0..MaxRecoveries
    BY BumpType, BoundsAssumption DEF Row
  <2> QED BY <2>1, <1>2 DEF Row
<1>7. [r EXCEPT !.lease = "live", !.beat = "fresh"] \in Row BY DEF Row
<1>8. StepBack(r) \in Row BY DEF StepBack, Row, Status, PhaseStatus
<1>9. Completed(r) \in Row
  BY DEF Completed, Unclaimed, Row, Status, PhaseStatus, Phase
<1> QED BY <1>1, <1>3, <1>4, <1>5, <1>6, <1>7, <1>8, <1>9

\* What is left of an invocation after a job is of its type, keeps the jobs that
\* wait, and has no batch unless it is at one.
LEMMA LeftType ==
    ASSUME NEW s \in InvState, s.at = "batch"
    PROVE  /\ Left(s) \in InvState
           /\ Left(s).todo = s.todo
           /\ Left(s).on = NoJob
BY DEF Left, Idle, InvState, Phase

\* The queue begins with everything in it and nobody at work.
LEMMA InitInv == Init => IInv
<1> SUFFICES ASSUME Init PROVE IInv
  OBVIOUS
<1>1. FreshRow \in Row
  BY BoundsAssumption DEF FreshRow, Row, Status, Phase, PhaseStatus, Cause
<1>2. RowOK(FreshRow)
  BY <1>1 DEF RowOK, FreshRow, StatusPhaseConsistent, Leased
<1>3. Idle \in InvState BY DEF Idle, InvState, Phase
<1>4. TypeOK BY <1>1, <1>2, <1>3, QueueAssumption DEF Init, TypeOK, RowOK
<1> QED BY <1>2, <1>4 DEF Init, IInv, Running, FreshRow, Idle

-----------------------------------------------------------------------------
(* Steps                                                                   *)

\* A step that stores one row which is not running, and takes no job out of
\* anybody's hands but that one, keeps the invariant.
LEMMA OneRowStops ==
    ASSUME IInv, NEW j \in Job, NEW r, RowOK(r), r.status # "running",
           rows' = [rows EXCEPT ![j] = r],
           inv' \in [Invocation -> InvState],
           \A i \in Invocation :
              /\ inv'[i].at # "batch" => inv'[i].todo = {} /\ inv'[i].on = NoJob
              /\ \A k \in Job \ {j} :
                    /\ k \in inv[i].todo => k \in inv'[i].todo
                    /\ inv[i].on = k => inv'[i].on = k /\ inv'[i].as = inv[i].as,
           restarts' \in [Job -> 0..MaxRestarts], crashes' = crashes
    PROVE  IInv'
<1>1. rows \in [Job -> Row] BY DEF IInv, TypeOK
<1>2. \A k \in Job : rows'[k] = IF k = j THEN r ELSE rows[k] BY <1>1
<1>3. TypeOK' BY <1>1, <1>2 DEF IInv, TypeOK, RowOK
<1>4. (\A k \in Job : RowOK(rows[k]))' BY <1>2 DEF IInv
<1>5. ASSUME crashes' = 0, NEW k \in Job, Running(k)'
      PROVE  rows'[k].lease = "live" /\ Served(k)'
  <2>1. k # j /\ rows'[k] = rows[k] BY <1>2, <1>5 DEF Running
  <2>2. rows[k].lease = "live" /\ Served(k)
    BY <1>5, <2>1 DEF IInv, Running
  <2> QED BY <2>1, <2>2 DEF Served
<1> QED BY <1>3, <1>4, <1>5 DEF IInv

\* The same when nothing but the row changes, and a running row stays what it
\* is to those who serve it.
LEMMA OneRowKeeps ==
    ASSUME IInv, NEW j \in Job, NEW r, RowOK(r),
           r.status = "running" /\ crashes = 0 =>
              Running(j) /\ r.owner = rows[j].owner /\ r.lease = "live",
           rows' = [rows EXCEPT ![j] = r],
           UNCHANGED <<restarts, inv, crashes>>
    PROVE  IInv'
<1>1. rows \in [Job -> Row] BY DEF IInv, TypeOK
<1>2. \A k \in Job : rows'[k] = IF k = j THEN r ELSE rows[k] BY <1>1
<1>3. TypeOK' BY <1>1, <1>2 DEF IInv, TypeOK, RowOK
<1>4. (\A k \in Job : RowOK(rows[k]))' BY <1>2 DEF IInv
<1>5. ASSUME crashes' = 0, NEW k \in Job, Running(k)'
      PROVE  rows'[k].lease = "live" /\ Served(k)'
  <2>1. Running(k) /\ rows'[k].owner = rows[k].owner /\ rows'[k].lease = "live"
    BY <1>2, <1>5 DEF IInv, Running
  <2>2. Served(k) BY <1>5, <2>1 DEF IInv
  <2> QED BY <2>1, <2>2 DEF Served
<1> QED BY <1>3, <1>4, <1>5 DEF IInv

\* An UPDATE under a guard, as one row stored.
LEMMA UpdateIs ==
    ASSUME NEW j \in Job, NEW guard \in BOOLEAN, NEW n, UpdateWhere(j, guard, n),
           rows \in [Job -> Row]
    PROVE  rows' = [rows EXCEPT ![j] = IF guard THEN Update(rows[j], n)
                                                ELSE rows[j]]
BY DEF UpdateWhere

\* A requeue, failure or completion guarded by the status leaves the row not
\* running, whether it matched or not.
LEMMA StopsRow ==
    ASSUME NEW r, RowOK(r), NEW n \in Row,
           n.status \in {"queued", "failed", "complete"}, n.phaseStatus = n.status,
           Leased(n), NEW guard \in BOOLEAN, ~guard => r.status # "running"
    PROVE  LET u == IF guard THEN Update(r, n) ELSE r
           IN  RowOK(u) /\ u.status # "running"
<1>1. n.phaseStatus # "awaiting_approval" OBVIOUS
<1> QED BY <1>1, UpdateRow, Stops

\* Beginning an invocation changes nothing of what is in hand.
LEMMA StartsStep ==
    ASSUME IInv, NEW i \in Invocation, Starts(i)
    PROVE  IInv'
<1>1. inv[i].at = "idle" /\ inv[i].todo = {} /\ inv[i].on = NoJob
  BY DEF Starts, IInv
<1>2. PICK f \in SUBSET {j \in Job : Lost(rows[j])} :
         inv' = [inv EXCEPT ![i] =
                   [Idle EXCEPT !.at = "sweeping",
                                !.rescue = {j \in Job : Lost(rows[j])} \ f,
                                !.fail = f]]
  BY DEF Starts, Becomes
<1> DEFINE s == [Idle EXCEPT !.at = "sweeping",
                             !.rescue = {j \in Job : Lost(rows[j])} \ f,
                             !.fail = f]
<1>3. s \in InvState /\ s.todo = {} /\ s.on = NoJob
  BY DEF Idle, InvState, Phase
<1> HIDE DEF s
<1>4. UNCHANGED <<rows, restarts, crashes>> /\ inv' = [inv EXCEPT ![i] = s]
  BY <1>2 DEF Starts, s
<1>5. TypeOK' BY <1>3, <1>4 DEF IInv, TypeOK
<1>6. \A k \in Job : Served(k) => Served(k)'
  BY <1>1, <1>3, <1>4, JobIsNat DEF Served, IInv, TypeOK
<1> QED BY <1>3, <1>4, <1>5, <1>6 DEF IInv, TypeOK, Running, RowOK

\* An SLA breach restarts the clock of a queued job.
LEMMA SlaRequeueStep ==
    ASSUME IInv, NEW i \in Invocation, NEW j \in Job, SlaRequeue(i, j)
    PROVE  IInv'
<1> DEFINE n == QueuedAt(rows[j], rows[j].phase)
<1>1. RowOK(rows[j]) /\ rows[j] \in Row /\ rows[j].phase \in Phase
  BY DEF IInv, RowOK, Row
<1>2. n \in Row /\ n.status = "queued" /\ n.phaseStatus = "queued" /\ Leased(n)
  <2>1. n \in Row BY <1>1, AskedRows
  <2>2. n.status = "queued" /\ n.phaseStatus = "queued" /\ Leased(n)
    BY <1>1 DEF QueuedAt, Row, RowOK, Leased
  <2> QED BY <2>1, <2>2
<1> HIDE DEF n
<1>3. rows' = [rows EXCEPT ![j] = Update(rows[j], n)]
  BY UpdateIs DEF SlaRequeue, IInv, TypeOK, n
<1>4. RowOK(Update(rows[j], n)) /\ Update(rows[j], n).status # "running"
  BY <1>1, <1>2, StopsRow
<1>5. restarts' \in [Job -> 0..MaxRestarts]
  <2>1. Bump(restarts[j], MaxRestarts) \in 0..MaxRestarts
    BY BumpType, QueueAssumption DEF IInv, TypeOK
  <2> QED BY <2>1 DEF SlaRequeue, IInv, TypeOK
<1>6. inv' = inv /\ crashes' = crashes BY DEF SlaRequeue
<1>7. inv' \in [Invocation -> InvState] BY <1>6 DEF IInv, TypeOK
<1>8. \A h \in Invocation :
         /\ inv'[h].at # "batch" => inv'[h].todo = {} /\ inv'[h].on = NoJob
         /\ \A k \in Job \ {j} :
               /\ k \in inv[h].todo => k \in inv'[h].todo
               /\ inv[h].on = k => inv'[h].on = k /\ inv'[h].as = inv[h].as
  BY <1>6 DEF IInv
<1> QED BY <1>3, <1>4, <1>5, <1>6, <1>7, <1>8, OneRowStops

\* Rescuing a lost row, or failing it, leaves it not running; the rest of the
\* invocation's batch, which it does not have yet, is not touched.
LEMMA LostStep ==
    ASSUME IInv, NEW i \in Invocation, NEW j \in Job,
           RescuesLost(i, j) \/ FailsLost(i, j)
    PROVE  IInv'
<1>1. RowOK(rows[j]) /\ rows[j] \in Row /\ rows[j].phase \in Phase
  BY DEF IInv, RowOK, Row
<1>2. PICK n \in Row :
         /\ n.status \in {"queued", "failed"} /\ n.phaseStatus = n.status
         /\ Leased(n)
         /\ UpdateWhere(j, Running(j), n)
  <2>1. CASE RescuesLost(i, j)
    <3> DEFINE n == [QueuedAt(Unclaimed(rows[j]), rows[j].phase)
                        EXCEPT !.attempts = Bump(@, MaxAttempts)]
    <3>1. n \in Row BY <1>1, AskedRows
    <3>2. n.status = "queued" /\ n.phaseStatus = "queued" /\ Leased(n)
      BY <1>1 DEF QueuedAt, Unclaimed, Row, Leased
    <3> QED BY <2>1, <3>1, <3>2 DEF RescuesLost
  <2>2. CASE FailsLost(i, j)
    <3> DEFINE n == FailedWith(Unclaimed(rows[j]), "transient")
    <3>1. n \in Row BY <1>1, AskedRows
    <3>2. n.status = "failed" /\ n.phaseStatus = "failed" /\ Leased(n)
      BY <1>1 DEF FailedWith, Unclaimed, Row, Leased
    <3> QED BY <2>2, <3>1, <3>2 DEF FailsLost
  <2> QED BY <2>1, <2>2
<1> DEFINE u == IF Running(j) THEN Update(rows[j], n) ELSE rows[j]
<1>3. RowOK(u) /\ u.status # "running"
  <2>1. Running(j) \in BOOLEAN BY DEF Running
  <2> QED BY <1>1, <1>2, <2>1, StopsRow DEF Running
<1>4. rows' = [rows EXCEPT ![j] = u]
  BY <1>2, UpdateIs DEF IInv, TypeOK, Running
<1> HIDE DEF u
<1>5. PICK s \in InvState :
         /\ inv' = [inv EXCEPT ![i] = s]
         /\ s.at = inv[i].at /\ s.todo = inv[i].todo
         /\ s.on = inv[i].on /\ s.as = inv[i].as
  <2>1. inv[i] \in InvState BY DEF IInv, TypeOK
  <2>2. CASE RescuesLost(i, j)
    <3> DEFINE s == [inv[i] EXCEPT !.rescue = @ \ {j}]
    <3>1. s \in InvState /\ s.at = inv[i].at /\ s.todo = inv[i].todo
          /\ s.on = inv[i].on /\ s.as = inv[i].as
      BY <2>1 DEF InvState
    <3> QED BY <2>2, <3>1 DEF RescuesLost, Becomes
  <2>3. CASE FailsLost(i, j)
    <3> DEFINE s == [inv[i] EXCEPT !.fail = @ \ {j}]
    <3>1. s \in InvState /\ s.at = inv[i].at /\ s.todo = inv[i].todo
          /\ s.on = inv[i].on /\ s.as = inv[i].as
      BY <2>1 DEF InvState
    <3> QED BY <2>3, <3>1 DEF FailsLost, Becomes
  <2> QED BY <2>2, <2>3
<1>6. restarts' = restarts /\ crashes' = crashes BY DEF RescuesLost, FailsLost
<1>7. /\ inv' \in [Invocation -> InvState]
      /\ restarts' \in [Job -> 0..MaxRestarts]
  BY <1>5, <1>6 DEF IInv, TypeOK
<1>8. \A h \in Invocation :
         /\ inv'[h].at # "batch" => inv'[h].todo = {} /\ inv'[h].on = NoJob
         /\ \A k \in Job \ {j} :
               /\ k \in inv[h].todo => k \in inv'[h].todo
               /\ inv[h].on = k => inv'[h].on = k /\ inv'[h].as = inv[h].as
  BY <1>5 DEF IInv, TypeOK
<1> QED BY <1>3, <1>4, <1>6, <1>7, <1>8, OneRowStops

\* Self-recovery requeues a failed row.
LEMMA RecoversStep ==
    ASSUME IInv, NEW i \in Invocation, NEW j \in Job, Recovers(i, j)
    PROVE  IInv'
<1> DEFINE n == [QueuedAt(Silenced(Unclaimed(rows[j])), rows[j].phase)
                    EXCEPT !.cause = "none",
                           !.recoveries = Bump(@, MaxRecoveries)]
<1>1. RowOK(rows[j]) /\ rows[j] \in Row /\ rows[j].phase \in Phase
  BY DEF IInv, RowOK, Row
<1>2. n \in Row BY <1>1, AskedRows
<1>3. n.status = "queued" /\ n.phaseStatus = "queued" /\ Leased(n)
  BY <1>1 DEF QueuedAt, Silenced, Unclaimed, Row, Leased
<1> HIDE DEF n
<1>4. rows' = [rows EXCEPT ![j] = Update(rows[j], n)]
  BY UpdateIs DEF Recovers, IInv, TypeOK, n
<1>5. RowOK(Update(rows[j], n)) /\ Update(rows[j], n).status # "running"
  BY <1>1, <1>2, <1>3, StopsRow
<1>6. UNCHANGED <<restarts, inv, crashes>> BY DEF Recovers
<1> QED BY <1>4, <1>5, <1>6, OneRowKeeps

\* A batch is claimed as a whole: its rows begin to run under a live lease, and
\* wait for the invocation that claimed them.
LEMMA ClaimsStep ==
    ASSUME IInv, NEW i \in Invocation, Claims(i)
    PROVE  IInv'
<1> DEFINE t == CHOOSE u \in Token : u \notin Held
           c(j) == Stored(rows[j], ClaimedBy(rows[j], t))
<1>1. t \in Token BY DEF Claims
<1>2. inv[i].todo = {} /\ inv[i].on = NoJob
  BY DEF Claims, Sweeping, IInv
<1>3. CASE UNCHANGED rows /\ Becomes(i, Idle)
  <2>1. Idle \in InvState /\ Idle.todo = {} /\ Idle.on = NoJob
    BY DEF Idle, InvState, Phase
  <2>2. inv' = [inv EXCEPT ![i] = Idle] BY <1>3 DEF Becomes
  <2>3. UNCHANGED <<restarts, crashes>> BY DEF Claims
  <2>4. TypeOK' BY <1>3, <2>1, <2>2, <2>3 DEF IInv, TypeOK
  <2>5. \A k \in Job : Served(k) => Served(k)'
    BY <1>2, <1>3, <2>1, <2>2, JobIsNat DEF Served, IInv, TypeOK
  <2> QED BY <1>3, <2>1, <2>2, <2>3, <2>4, <2>5
          DEF IInv, TypeOK, Running, RowOK
<1>4. CASE /\ \A j \in Picked : Accepts(rows[j], ClaimedBy(rows[j], t))
           /\ rows' = [j \in Job |-> IF j \in Picked THEN c(j) ELSE rows[j]]
           /\ Becomes(i, [Idle EXCEPT !.at = "batch", !.todo = Picked])
  <2> DEFINE s == [Idle EXCEPT !.at = "batch", !.todo = Picked]
  <2>1. Picked \subseteq Job BY DEF Picked
  <2>2. s \in InvState /\ s.at = "batch" /\ s.todo = Picked
    BY <2>1 DEF Idle, InvState, Phase
  <2> HIDE DEF s
  <2>3. inv' = [inv EXCEPT ![i] = s] BY <1>4 DEF Becomes, s
  <2>4. ASSUME NEW j \in Picked
        PROVE  /\ RowOK(c(j)) /\ c(j).status = "running"
               /\ c(j).lease = "live"
    <3>1. j \in Job BY <2>1
    <3>2. RowOK(rows[j]) /\ rows[j] \in Row /\ rows[j].status = "queued"
      BY <3>1, <2>4 DEF IInv, RowOK, Picked, Claimable
    <3>3. ClaimedBy(rows[j], t) \in Row BY <1>1, <3>2, ClaimedByType
    <3>4. ClaimedBy(rows[j], t).status = "running"
          /\ ClaimedBy(rows[j], t).phaseStatus = "running"
          /\ ClaimedBy(rows[j], t).lease = "live" /\ Leased(ClaimedBy(rows[j], t))
      BY <3>2 DEF ClaimedBy, Row, Leased
    <3>5. Accepts(rows[j], ClaimedBy(rows[j], t)) BY <1>4
    <3>6. c(j) = Update(rows[j], ClaimedBy(rows[j], t)) BY <3>5 DEF Update
    <3>7. Capped(rows[j], ClaimedBy(rows[j], t)) = ClaimedBy(rows[j], t)
      BY <3>2, <3>3, CappedOutcome
    <3> HIDE DEF c
    <3>8. RowOK(c(j)) BY <3>2, <3>3, <3>4, <3>6, UpdateRow
    <3>9. c(j).status = "running" /\ c(j).lease = "live"
      BY <3>2, <3>3, <3>4, <3>5, <3>6, <3>7, UpdateOutcome
    <3> QED BY <3>8, <3>9
  <2>5. \A j \in Job : rows'[j] = IF j \in Picked THEN c(j) ELSE rows[j]
    BY <1>4
  <2>6. rows' = [j \in Job |-> IF j \in Picked THEN c(j) ELSE rows[j]]
    BY <1>4
  <2> HIDE DEF c
  <2>7. (\A j \in Job : RowOK(rows[j]))' BY <2>4, <2>5 DEF IInv
  <2>8. UNCHANGED <<restarts, crashes>> BY DEF Claims
  <2>9. rows' \in [Job -> Row] BY <2>6, <2>7, <2>5 DEF RowOK
  <2>10. TypeOK'
    <3>1. (\A j \in Job : Leased(rows[j]))' BY <2>7 DEF RowOK
    <3> QED BY <2>2, <2>3, <2>8, <2>9, <3>1 DEF IInv, TypeOK
  <2>11. ASSUME crashes' = 0, NEW k \in Job, Running(k)'
         PROVE  rows'[k].lease = "live" /\ Served(k)'
    <3>1. CASE k \in Picked
      <4>1. inv'[i].todo = Picked BY <2>2, <2>3 DEF IInv, TypeOK
      <4> QED BY <3>1, <4>1, <2>4, <2>5 DEF Served
    <3>2. CASE k \notin Picked
      <4>1. rows'[k] = rows[k] BY <3>2, <2>5
      <4>2. rows[k].lease = "live" /\ Served(k)
        BY <4>1, <2>8, <2>11 DEF IInv, Running
      <4>3. PICK h \in Invocation :
               \/ k \in inv[h].todo
               \/ inv[h].on = k /\ inv[h].as = rows[k].owner
        BY <4>2 DEF Served
      <4>4. h # i BY <4>3, <1>2, JobIsNat
      <4>5. inv'[h] = inv[h] BY <4>4, <2>3 DEF IInv, TypeOK
      <4> QED BY <4>1, <4>2, <4>3, <4>5 DEF Served
    <3> QED BY <3>1, <3>2
  <2>12. \A h \in Invocation : inv'[h].at # "batch" =>
            inv'[h].todo = {} /\ inv'[h].on = NoJob
    BY <2>2, <2>3 DEF IInv, TypeOK
  <2> QED BY <2>7, <2>10, <2>11, <2>12 DEF IInv
<1> QED BY <1>3, <1>4 DEF Claims

\* A job is begun under whoever owns it by then.  The one it was taken for is
\* the only one that leaves the batch; if it still runs, its lease holds and the
\* invocation takes it on.
LEMMA BeginsStep ==
    ASSUME IInv, NEW i \in Invocation, NEW j \in Job, Begins(i, j)
    PROVE  IInv'
<1> DEFINE b == [inv[i] EXCEPT !.todo = @ \ {j}]
           s == IF Eligible(rows[j])
                THEN [b EXCEPT !.on = j, !.as = rows[j].owner,
                               !.phase = rows[j].phase]
                ELSE Left(b)
<1>1. inv[i] \in InvState /\ rows[j] \in Row /\ RowOK(rows[j])
  BY DEF IInv, TypeOK
<1>2. inv[i].at = "batch" /\ inv[i].on = NoJob BY DEF Begins
<1>3. b \in InvState /\ b.at = "batch" /\ b.todo = inv[i].todo \ {j}
  BY <1>1, <1>2 DEF InvState
<1>4. s \in InvState /\ s.todo = inv[i].todo \ {j}
  <2>1. CASE Eligible(rows[j])
    <3>1. s = [b EXCEPT !.on = j, !.as = rows[j].owner, !.phase = rows[j].phase]
      BY <2>1
    <3>2. rows[j].owner \in Token \cup {NoToken} /\ rows[j].phase \in Phase
      BY <1>1 DEF Row
    <3> QED BY <3>1, <3>2, <1>3 DEF InvState
  <2>2. CASE ~Eligible(rows[j]) BY <2>2, <1>3, LeftType
  <2> QED BY <2>1, <2>2
<1>5. s.at # "batch" => s.todo = {} /\ s.on = NoJob
  <2>1. CASE Eligible(rows[j]) BY <2>1, <1>1, <1>3 DEF InvState
  <2>2. CASE ~Eligible(rows[j])
    BY <2>2, <1>3 DEF Left, Idle, InvState
  <2> QED BY <2>1, <2>2
<1>6. Eligible(rows[j]) => s.on = j /\ s.as = rows[j].owner
  BY <1>3 DEF InvState
<1>7. inv' = [inv EXCEPT ![i] = s] BY DEF Begins, Becomes
<1> HIDE DEF s, b
<1>8. UNCHANGED <<rows, restarts, crashes>> BY DEF Begins
<1>9. TypeOK' BY <1>4, <1>7, <1>8 DEF IInv, TypeOK
<1>10. ASSUME crashes = 0, NEW k \in Job, Running(k), Served(k)
       PROVE  Served(k)'
  <2>1. CASE k = j
    <3>1. rows[j].phaseStatus = "running" /\ rows[j].owner # NoToken
      BY <1>1, <1>10, <2>1 DEF RowOK, StatusPhaseConsistent, Running
    <3>2. Eligible(rows[j])
      BY <3>1, <1>10, <2>1 DEF Eligible, IInv, Running
    <3>3. inv'[i].on = j /\ inv'[i].as = rows'[j].owner
      BY <3>2, <1>6, <1>7, <1>8 DEF IInv, TypeOK
    <3> QED BY <3>3, <2>1 DEF Served
  <2>2. CASE k # j
    <3>1. PICK h \in Invocation :
             \/ k \in inv[h].todo
             \/ inv[h].on = k /\ inv[h].as = rows[k].owner
      BY <1>10 DEF Served
    <3>2. CASE h = i
      <4>1. k \in inv[i].todo BY <3>1, <3>2, <1>2, JobIsNat
      <4>2. k \in inv'[i].todo
        BY <4>1, <2>2, <1>4, <1>7 DEF IInv, TypeOK
      <4> QED BY <4>2 DEF Served
    <3>3. CASE h # i
      <4>1. inv'[h] = inv[h] BY <3>3, <1>7 DEF IInv, TypeOK
      <4> QED BY <4>1, <3>1, <1>8 DEF Served
    <3> QED BY <3>2, <3>3
  <2> QED BY <2>1, <2>2
<1>11. \A h \in Invocation : inv'[h].at # "batch" =>
          inv'[h].todo = {} /\ inv'[h].on = NoJob
  BY <1>5, <1>7 DEF IInv, TypeOK
<1> QED BY <1>8, <1>9, <1>10, <1>11 DEF IInv, Running, RowOK

\* An invocation that is done with j goes on with the rest of its batch.
LEMMA LeavesInv ==
    ASSUME IInv, NEW i \in Invocation, NEW j \in Job, WorksOn(i, j), Leaves(i)
    PROVE  /\ inv' \in [Invocation -> InvState]
           /\ restarts' \in [Job -> 0..MaxRestarts] /\ crashes' = crashes
           /\ \A h \in Invocation :
                 /\ inv'[h].at # "batch" =>
                       inv'[h].todo = {} /\ inv'[h].on = NoJob
                 /\ \A k \in Job : k \in inv[h].todo => k \in inv'[h].todo
                 /\ \A k \in Job \ {j} : inv[h].on = k =>
                       inv'[h].on = k /\ inv'[h].as = inv[h].as
                 /\ h # i => inv'[h] = inv[h]
<1>1. inv[i] \in InvState /\ inv[i].on = j /\ inv[i].at = "batch"
  BY JobIsNat DEF IInv, TypeOK, WorksOn
<1>2. Left(inv[i]) \in InvState /\ Left(inv[i]).todo = inv[i].todo
      /\ Left(inv[i]).on = NoJob
  BY <1>1, LeftType
<1>3. inv' = [inv EXCEPT ![i] = Left(inv[i])] /\ UNCHANGED <<restarts, crashes>>
  BY DEF Leaves, Becomes
<1>4. Left(inv[i]).at # "batch" => Left(inv[i]).todo = {}
  BY <1>1 DEF Left, Idle
<1> QED BY <1>1, <1>2, <1>3, <1>4 DEF IInv, TypeOK

\* What ends the run of a job and leaves its row not running keeps the invariant.
LEMMA LeavesStops ==
    ASSUME IInv, NEW i \in Invocation, NEW j \in Job, NEW r, RowOK(r),
           r.status # "running", rows' = [rows EXCEPT ![j] = r],
           WorksOn(i, j), Leaves(i)
    PROVE  IInv'
<1>1. /\ inv' \in [Invocation -> InvState]
      /\ restarts' \in [Job -> 0..MaxRestarts] /\ crashes' = crashes
  BY LeavesInv
<1>2. ASSUME NEW h \in Invocation
      PROVE  /\ inv'[h].at # "batch" => inv'[h].todo = {} /\ inv'[h].on = NoJob
             /\ \A k \in Job \ {j} :
                   /\ k \in inv[h].todo => k \in inv'[h].todo
                   /\ inv[h].on = k => inv'[h].on = k /\ inv'[h].as = inv[h].as
  BY LeavesInv
<1> QED BY <1>1, <1>2, OneRowStops

\* A hand-off looks at the status alone, and so ends whatever run of the job is
\* under way.
LEMMA HandsOffStep ==
    ASSUME IInv, NEW i \in Invocation, NEW j \in Job, HandsOff(i, j)
    PROVE  IInv'
<1> DEFINE n == QueuedAt(Unclaimed(rows[j]), "phase_3")
           u == IF Running(j) THEN Update(rows[j], n) ELSE rows[j]
<1>1. RowOK(rows[j]) /\ rows[j] \in Row BY DEF IInv, RowOK
<1>2. n \in Row
  <2>1. "phase_3" \in Phase BY DEF Phase
  <2> QED BY <1>1, <2>1, AskedRows
<1>3. n.status = "queued" /\ n.phaseStatus = "queued" /\ Leased(n)
  BY <1>1 DEF QueuedAt, Unclaimed, Row, Leased
<1> HIDE DEF n
<1>4. Running(j) \in BOOLEAN BY DEF Running
<1>5. RowOK(u) /\ u.status # "running"
  BY <1>1, <1>2, <1>3, <1>4, StopsRow DEF Running
<1>6. rows' = [rows EXCEPT ![j] = u]
  BY <1>4, UpdateIs DEF HandsOff, IInv, TypeOK, n
<1> HIDE DEF u
<1>7. WorksOn(i, j) /\ Leaves(i) BY DEF HandsOff
<1> QED BY <1>5, <1>6, <1>7, LeavesStops

\* The transaction that completes a job leaves it complete or, past the cap,
\* failed.
LEMMA ChainStops ==
    ASSUME NEW r, RowOK(r), NEW t \in Token, PersistChain(r, t).commits
    PROVE  /\ RowOK(PersistChain(r, t).row)
           /\ PersistChain(r, t).row.status # "running"
<1>1. r \in Row BY DEF RowOK
<1> DEFINE u == PersistChain(r, t).row
<1>2. /\ u \in Row /\ StatusPhaseConsistent(u)
      /\ u.status \in {"complete", "failed"} /\ u.owner = NoToken
  BY <1>1, ChainOutcome
<1> HIDE DEF u
<1>3. RowOK(u) /\ u.status # "running"
  BY <1>2 DEF RowOK, StatusPhaseConsistent, Leased
<1> QED BY <1>3 DEF u

\* A job is completed by id, by whichever invocation works on it.
LEMMA CompletesStep ==
    ASSUME IInv, NEW i \in Invocation, NEW j \in Job, Completes(i, j)
    PROVE  IInv'
<1> DEFINE t == CHOOSE u \in Token : u \notin Held
<1>1. t \in Token /\ PersistChain(rows[j], t).commits BY DEF Completes
<1>2. rows' = [rows EXCEPT ![j] = PersistChain(rows[j], t).row]
  BY DEF Completes
<1> HIDE DEF t
<1>3. RowOK(rows[j]) BY DEF IInv
<1>4. RowOK(PersistChain(rows[j], t).row)
      /\ PersistChain(rows[j], t).row.status # "running"
  BY <1>1, <1>3, ChainStops
<1>5. WorksOn(i, j) /\ Leaves(i) BY DEF Completes
<1> QED BY <1>2, <1>4, <1>5, LeavesStops

\* A failure is written under the token.  When it matches, the job stops; when
\* it does not, the one who serves the job is somebody else, or waits for it.
LEMMA FailsStep ==
    ASSUME IInv, NEW i \in Invocation, NEW j \in Job, Fails(i, j)
    PROVE  IInv'
<1> DEFINE guard == Running(j) /\ rows[j].owner = inv[i].as
           n == [FailedWith(Silenced(Unclaimed(rows[j])), "transient")
                    EXCEPT !.attempts = Bump(@, MaxAttempts)]
<1>1. RowOK(rows[j]) /\ rows[j] \in Row BY DEF IInv, RowOK
<1>2. n \in Row BY <1>1, AskedRows DEF Row
<1>3. n.status = "failed" /\ n.phaseStatus = "failed" /\ Leased(n)
  BY <1>1 DEF FailedWith, Silenced, Unclaimed, Row, Leased
<1> HIDE DEF n
<1>4. guard \in BOOLEAN BY DEF Running
<1>5. rows' = [rows EXCEPT ![j] = IF guard THEN Update(rows[j], n) ELSE rows[j]]
  BY <1>4, UpdateIs DEF Fails, IInv, TypeOK, n
<1>6. WorksOn(i, j) /\ Leaves(i) BY DEF Fails
<1>7. CASE guard \/ ~Running(j)
  <2> DEFINE u == IF guard THEN Update(rows[j], n) ELSE rows[j]
  <2>1. ~guard => rows[j].status # "running" BY <1>7 DEF Running
  <2>2. RowOK(u) /\ u.status # "running"
    BY <1>1, <1>2, <1>3, <1>4, <2>1, StopsRow
  <2> HIDE DEF u
  <2>3. rows' = [rows EXCEPT ![j] = u] BY <1>5 DEF u
  <2> QED BY <2>2, <2>3, <1>6, LeavesStops
<1>8. CASE ~guard /\ Running(j)
  <2>1. rows' = rows BY <1>5, <1>8 DEF IInv, TypeOK
  <2>2. inv[i].on = j /\ inv[i].as # rows[j].owner
    BY <1>6, <1>8 DEF WorksOn
  <2>3. \A k \in Job : Served(k) => Served(k)'
    <3> SUFFICES ASSUME NEW k \in Job, Served(k) PROVE Served(k)'
      OBVIOUS
    <3>1. PICK h \in Invocation :
             \/ k \in inv[h].todo
             \/ inv[h].on = k /\ inv[h].as = rows[k].owner
      BY DEF Served
    <3>2. CASE k \in inv[h].todo
      <4>1. k \in inv'[h].todo BY <3>2, <1>6, LeavesInv
      <4> QED BY <4>1 DEF Served
    <3>3. CASE inv[h].on = k /\ inv[h].as = rows[k].owner
      <4>1. h # i BY <3>3, <2>2
      <4>2. inv'[h] = inv[h] BY <4>1, <1>6, LeavesInv
      <4> QED BY <4>2, <3>3, <2>1 DEF Served
    <3> QED BY <3>1, <3>2, <3>3
  <2>4. TypeOK' BY <2>1, <1>6, LeavesInv DEF IInv, TypeOK
  <2>5. \A h \in Invocation : inv'[h].at # "batch" =>
           inv'[h].todo = {} /\ inv'[h].on = NoJob
    BY <1>6, LeavesInv
  <2>6. crashes' = crashes BY <1>6, LeavesInv
  <2> QED BY <2>1, <2>3, <2>4, <2>5, <2>6 DEF IInv, Running, RowOK
<1> QED BY <1>7, <1>8

\* A renewal keeps a running row in its owner's hands; past the cap it ends it.
LEMMA RenewsStep ==
    ASSUME IInv, NEW i \in Invocation, NEW j \in Job, Renews(i, j)
    PROVE  IInv'
<1> DEFINE n == [rows[j] EXCEPT !.lease = "live", !.beat = "fresh"]
           u == IF Running(j) THEN Update(rows[j], n) ELSE rows[j]
<1>1. RowOK(rows[j]) /\ rows[j] \in Row BY DEF IInv, RowOK
<1>2. n \in Row /\ n.lease = "live" /\ n.owner = rows[j].owner
      /\ n.phaseStatus # "awaiting_approval" /\ Leased(n)
  BY <1>1 DEF Row, RowOK, Leased
<1> HIDE DEF n
<1>3. RowOK(u) BY <1>1, <1>2, UpdateRow
<1>4. u.status = "running" /\ crashes = 0 =>
         Running(j) /\ u.owner = rows[j].owner /\ u.lease = "live"
  <2>1. CASE ~Running(j) BY <2>1 DEF Running
  <2>2. CASE Running(j) /\ Update(rows[j], n) = rows[j]
    BY <2>2 DEF IInv, Running
  <2>3. CASE Running(j) /\ Update(rows[j], n) # rows[j]
    <3>1. Update(rows[j], n).status = Capped(rows[j], n).status
          /\ Update(rows[j], n).owner = Capped(rows[j], n).owner
          /\ Update(rows[j], n).lease = Capped(rows[j], n).lease
      BY <2>3, <1>1, <1>2, UpdateOutcome
    <3> QED BY <2>3, <3>1, <1>1, <1>2, CappedOutcome
  <2> QED BY <2>1, <2>2, <2>3
<1>5. rows' = [rows EXCEPT ![j] = u]
  BY UpdateIs DEF Renews, IInv, TypeOK, Running, n
<1> HIDE DEF u
<1>6. UNCHANGED <<restarts, inv, crashes>> BY DEF Renews
<1> QED BY <1>3, <1>4, <1>5, <1>6, OneRowKeeps

\* Time takes no lease from a job somebody attends to, and changes no owner.
LEMMA TimeStep ==
    ASSUME IInv, NEW j \in Job,
           LeaseLapses(j) \/ BeatAges(j) \/ Ages(j) \/ GoesQuiet(j)
    PROVE  IInv'
<1>1. RowOK(rows[j]) /\ rows[j] \in Row BY DEF IInv, RowOK
<1>2. CASE LeaseLapses(j)
  <2> DEFINE r == [rows[j] EXCEPT !.lease = "lapsed"]
  <2>1. RowOK(r) BY <1>1 DEF RowOK, Row, StatusPhaseConsistent, Leased
  <2>2. r.status = rows[j].status BY <1>1 DEF Row
  <2>3. ~(Running(j) /\ crashes = 0)
    BY <1>2 DEF LeaseLapses, Attended, IInv, Served
  <2>4. rows' = [rows EXCEPT ![j] = r] /\ UNCHANGED <<restarts, inv, crashes>>
    BY <1>2 DEF LeaseLapses, Passes
  <2> HIDE DEF r
  <2> QED BY <2>1, <2>2, <2>3, <2>4, OneRowKeeps DEF Running
<1>3. CASE BeatAges(j) \/ Ages(j) \/ GoesQuiet(j)
  <2>1. PICK r : /\ r \in {[rows[j] EXCEPT !.beat = "stale"],
                           [rows[j] EXCEPT !.aged = TRUE],
                           [rows[j] EXCEPT !.quiet = TRUE]}
                 /\ rows' = [rows EXCEPT ![j] = r]
                 /\ UNCHANGED <<restarts, inv, crashes>>
    BY <1>3 DEF BeatAges, Ages, GoesQuiet, Passes
  <2>2. r \in Row /\ r.status = rows[j].status /\ r.owner = rows[j].owner
        /\ r.lease = rows[j].lease /\ r.phaseStatus = rows[j].phaseStatus
    BY <1>1, <2>1 DEF Row
  <2>3. RowOK(r) BY <1>1, <2>2 DEF RowOK, StatusPhaseConsistent, Leased
  <2>4. r.status = "running" /\ crashes = 0 =>
           Running(j) /\ r.owner = rows[j].owner /\ r.lease = "live"
    BY <2>2 DEF IInv, Running
  <2> QED BY <2>1, <2>3, <2>4, OneRowKeeps
<1> QED BY <1>2, <1>3

\* Once an invocation has been killed, only the types and shapes are promised.
LEMMA CrashStep ==
    ASSUME IInv, NEW i \in Invocation, Crash(i)
    PROVE  IInv'
<1>1. crashes' = crashes + 1 /\ crashes < MaxCrashes /\ UNCHANGED <<rows, restarts>>
      /\ inv' = [inv EXCEPT ![i] = Idle]
  BY DEF Crash, Becomes
<1>2. Idle \in InvState /\ Idle.todo = {} /\ Idle.on = NoJob
  BY DEF Idle, InvState, Phase
<1>3. crashes' \in 0..MaxCrashes /\ crashes' # 0
  BY <1>1, QueueAssumption DEF IInv, TypeOK
<1>4. TypeOK' BY <1>1, <1>2, <1>3 DEF IInv, TypeOK
<1> QED BY <1>1, <1>2, <1>3, <1>4 DEF IInv, TypeOK, RowOK

-----------------------------------------------------------------------------
(* Theorems                                                                *)

\* The invariant is inductive.
LEMMA NextInv == IInv /\ [Next]_vars => IInv'
<1> SUFFICES ASSUME IInv, [Next]_vars PROVE IInv'
  OBVIOUS
<1>1. CASE UNCHANGED vars
  BY <1>1 DEF vars, IInv, TypeOK, Running, Served, RowOK
<1>2. ASSUME NEW i \in Invocation,
             Starts(i) \/ Serves(i) \/ Crash(i)
             \/ \E j \in Job : SlaRequeue(i, j) \/ Recovers(i, j) \/ Renews(i, j)
      PROVE  IInv'
  BY <1>2, StartsStep, CrashStep, ClaimsStep, LostStep, BeginsStep, HandsOffStep,
     CompletesStep, FailsStep, SlaRequeueStep, RecoversStep, RenewsStep DEF Serves
<1>3. ASSUME NEW j \in Job,
             LeaseLapses(j) \/ BeatAges(j) \/ Ages(j) \/ GoesQuiet(j)
      PROVE  IInv'
  BY <1>3, TimeStep
<1> QED BY <1>1, <1>2, <1>3 DEF Next

\* The invariant holds of the queue and its invocations.
THEOREM Invariant == Spec => []IInv
<1>1. Init => IInv BY InitInv
<1>2. IInv /\ [Next]_vars => IInv' BY NextInv
<1> QED BY <1>1, <1>2, PTL DEF Spec

\* Rows, counts and what the invocations remember keep their shape, for any
\* number of jobs and of overlapping invocations.
THEOREM TypeCorrect == Spec => []TypeOK
<1>1. IInv => TypeOK BY DEF IInv
<1> QED BY <1>1, Invariant, PTL

\* Unless an invocation was killed, no job is left running with nobody to run
\* it, for any number of jobs and invocations and any batch size.
THEOREM RunningServed == Spec => []RunningIsServed
<1>1. IInv => RunningIsServed BY DEF IInv, RunningIsServed, Served
<1> QED BY <1>1, Invariant, PTL

-----------------------------------------------------------------------------
(* The life of each job                                                    *)

\* What a row is asked to be other than by a claim or a completion.
Asked(r, n) ==
    /\ n \in Row /\ n.aged = r.aged
    /\ n.owner \in {r.owner, NoToken}
    /\ \/ n.status \in {"queued", "failed"}
       \/ n.status = "running" /\ n.owner = r.owner /\ n.phase = r.phase
          /\ r.status = "running"

\* What a step does to row k: nothing, an UPDATE, a completion, a claim under a
\* token nobody remembers, or time.
RowStep(k) ==
    \/ rows'[k] = rows[k]
    \/ \E n \in Row : Asked(rows[k], n) /\ rows'[k] = Update(rows[k], n)
    \/ \E t \in Token : /\ PersistChain(rows[k], t).commits
                        /\ rows'[k] = PersistChain(rows[k], t).row
    \/ \E t \in Token \ Held :
          /\ rows[k].status = "queued"
          /\ Accepts(rows[k], ClaimedBy(rows[k], t))
          /\ rows'[k] = Update(rows[k], ClaimedBy(rows[k], t))
    \/ \E r \in Row :
          /\ rows'[k] = r
          /\ r.status = rows[k].status /\ r.owner = rows[k].owner
          /\ r.phase = rows[k].phase /\ (rows[k].aged => r.aged)

\* One UPDATE of row j, carried out or not, is such a step for every row.
LEMMA AskedStep ==
    ASSUME IInv, NEW j \in Job, NEW guard \in BOOLEAN, NEW n,
           guard => Asked(rows[j], n), UpdateWhere(j, guard, n), NEW k \in Job
    PROVE  RowStep(k)
<1>1. rows \in [Job -> Row] BY DEF IInv, TypeOK
<1>2. rows' = [rows EXCEPT ![j] = IF guard THEN Update(rows[j], n) ELSE rows[j]]
  BY <1>1, UpdateIs
<1>3. CASE k = j /\ guard
  <2>1. rows'[k] = Update(rows[k], n) /\ n \in Row /\ Asked(rows[k], n)
    BY <1>1, <1>2, <1>3 DEF Asked
  <2> QED BY <2>1 DEF RowStep
<1>4. CASE k # j \/ ~guard
  <2>1. rows'[k] = rows[k] BY <1>1, <1>2, <1>4
  <2> QED BY <2>1 DEF RowStep
<1> QED BY <1>3, <1>4

\* The statements that requeue, fail or renew ask for such rows.
LEMMA AsksStep ==
    ASSUME IInv, NEW i \in Invocation, NEW j \in Job, NEW k \in Job,
           \/ SlaRequeue(i, j) \/ RescuesLost(i, j) \/ FailsLost(i, j)
           \/ Recovers(i, j) \/ Renews(i, j) \/ HandsOff(i, j) \/ Fails(i, j)
    PROVE  RowStep(k)
<1> DEFINE r == rows[j]
<1>1. r \in Row /\ r.phase \in Phase BY DEF IInv, TypeOK, Row
<1>2. Running(j) \in BOOLEAN BY DEF Running
<1>3. CASE SlaRequeue(i, j)
  <2> DEFINE n == QueuedAt(r, r.phase)
  <2>1. n \in Row BY <1>1, AskedRows
  <2>2. Asked(r, n) BY <1>1, <2>1 DEF Asked, QueuedAt, Row
  <2> QED BY <1>3, <2>2, AskedStep DEF SlaRequeue
<1>4. CASE RescuesLost(i, j)
  <2> DEFINE n == [QueuedAt(Unclaimed(r), r.phase)
                      EXCEPT !.attempts = Bump(@, MaxAttempts)]
  <2>1. n \in Row BY <1>1, AskedRows
  <2>2. Asked(r, n) BY <1>1, <2>1 DEF Asked, QueuedAt, Unclaimed, Row
  <2> QED BY <1>2, <1>4, <2>2, AskedStep DEF RescuesLost
<1>5. CASE FailsLost(i, j)
  <2> DEFINE n == FailedWith(Unclaimed(r), "transient")
  <2>1. n \in Row BY <1>1, AskedRows
  <2>2. Asked(r, n) BY <1>1, <2>1 DEF Asked, FailedWith, Unclaimed, Row
  <2> QED BY <1>2, <1>5, <2>2, AskedStep DEF FailsLost
<1>6. CASE Recovers(i, j)
  <2> DEFINE n == [QueuedAt(Silenced(Unclaimed(r)), r.phase)
                      EXCEPT !.cause = "none",
                             !.recoveries = Bump(@, MaxRecoveries)]
  <2>1. n \in Row BY <1>1, AskedRows
  <2>2. Asked(r, n)
    BY <1>1, <2>1 DEF Asked, QueuedAt, Silenced, Unclaimed, Row
  <2> QED BY <1>6, <2>2, AskedStep DEF Recovers
<1>7. CASE Renews(i, j)
  <2> DEFINE n == [r EXCEPT !.lease = "live", !.beat = "fresh"]
  <2>1. n \in Row BY <1>1, AskedRows
  <2>2. Running(j) => Asked(r, n) BY <1>1, <2>1 DEF Asked, Running, Row
  <2> QED BY <1>2, <1>7, <2>2, AskedStep DEF Renews
<1>8. CASE HandsOff(i, j)
  <2> DEFINE n == QueuedAt(Unclaimed(r), "phase_3")
  <2>1. n \in Row BY <1>1, AskedRows DEF Phase
  <2>2. Asked(r, n) BY <1>1, <2>1 DEF Asked, QueuedAt, Unclaimed, Row
  <2> QED BY <1>2, <1>8, <2>2, AskedStep DEF HandsOff
<1>9. CASE Fails(i, j)
  <2> DEFINE n == [FailedWith(Silenced(Unclaimed(r)), "transient")
                      EXCEPT !.attempts = Bump(@, MaxAttempts)]
  <2>1. n \in Row BY <1>1, AskedRows
  <2>2. Asked(r, n)
    BY <1>1, <2>1 DEF Asked, FailedWith, Silenced, Unclaimed, Row
  <2>3. (Running(j) /\ r.owner = inv[i].as) \in BOOLEAN BY <1>2
  <2> QED BY <1>9, <2>2, <2>3, AskedStep DEF Fails
<1> QED BY <1>3, <1>4, <1>5, <1>6, <1>7, <1>8, <1>9

\* A completion is one for the job completed, a claim for the jobs picked.
LEMMA ClaimsCompletes ==
    ASSUME IInv, NEW i \in Invocation, NEW k \in Job,
           Claims(i) \/ \E j \in Job : Completes(i, j)
    PROVE  RowStep(k)
<1>1. rows \in [Job -> Row] BY DEF IInv, TypeOK
<1> DEFINE t == CHOOSE u \in Token : u \notin Held
<1>2. Token \ Held # {} => t \in Token \ Held OBVIOUS
<1>3. ASSUME NEW j \in Job, Completes(i, j) PROVE RowStep(k)
  <2>1. /\ t \in Token /\ PersistChain(rows[j], t).commits
        /\ rows' = [rows EXCEPT ![j] = PersistChain(rows[j], t).row]
    BY <1>2, <1>3 DEF Completes
  <2> HIDE DEF t
  <2>2. k # j => rows'[k] = rows[k] BY <1>1, <2>1
  <2>3. k = j => rows'[k] = PersistChain(rows[k], t).row BY <1>1, <2>1
  <2> QED BY <2>1, <2>2, <2>3 DEF RowStep
<1>4. CASE Claims(i)
  <2>1. t \in Token \ Held BY <1>2, <1>4 DEF Claims
  <2>2. CASE rows' = rows BY <2>2 DEF RowStep
  <2>3. CASE /\ \A j \in Picked : Accepts(rows[j], ClaimedBy(rows[j], t))
             /\ rows' = [j \in Job |-> IF j \in Picked
                            THEN Stored(rows[j], ClaimedBy(rows[j], t))
                            ELSE rows[j]]
    <3>1. CASE k \in Picked
      <4>1. Accepts(rows[k], ClaimedBy(rows[k], t)) BY <2>3, <3>1
      <4>2. rows'[k] = Update(rows[k], ClaimedBy(rows[k], t))
        BY <2>3, <3>1, <4>1 DEF Update
      <4>3. rows[k].status = "queued" BY <3>1 DEF Picked, Claimable
      <4> HIDE DEF t
      <4> QED BY <2>1, <4>1, <4>2, <4>3 DEF RowStep
    <3>2. CASE k \notin Picked
      <4>1. rows'[k] = rows[k] BY <2>3, <3>2
      <4> QED BY <4>1 DEF RowStep
    <3> QED BY <3>1, <3>2
  <2> QED BY <1>4, <2>2, <2>3 DEF Claims
<1> QED BY <1>3, <1>4

\* Every step is such a step for every row.
LEMMA RowSteps ==
    ASSUME IInv, [Next]_vars, NEW k \in Job
    PROVE  RowStep(k)
<1>1. rows \in [Job -> Row] BY DEF IInv, TypeOK
<1>2. ASSUME UNCHANGED rows PROVE RowStep(k) BY <1>2 DEF RowStep
<1>3. ASSUME NEW j \in Job,
             LeaseLapses(j) \/ BeatAges(j) \/ Ages(j) \/ GoesQuiet(j)
      PROVE  RowStep(k)
  <2>1. PICK r \in {[rows[j] EXCEPT !.lease = "lapsed"],
                    [rows[j] EXCEPT !.beat = "stale"],
                    [rows[j] EXCEPT !.aged = TRUE],
                    [rows[j] EXCEPT !.quiet = TRUE]} :
           rows' = [rows EXCEPT ![j] = r]
    BY <1>3 DEF LeaseLapses, BeatAges, Ages, GoesQuiet, Passes
  <2>2. /\ r \in Row /\ r.status = rows[j].status /\ r.owner = rows[j].owner
        /\ r.phase = rows[j].phase /\ (rows[j].aged => r.aged)
    <3>1. rows[j] \in Row BY <1>1
    <3> QED BY <2>1, <3>1 DEF Row
  <2>3. k # j => rows'[k] = rows[k] BY <1>1, <2>1
  <2>4. k = j => rows'[k] = r BY <1>1, <2>1
  <2> QED BY <2>2, <2>3, <2>4 DEF RowStep
<1>4. ASSUME NEW i \in Invocation, Serves(i) PROVE RowStep(k)
  <2>1. ASSUME NEW j \in Job, Begins(i, j) PROVE RowStep(k)
    BY <1>2, <2>1 DEF Begins
  <2> QED BY <1>4, <2>1, AsksStep, ClaimsCompletes DEF Serves
<1>5. ASSUME NEW i \in Invocation, Starts(i) \/ Crash(i) PROVE RowStep(k)
  BY <1>2, <1>5 DEF Starts, Crash
<1> QED BY <1>2, <1>3, <1>4, <1>5, AsksStep DEF Next, vars

\* What a step makes of a job's status, owner and phase.
LEMMA LifeStep ==
    ASSUME IInv, [Next]_vars, NEW k \in Job
    PROVE  LET r == rows[k]
               u == rows'[k]
           IN  /\ r.aged => u.aged
               /\ \/ /\ r.status = "queued" /\ ~r.aged
                     /\ u.status = "running" /\ u.owner \in Token \ Held
                     /\ u.phase \in Phase
                  \/ /\ u.owner \in {r.owner, NoToken}
                     /\ \/ r.status = "running" /\ ~r.aged /\ u.status = "queued"
                        \/ r.status = "running" /\ u.status = "failed"
                        \/ r.status = "failed" /\ u.status = "queued"
                        \/ r.status # "complete" /\ ~r.aged /\ u.status = "complete"
                        \/ /\ u.status = r.status
                           /\ r.status = "running" =>
                                 u.owner = r.owner /\ u.phase = r.phase
<1> DEFINE r == rows[k]
           u == rows'[k]
<1>1. /\ r \in Row /\ StatusPhaseConsistent(r)
      /\ r.phaseStatus # "awaiting_approval"
  BY DEF IInv, RowOK
<1>2. RowStep(k) BY RowSteps
<1> HIDE DEF r, u
<1>3. ASSUME u = r
      PROVE  /\ r.aged => u.aged
             /\ u.status = r.status /\ u.owner = r.owner /\ u.phase = r.phase
  BY <1>3
<1>4. ASSUME NEW n \in Row, Asked(r, n), u = Update(r, n), u # r
      PROVE  /\ r.aged => u.aged
             /\ u.owner \in {r.owner, NoToken}
             /\ \/ r.status = "running" /\ ~r.aged /\ u.status = "queued"
                \/ r.status = "running" /\ u.status = "failed"
                \/ r.status = "failed" /\ u.status = "queued"
                \/ /\ u.status = r.status
                   /\ r.status = "running" => u.owner = r.owner /\ u.phase = r.phase
  <2>1. /\ u.aged = n.aged /\ u.owner = Capped(r, n).owner
        /\ u.phase = n.phase /\ u.status = Capped(r, n).status
    BY <1>1, <1>4, UpdateOutcome
  <2>2. r.aged => u.aged BY <1>4, <2>1 DEF Asked
  <2>3. u.owner \in {r.owner, NoToken}
    BY <1>1, <1>4, <2>1, CappedOutcome DEF Asked
  <2>4. \/ u.status = r.status
        \/ r.status = "queued" /\ u.status = "running" /\ ~r.aged
        \/ r.status = "queued" /\ u.status = "complete"
        \/ r.status = "running" /\ u.status \in {"queued", "complete"} /\ ~r.aged
        \/ r.status = "running" /\ u.status = "failed"
        \/ r.status = "failed" /\ u.status = "queued"
    BY <1>1, <1>4, UpdateMoves
  <2>5. u.status \in {n.status, "failed"}
        /\ (u.status = "running" => Capped(r, n) = n)
    BY <1>1, <1>4, <2>1, CappedOutcome
  <2>6. u.status = "running" =>
           u.owner = r.owner /\ u.phase = r.phase /\ r.status = "running"
    BY <1>4, <2>1, <2>5 DEF Asked
  <2>7. u.status # "complete" BY <1>4, <2>5 DEF Asked
  <2> QED BY <2>2, <2>3, <2>4, <2>6, <2>7
<1>5. ASSUME NEW t \in Token, PersistChain(r, t).commits,
             u = PersistChain(r, t).row
      PROVE  /\ u.aged = r.aged /\ u.owner = NoToken
             /\ \/ r.status = "running" /\ u.status = "failed"
                \/ r.status # "complete" /\ ~r.aged /\ u.status = "complete"
                \/ u.status = r.status /\ r.status # "running"
  <2>1. /\ u.owner = NoToken /\ u.aged = r.aged
        /\ \/ u.status = "complete"
           \/ u.status = "failed" /\ u.aged
    BY <1>1, <1>5, ChainOutcome
  <2>2. r.aged => \/ r.status = "running" /\ u.status = "failed"
                  \/ r.status = "complete" /\ u.status = "complete"
    BY <1>1, <1>5, ChainPastCap
  <2> QED BY <2>1, <2>2
<1>6. ASSUME NEW t \in Token \ Held, r.status = "queued",
             Accepts(r, ClaimedBy(r, t)), u = Update(r, ClaimedBy(r, t))
      PROVE  /\ r.aged => u.aged
             /\ ~r.aged /\ u.status = "running" /\ u.owner = t /\ u.phase \in Phase
  <2> DEFINE n == ClaimedBy(r, t)
  <2>1. /\ n \in Row /\ n.status = "running" /\ n.owner = t
        /\ n.phase \in Phase /\ n.aged = r.aged
    BY <1>1, ClaimedByType DEF ClaimedBy, Row
  <2>2. ~CapRejects(r, n) BY <1>6 DEF Accepts
  <2> HIDE DEF n
  <2>3. Capped(r, n) = n BY <1>1, <1>6, <2>1, CappedOutcome
  <2>4. u = Stored(r, n) BY <1>6 DEF Update, n
  <2>5. u.status = "running" /\ u.owner = t /\ u.phase = n.phase /\ u.aged = n.aged
    BY <2>1, <2>3, <2>4 DEF Stored, Row
  <2> QED BY <1>6, <2>1, <2>2, <2>5 DEF CapRejects
<1>7. ASSUME NEW v \in Row, u = v, v.status = r.status, v.owner = r.owner,
             v.phase = r.phase, r.aged => v.aged
      PROVE  /\ r.aged => u.aged
             /\ u.status = r.status /\ u.owner = r.owner /\ u.phase = r.phase
  BY <1>7
<1> QED BY <1>2, <1>3, <1>4, <1>5, <1>6, <1>7 DEF RowStep, r, u

\* The tokens under which somebody may still write to job k.
Spoken(k) ==
    ({rows[k].owner} \cup {inv[i].as : i \in {h \in Invocation : inv[h].on = k}})
        \ {NoToken}

\* An invocation that works on a job did so before, or has just read its row.
LEMMA OnJob ==
    ASSUME IInv, [Next]_vars, NEW k \in Job, NEW h \in Invocation,
           inv'[h].on = k
    PROVE  \/ inv[h].on = k /\ inv'[h].as = inv[h].as
           \/ inv'[h].as = rows[k].owner
<1>1. inv \in [Invocation -> InvState] /\ k # NoJob
  BY JobIsNat DEF IInv, TypeOK
<1>2. Idle.on = NoJob BY DEF Idle
<1>3. ASSUME UNCHANGED inv
      PROVE  inv[h].on = k /\ inv'[h].as = inv[h].as
  BY <1>3
<1>4. ASSUME NEW i \in Invocation, NEW s, Becomes(i, s), s.on = NoJob
      PROVE  inv[h].on = k /\ inv'[h].as = inv[h].as
  BY <1>1, <1>4 DEF Becomes
<1>5. ASSUME NEW i \in Invocation, NEW s, Becomes(i, s),
             s.on = inv[i].on, s.as = inv[i].as
      PROVE  inv[h].on = k /\ inv'[h].as = inv[h].as
  BY <1>1, <1>5 DEF Becomes
<1>6. \A s : Left(s).on = NoJob BY <1>2 DEF Left, Idle
<1>7. ASSUME NEW i \in Invocation, Starts(i) \/ Crash(i) \/ Claims(i)
      PROVE  inv[h].on = k /\ inv'[h].as = inv[h].as
  <2>1. PICK s : Becomes(i, s) /\ s.on = NoJob
    <3>1. CASE Starts(i)
      <4>1. PICK f \in SUBSET {j \in Job : Lost(rows[j])} :
               Becomes(i, [Idle EXCEPT !.at = "sweeping",
                                       !.rescue = {j \in Job : Lost(rows[j])} \ f,
                                       !.fail = f])
        BY <3>1 DEF Starts
      <4>2. [Idle EXCEPT !.at = "sweeping",
                         !.rescue = {j \in Job : Lost(rows[j])} \ f,
                         !.fail = f].on = NoJob
        BY DEF Idle
      <4> QED BY <4>1, <4>2
    <3>2. CASE Crash(i) BY <1>2, <3>2 DEF Crash
    <3>3. CASE Claims(i)
      <4>1. [Idle EXCEPT !.at = "batch", !.todo = Picked].on = NoJob BY DEF Idle
      <4>2. \/ Becomes(i, Idle)
            \/ Becomes(i, [Idle EXCEPT !.at = "batch", !.todo = Picked])
        BY <3>3 DEF Claims
      <4> QED BY <1>2, <4>1, <4>2
    <3> QED BY <1>7, <3>1, <3>2, <3>3
  <2> QED BY <1>4, <2>1
<1>8. ASSUME NEW i \in Invocation, NEW j \in Job,
             SlaRequeue(i, j) \/ Recovers(i, j) \/ Renews(i, j)
      PROVE  inv[h].on = k /\ inv'[h].as = inv[h].as
  BY <1>3, <1>8 DEF SlaRequeue, Recovers, Renews
<1>9. ASSUME NEW i \in Invocation, NEW j \in Job,
             RescuesLost(i, j) \/ FailsLost(i, j)
      PROVE  inv[h].on = k /\ inv'[h].as = inv[h].as
  <2>1. inv[i] \in InvState BY <1>1
  <2>2. \/ Becomes(i, [inv[i] EXCEPT !.rescue = @ \ {j}])
        \/ Becomes(i, [inv[i] EXCEPT !.fail = @ \ {j}])
    BY <1>9 DEF RescuesLost, FailsLost
  <2>3. /\ [inv[i] EXCEPT !.rescue = @ \ {j}].on = inv[i].on
        /\ [inv[i] EXCEPT !.rescue = @ \ {j}].as = inv[i].as
        /\ [inv[i] EXCEPT !.fail = @ \ {j}].on = inv[i].on
        /\ [inv[i] EXCEPT !.fail = @ \ {j}].as = inv[i].as
    BY <2>1 DEF InvState
  <2> QED BY <1>5, <2>2, <2>3
<1>10. ASSUME NEW i \in Invocation, NEW j \in Job, Begins(i, j)
       PROVE  \/ inv[h].on = k /\ inv'[h].as = inv[h].as
              \/ inv'[h].as = rows[k].owner
  <2> DEFINE b == [inv[i] EXCEPT !.todo = @ \ {j}]
             s == [b EXCEPT !.on = j, !.as = rows[j].owner,
                            !.phase = rows[j].phase]
  <2>1. b \in [at : {"idle", "sweeping", "batch"}, rescue : SUBSET Job,
               fail : SUBSET Job, todo : SUBSET Job, on : Job \cup {NoJob},
               phase : Phase, as : Token \cup {NoToken}]
    BY <1>1 DEF InvState
  <2>2. s.on = j /\ s.as = rows[j].owner BY <2>1
  <2>3. Becomes(i, s) \/ Becomes(i, Left(b)) BY <1>10 DEF Begins
  <2> HIDE DEF b, s
  <2>4. CASE Becomes(i, Left(b)) BY <1>4, <1>6, <2>4
  <2>5. CASE Becomes(i, s) BY <1>1, <2>2, <2>5 DEF Becomes
  <2> QED BY <2>3, <2>4, <2>5
<1>11. ASSUME NEW i \in Invocation, NEW j \in Job,
              HandsOff(i, j) \/ Completes(i, j) \/ Fails(i, j)
       PROVE  inv[h].on = k /\ inv'[h].as = inv[h].as
  BY <1>4, <1>6, <1>11 DEF HandsOff, Completes, Fails, Leaves
<1>12. ASSUME NEW j \in Job,
              LeaseLapses(j) \/ BeatAges(j) \/ Ages(j) \/ GoesQuiet(j)
       PROVE  inv[h].on = k /\ inv'[h].as = inv[h].as
  BY <1>3, <1>12 DEF LeaseLapses, BeatAges, Ages, GoesQuiet, Passes
<1> QED
  BY <1>3, <1>7, <1>8, <1>9, <1>10, <1>11, <1>12 DEF Next, Serves, vars

\* A token nobody has for a job comes back only on its row.
LEMMA SpokenStays ==
    ASSUME IInv, [Next]_vars, NEW k \in Job
    PROVE  Spoken(k)' \subseteq Spoken(k) \cup {rows'[k].owner}
BY OnJob DEF Spoken

\* However passes, batches and claims of overlapping invocations interleave,
\* every job lives as the abstract lifecycle says, for any number of jobs and
\* invocations: no run is taken over, no token still in use for a job is given
\* out for it again, and past the cap none is started or completed.
THEOREM JobsLiveAsPromised == Spec => FollowsLifecycle
<1>1. Init => Lifecycle!Init
  <2> SUFFICES ASSUME Init PROVE Lifecycle!Init OBVIOUS
  <2>1. \A k \in Job : /\ rows[k].status = "queued" /\ ~Running(k)
                       /\ rows[k].owner = NoToken /\ rows[k].aged = FALSE
    BY DEF Init, FreshRow, Running
  <2>2. \A h \in Invocation : inv[h].on = NoJob BY DEF Init, Idle
  <2>3. \A k \in Job : Spoken(k) = {}
    BY <2>1, <2>2, JobIsNat DEF Spoken
  <2> QED BY <2>1, <2>3 DEF Lifecycle!Init, Spoken
<1>2. IInv /\ [Next]_vars => [Lifecycle!Next]_(Lifecycle!lives)
  <2> SUFFICES ASSUME IInv, [Next]_vars, NEW k \in Job
               PROVE  /\ rows[k].aged => rows'[k].aged
                      /\ \/ Lifecycle!Starts(k) \/ Lifecycle!Requeues(k)
                         \/ Lifecycle!Fails(k) \/ Lifecycle!Revives(k)
                         \/ Lifecycle!Completes(k) \/ Lifecycle!Stays(k)
    BY DEF Lifecycle!Next
  <2> DEFINE tenure(j) ==
        IF Running(j) THEN {<<rows[j].owner, rows[j].phase>>} ELSE {}
  <2>1. rows[k].aged => rows'[k].aged BY LifeStep
  <2>2. Spoken(k)' \subseteq Spoken(k) \cup {rows'[k].owner} BY SpokenStays
  <2>3. CASE /\ rows[k].status = "queued" /\ ~rows[k].aged
             /\ rows'[k].status = "running" /\ rows'[k].owner \in Token \ Held
             /\ rows'[k].phase \in Phase
    <3>1. tenure(k)' = {<<rows'[k].owner, rows'[k].phase>>}
      BY <2>3 DEF Running
    <3>2. rows'[k].owner \in Token \ Spoken(k)
      BY <2>3 DEF Held, Spoken
    <3>3. Lifecycle!Starts(k)
      BY <2>2, <2>3, <3>1, <3>2 DEF Lifecycle!Starts, Spoken
    <3> QED BY <2>1, <3>3
  <2>4. CASE /\ rows'[k].owner \in {rows[k].owner, NoToken}
             /\ rows'[k].status # "running" /\ rows'[k].status # rows[k].status
    <3>1. Spoken(k)' \subseteq Spoken(k) BY <2>2, <2>4 DEF Spoken
    <3>2. tenure(k)' = {} BY <2>4 DEF Running
    <3>3. rows[k].status \in Status BY DEF IInv, TypeOK, Row
    <3>4. \/ rows[k].status = "running" /\ ~rows[k].aged
             /\ rows'[k].status = "queued"
          \/ rows[k].status = "running" /\ rows'[k].status = "failed"
          \/ rows[k].status = "failed" /\ rows'[k].status = "queued"
          \/ rows[k].status # "complete" /\ ~rows[k].aged
             /\ rows'[k].status = "complete"
      BY <2>4, LifeStep
    <3>5. \/ Lifecycle!Requeues(k) \/ Lifecycle!Fails(k)
          \/ Lifecycle!Revives(k) \/ Lifecycle!Completes(k)
      BY <3>1, <3>2, <3>3, <3>4
      DEF Lifecycle!Requeues, Lifecycle!Fails, Lifecycle!Revives,
          Lifecycle!Completes, Lifecycle!Leaves, Spoken, Status
    <3> QED BY <2>1, <3>5
  <2>5. CASE /\ rows'[k].owner \in {rows[k].owner, NoToken}
             /\ rows'[k].status = rows[k].status
             /\ Running(k) => /\ rows'[k].owner = rows[k].owner
                              /\ rows'[k].phase = rows[k].phase
    <3>1. Spoken(k)' \subseteq Spoken(k) BY <2>2, <2>5 DEF Spoken
    <3>2. tenure(k)' = tenure(k) BY <2>5 DEF Running
    <3>3. Lifecycle!Stays(k)
      BY <2>5, <3>1, <3>2 DEF Lifecycle!Stays, Spoken
    <3> QED BY <2>1, <3>3
  <2> QED BY <2>3, <2>4, <2>5, LifeStep DEF Running
<1> QED
  BY <1>1, <1>2, Invariant, PTL DEF Spec, FollowsLifecycle, Lifecycle!Spec
=============================================================================
