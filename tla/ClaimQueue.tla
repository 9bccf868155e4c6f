----------------------------- MODULE ClaimQueue -----------------------------
(***************************************************************************)
(* The queue of evaluation jobs and the invocations that serve it: several *)
(* rows of public.evaluation_jobs, and processQueuedJobs (lib/evaluation/  *)
(* processor.ts), which rescues what other invocations lost, claims a      *)
(* batch in one statement (claim_evaluation_jobs) and works it off one job *)
(* after the other.  Invocations overlap: the route is called every minute *)
(* and one may run for 800 s.                                              *)
(*                                                                         *)
(* What is peculiar to several rows and to the order of an invocation's    *)
(* passes is here; what a worker and a sweep do to one row between any two *)
(* statements is in EvaluationWorkers and RecoverySweeps.  A job's work    *)
(* is cut down to the writes by which it stays in, leaves or returns to    *)
(* the queue, and the watchdog's worker_pulse_at is left out.              *)
(***************************************************************************)
EXTENDS JobRow, FiniteSets

CONSTANTS
    Jobs,            \* number of jobs
    Invocation,      \* calls of processQueuedJobs that may overlap
    BatchSize,       \* EVAL_WORKER_BATCH_SIZE, 1 to 5
    MaxRestarts,     \* SLA_AUTO_REQUEUE_MAX
    MaxCrashes       \* bound: invocations that are killed

ASSUME QueueAssumption ==
    /\ Jobs \in Nat /\ MaxRestarts \in Nat /\ MaxCrashes \in Nat
    /\ BatchSize \in 1..5

Job == 1..Jobs       \* in the order of created_at
NoJob == 0

VARIABLES
    rows,            \* the rows of public.evaluation_jobs
    restarts,        \* progress.sla_auto_requeue_count
    inv,             \* what each invocation remembers
    crashes          \* invocations killed so far

vars == <<rows, restarts, inv, crashes>>

InvState == [at    : {"idle", "sweeping", "batch"},
             rescue : SUBSET Job,            \* lost rows it will requeue,
             fail  : SUBSET Job,             \* and fail
             todo  : SUBSET Job,             \* of its batch, not begun yet
             on    : Job \cup {NoJob},       \* the job it works on,
             phase : Phase,                  \* in this phase,
             as    : Token \cup {NoToken}]   \* under this lease token

Idle == [at |-> "idle", rescue |-> {}, fail |-> {}, todo |-> {},
         on |-> NoJob, phase |-> "phase_2", as |-> NoToken]

\* Phase 2 is the last that hands over and phase 3 the one that completes.
FreshRow ==
    [status |-> "queued", phase |-> "phase_2", phaseStatus |-> "queued",
     owner |-> NoToken, lease |-> "none", pulse |-> "none", beat |-> "none",
     quiet |-> FALSE, aged |-> FALSE, stamped |-> FALSE,
     attempts |-> 0, recoveries |-> 0, retries |-> 0, cause |-> "none"]

Init ==
    /\ rows = [j \in Job |-> FreshRow]
    /\ restarts = [j \in Job |-> 0]
    /\ inv = [i \in Invocation |-> Idle]
    /\ crashes = 0

Becomes(i, s) == inv' = [inv EXCEPT ![i] = s]

\* One UPDATE of the row with id j.
UpdateWhere(j, guard, n) ==
    rows' = [rows EXCEPT ![j] = IF guard THEN Update(@, n) ELSE @]

Running(j) == rows[j].status = "running"

-----------------------------------------------------------------------------
(* The passes before the claim                                             *)

\* Mutant: leases are not looked at.
LostHeartbeat(r) == r.status = "running" /\ r.beat = "stale"

\* What failStaleRunningJobs looks for.
Lost(r) == r.status = "running" /\ (r.beat = "stale" \/ r.lease = "lapsed")

\* Only the pass that goes by heartbeats looks at the attempts.
Spent(r) == r.beat = "stale" /\ r.attempts >= MaxAttempts

\* What the pass does with a row follows from checkpoints and from what earlier
\* failures left behind; here both are possible.
Starts(i) ==
    LET lost == {j \in Job : Lost(rows[j])} IN
    /\ inv[i].at = "idle"
    /\ \E f \in SUBSET lost :
          /\ {j \in lost : Spent(rows[j])} \subseteq f
          /\ Becomes(i, [Idle EXCEPT !.at = "sweeping",
                                     !.rescue = lost \ f, !.fail = f])
    /\ UNCHANGED <<rows, restarts, crashes>>

Sweeping(i) == inv[i].at = "sweeping"

\* Mutant: the count is not looked at.
MayRestartAlways(j) == TRUE

MayRestart(j) == restarts[j] < MaxRestarts

\* terminalizeQueuedHardStops: the first SLA breaches only restart the clock.
SlaRequeue(i, j) ==
    /\ Sweeping(i)
    /\ rows[j].status = "queued" /\ MayRestart(j)
    /\ UpdateWhere(j, TRUE, QueuedAt(rows[j], rows[j].phase))
    /\ restarts' = [restarts EXCEPT ![j] = Bump(@, MaxRestarts)]
    /\ UNCHANGED <<inv, crashes>>

\* A lost row is requeued or failed by its id and status alone: it may have
\* been requeued and claimed again since it was read.
RescuesLost(i, j) ==
    /\ Sweeping(i) /\ j \in inv[i].rescue
    /\ UpdateWhere(j, Running(j), [QueuedAt(Unclaimed(rows[j]), rows[j].phase)
                                     EXCEPT !.attempts = Bump(@, MaxAttempts)])
    /\ Becomes(i, [inv[i] EXCEPT !.rescue = @ \ {j}])
    /\ UNCHANGED <<restarts, crashes>>

FailsLost(i, j) ==
    /\ Sweeping(i) /\ j \in inv[i].fail
    /\ UpdateWhere(j, Running(j), FailedWith(Unclaimed(rows[j]), "transient"))
    /\ Becomes(i, [inv[i] EXCEPT !.fail = @ \ {j}])
    /\ UNCHANGED <<restarts, crashes>>

\* selfRecoverRetryableFailedJobs.  The code the cap trigger writes is not one
\* it takes for terminal.
Recovers(i, j) ==
    LET r == rows[j] IN
    /\ Sweeping(i)
    /\ r.status = "failed"
    /\ r.recoveries < MaxRecoveries
    /\ UpdateWhere(j, TRUE, [QueuedAt(Silenced(Unclaimed(r)), r.phase)
                                EXCEPT !.cause = "none",
                                       !.recoveries = Bump(@, MaxRecoveries)])
    /\ UNCHANGED <<restarts, inv, crashes>>

-----------------------------------------------------------------------------
(* The claim                                                               *)

\* Mutant: a running job whose heartbeat is old may be claimed again.
ClaimableAgain(j) ==
    /\ \/ rows[j].status = "queued" /\ rows[j].phaseStatus = "queued"
       \/ Running(j) /\ rows[j].beat = "stale"
    /\ ~rows[j].stamped /\ ~rows[j].quiet

\* The claim SQL also passes over rows marked _admin_stop, which nothing in the
\* repository writes; the model has no such row.
Claimable(j) ==
    /\ rows[j].status = "queued" /\ rows[j].phaseStatus = "queued"
    /\ ~rows[j].stamped
    /\ ~rows[j].quiet

\* ORDER BY created_at LIMIT batch
Picked ==
    {j \in Job : /\ Claimable(j)
                 /\ Cardinality({k \in 1..(j - 1) : Claimable(k)}) < BatchSize}

\* Lease tokens are uuids: a claim draws one that nobody remembers.
Held == {rows[j].owner : j \in Job} \cup {inv[i].as : i \in Invocation}

\* One UPDATE for the whole batch: if one row raises, none is claimed, and the
\* invocation gives up.
Claims(i) ==
    LET t == CHOOSE u \in Token : u \notin Held
        commits == \A j \in Picked : Accepts(rows[j], ClaimedBy(rows[j], t))
    IN  /\ Sweeping(i) /\ inv[i].rescue = {} /\ inv[i].fail = {}
        /\ Token \ Held # {}
        /\ IF commits /\ Picked # {}
           THEN /\ rows' = [j \in Job |-> IF j \in Picked
                                THEN Stored(rows[j], ClaimedBy(rows[j], t))
                                ELSE rows[j]]
                /\ Becomes(i, [Idle EXCEPT !.at = "batch", !.todo = Picked])
           ELSE rows' = rows /\ Becomes(i, Idle)
        /\ UNCHANGED <<restarts, crashes>>

-----------------------------------------------------------------------------
(* The batch, one job after the other                                      *)

\* After a job: the next one, or the end of the invocation.
Left(s) == IF s.todo = {} THEN Idle
           ELSE [Idle EXCEPT !.at = "batch", !.todo = s.todo]

\* Mutant: a row with an old heartbeat is passed over.
EligibleFresh(r) ==
    /\ r.status = "running" /\ r.phaseStatus = "running"
    /\ r.owner # NoToken /\ r.lease = "live" /\ r.beat # "stale"

Eligible(r) ==
    /\ r.status = "running" /\ r.phaseStatus = "running"
    /\ r.owner # NoToken /\ r.lease = "live"

\* The row is read again, and its owner adopted, whoever that is by now; a row
\* that is not eligible is passed over.
Begins(i, j) ==
    LET s == [inv[i] EXCEPT !.todo = @ \ {j}] IN
    /\ inv[i].at = "batch" /\ inv[i].on = NoJob /\ j \in inv[i].todo
    /\ Becomes(i, IF Eligible(rows[j])
                  THEN [s EXCEPT !.on = j, !.as = rows[j].owner,
                                 !.phase = rows[j].phase]
                  ELSE Left(s))
    /\ UNCHANGED <<rows, restarts, crashes>>

WorksOn(i, j) == inv[i].on = j

\* renewEvaluationJobLease
Renews(i, j) ==
    /\ WorksOn(i, j)
    /\ UpdateWhere(j, Running(j), [rows[j] EXCEPT !.lease = "live",
                                                  !.beat = "fresh"])
    /\ UNCHANGED <<restarts, inv, crashes>>

\* Done with j.
Leaves(i) == Becomes(i, Left(inv[i])) /\ UNCHANGED <<restarts, crashes>>

\* A hand-off looks at the status alone, and leaves the heartbeat as it was.
HandsOff(i, j) ==
    /\ WorksOn(i, j) /\ inv[i].phase = "phase_2"
    /\ UpdateWhere(j, Running(j), QueuedAt(Unclaimed(rows[j]), "phase_3"))
    /\ Leaves(i)

\* persist_evaluation_v2_atomic
Completes(i, j) ==
    LET chain == PersistChain(rows[j], CHOOSE u \in Token : u \notin Held) IN
    /\ WorksOn(i, j) /\ inv[i].phase = "phase_3"
    /\ Token \ Held # {} /\ chain.commits
    /\ rows' = [rows EXCEPT ![j] = chain.row]
    /\ Leaves(i)

\* finalize_job_failure_atomic, under the token adopted.
Fails(i, j) ==
    LET r == rows[j] IN
    /\ WorksOn(i, j)
    /\ UpdateWhere(j, Running(j) /\ r.owner = inv[i].as,
                   [FailedWith(Silenced(Unclaimed(r)), "transient")
                       EXCEPT !.attempts = Bump(@, MaxAttempts)])
    /\ Leaves(i)

\* The platform kills the invocation: nothing more is written.
Crash(i) ==
    /\ inv[i].at # "idle" /\ crashes < MaxCrashes
    /\ Becomes(i, Idle)
    /\ crashes' = crashes + 1
    /\ UNCHANGED <<rows, restarts>>

-----------------------------------------------------------------------------
(* Time                                                                    *)

\* Somebody renews the lease, or the invocation that claimed j is still on its
\* way to it: claimQueuedJobs asks for a lease of 800 s, the longest it allows
\* and what the platform gives an invocation from its start, which precedes the
\* claim.  A deployment that configures a shorter lease is not modelled.
Attended(j) == \E i \in Invocation : inv[i].on = j \/ j \in inv[i].todo

Passes(j, n) ==
    /\ rows' = [rows EXCEPT ![j] = n]
    /\ UNCHANGED <<restarts, inv, crashes>>

LeaseLapses(j) ==
    /\ rows[j].lease = "live" /\ ~Attended(j)
    /\ Passes(j, [rows[j] EXCEPT !.lease = "lapsed"])

\* A job in progress writes a heartbeat every 30 s, one that waits none.
BeatAges(j) ==
    /\ rows[j].beat = "fresh"
    /\ \A i \in Invocation : inv[i].on # j
    /\ Passes(j, [rows[j] EXCEPT !.beat = "stale"])

Ages(j) ==
    /\ rows[j].status # "complete" /\ ~rows[j].aged
    /\ Passes(j, [rows[j] EXCEPT !.aged = TRUE])

\* 75 minutes without a write, in the queue.
GoesQuiet(j) ==
    /\ rows[j].status = "queued" /\ ~rows[j].quiet
    /\ rows[j].beat # "fresh"
    /\ Passes(j, [rows[j] EXCEPT !.quiet = TRUE])

-----------------------------------------------------------------------------
\* Everything an invocation does but renew a lease.
Serves(i) ==
    \/ Claims(i)
    \/ \E j \in Job : \/ RescuesLost(i, j) \/ FailsLost(i, j) \/ Begins(i, j)
                      \/ HandsOff(i, j) \/ Completes(i, j) \/ Fails(i, j)

Next ==
    \/ \E i \in Invocation :
          \/ Starts(i) \/ Serves(i) \/ Crash(i)
          \/ \E j \in Job : SlaRequeue(i, j) \/ Recovers(i, j) \/ Renews(i, j)
    \/ \E j \in Job : LeaseLapses(j) \/ BeatAges(j) \/ Ages(j) \/ GoesQuiet(j)

Spec == Init /\ [][Next]_vars

\* The route is called every minute, the platform ends every invocation, and
\* timestamps nobody writes grow old.  Whether a job reaches the cap, or waits
\* for 75 minutes below it, is left open.
Fairness ==
    /\ \A i \in Invocation : WF_vars(Starts(i)) /\ WF_vars(Serves(i))
    /\ \A j \in Job : /\ WF_vars(LeaseLapses(j)) /\ WF_vars(BeatAges(j))
                      /\ WF_vars(rows[j].aged /\ GoesQuiet(j))

FairSpec == Spec /\ Fairness

-----------------------------------------------------------------------------
(* Properties                                                              *)

\* The rows and what the invocations remember keep their shape, a row that
\* names an owner has a lease to go by, whichever pass or claim last wrote it,
\* and no count passes its limit.
TypeOK ==
    /\ rows \in [Job -> Row]
    /\ \A j \in Job : Leased(rows[j])
    /\ restarts \in [Job -> 0..MaxRestarts]
    /\ inv \in [Invocation -> InvState]
    /\ crashes \in 0..MaxCrashes

\* Unless an invocation was killed, a running job is on its way: it waits in
\* some batch, or an invocation works on it under the token of the row.  Rows
\* are taken from waiting batches, adopted, passed over and written by id
\* alone, and none of it leaves a job running with nobody to run it.
RunningIsServed ==
    crashes = 0 =>
        \A j \in Job : Running(j) =>
            \E i \in Invocation :
                \/ j \in inv[i].todo
                \/ inv[i].on = j /\ inv[i].as = rows[j].owner

Lifecycle == INSTANCE JobLifecycle WITH
    Ticket <- Token,
    state <- [j \in Job |-> rows[j].status],
    tenure <- [j \in Job |->
                  IF Running(j) THEN {<<rows[j].owner, rows[j].phase>>} ELSE {}],
    spoken <- [j \in Job |->
                  ({rows[j].owner} \cup {inv[i].as : i \in {h \in Invocation :
                                                            inv[h].on = j}})
                     \ {NoToken}],
    late <- [j \in Job |-> rows[j].aged]

\* However the invocations' passes, batches and claims interleave, every job of
\* the queue lives as JobLifecycle says; a claim starts a batch of them at once,
\* under a token that none of them has been run under by anybody still there.
FollowsLifecycle == Lifecycle!Spec

\* A job claimed in a batch whose invocation was killed, before it got to the
\* job or at work on it, does not stay running.
LostIsFound ==
    \A j \in Job : Running(j) /\ ~Attended(j) ~> ~(Running(j) /\ ~Attended(j))

\* A job below the cap that can be claimed does not stay in the queue, though
\* older jobs come back to it and one past the cap makes every claim raise: in
\* the end that one goes quiet.
QueueMoves ==
    \A j \in Job : LET waits == Claimable(j) /\ ~rows[j].aged IN waits ~> ~waits
=============================================================================
