------------------------------ MODULE JobTable ------------------------------
(***************************************************************************)
(* The database the components share: one evaluation_jobs row, the types   *)
(* of the evaluation_artifacts rows stored for it, and the passing of time *)
(* as the row's timestamps show it.                                        *)
(*                                                                         *)
(* Clocks names the kinds of timestamp that may age in an instance, so     *)
(* that a small instance can do without those its question does not need.  *)
(***************************************************************************)
EXTENDS JobRow

CONSTANT Clocks      \* subset of {"lease", "pulse", "beat", "cap", "quiet"}

VARIABLES
    job,             \* the row of public.evaluation_jobs
    artifacts        \* artifact types stored for it

tableVars == <<job, artifacts>>

\* pass1a_chunk_cache_v1, pass1a_character_ledger_v1, accepted_story_ledger_v1,
\* pass12_handoff_v1, evaluation_result_v2.
ArtifactType == {"chunk_cache", "ledger", "accepted", "handoff", "result"}

FreshRow ==
    [status |-> "queued", phase |-> "phase_0", phaseStatus |-> "queued",
     owner |-> NoToken, lease |-> "none", pulse |-> "none", beat |-> "none",
     quiet |-> FALSE, aged |-> FALSE, stamped |-> FALSE,
     attempts |-> 0, recoveries |-> 0, retries |-> 0, cause |-> "none"]

\* A row an earlier deployment left at the author's review gate, which the
\* repair pass of failStaleRunningJobs still expects to meet.
ParkedRow == [FreshRow EXCEPT !.phase = "review_gate",
                              !.phaseStatus = "awaiting_approval"]

TableInit ==
    \/ job = FreshRow /\ artifacts = {}
    \/ job = ParkedRow /\ artifacts = {"ledger"}

\* One UPDATE statement: rows outside the WHERE clause keep their values.
UpdateWhere(guard, n) == job' = IF guard THEN Update(job, n) ELSE job

Running == job.status = "running"

\* What progress.phase may hold on a row in phase p.  The writes of the column
\* repeat it there, but for two: a job from /api/evaluate starts without one,
\* which is read as phase_1a, and phase 2's hand-off leaves phase_2 behind.
ProgressPhase(p) ==
    CASE p = "phase_0" -> {"phase_0", "phase_1a"}
      [] p = "phase_3" -> {"phase_2", "phase_3"}
      [] OTHER -> {p}

\* Mutant: an accepted ledger taken for phase 2's own checkpoint.
ResumePhaseOneAhead ==
    IF artifacts \cap {"accepted", "handoff", "result"} # {} THEN "phase_3"
    ELSE "phase_1a"

\* selectResumeCheckpoint: the phase a failed job restarts in.
ResumePhase ==
    IF artifacts \cap {"handoff", "result"} # {} THEN "phase_3"
    ELSE IF "accepted" \in artifacts THEN "phase_2"
    ELSE "phase_1a"

-----------------------------------------------------------------------------
(* Time                                                                    *)

LeaseLapses ==
    /\ "lease" \in Clocks
    /\ job.lease = "live"
    /\ job' = [job EXCEPT !.lease = "lapsed"]
    /\ UNCHANGED artifacts

PulseAges ==
    /\ "pulse" \in Clocks
    /\ job.pulse = "fresh"
    /\ job' = [job EXCEPT !.pulse = "stale"]
    /\ UNCHANGED artifacts

BeatAges ==
    /\ "beat" \in Clocks
    /\ job.beat = "fresh"
    /\ job' = [job EXCEPT !.beat = "stale"]
    /\ UNCHANGED artifacts

\* Two hours since created_at.
Ages ==
    /\ "cap" \in Clocks
    /\ ~job.aged
    /\ job' = [job EXCEPT !.aged = TRUE]
    /\ UNCHANGED artifacts

\* 75 minutes without a write, by when every shorter clock has run out.
GoesQuiet ==
    /\ "quiet" \in Clocks
    /\ ~job.quiet
    /\ job.lease # "live" /\ job.pulse # "fresh" /\ job.beat # "fresh"
    /\ job' = [job EXCEPT !.quiet = TRUE]
    /\ UNCHANGED artifacts
=============================================================================
