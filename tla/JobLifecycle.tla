---------------------------- MODULE JobLifecycle ----------------------------
(***************************************************************************)
(* What the life of an evaluation job is to everybody who looks at its     *)
(* row, without leases, heartbeats, artifacts or the actors: a job waits,  *)
(* is run by one claimant at a time in one phase, fails, comes back, and   *)
(* is complete for good; past the two-hour cap it is neither started, nor  *)
(* put back from a run, nor completed.  Of a ticket the module keeps only  *)
(* that somebody may still write under it.                                 *)
(*                                                                         *)
(* One statement may move many jobs.  Nothing is said of when anything     *)
(* happens.  EvaluationJobs and ClaimQueue implement this module.          *)
(***************************************************************************)
CONSTANTS Job, Ticket, Phase

VARIABLES
    state,           \* queued, running, failed or complete
    tenure,          \* the claimant and phase of a run, {} when there is none
    spoken,          \* tickets under which somebody may still write to the job
    late             \* past the cap

lives == <<state, tenure, spoken, late>>

Init ==
    /\ state = [j \in Job |-> "queued"]
    /\ tenure = [j \in Job |-> {}]
    /\ spoken = [j \in Job |-> {}]
    /\ late = [j \in Job |-> FALSE]

\* A job that waits is taken under a ticket nobody speaks for.
Starts(j) ==
    /\ state[j] = "queued" /\ ~late[j]
    /\ state'[j] = "running"
    /\ \E t \in Ticket \ spoken[j], p \in Phase :
          /\ tenure'[j] = {<<t, p>>}
          /\ spoken'[j] \subseteq spoken[j] \cup {t}

Leaves(j, from, to) ==
    /\ state[j] \in from /\ state'[j] = to
    /\ tenure'[j] = {}
    /\ spoken'[j] \subseteq spoken[j]

\* A run is handed off or rescued.
Requeues(j) == Leaves(j, {"running"}, "queued") /\ ~late[j]

\* Only a run fails: a job that waits is taken before it is failed.
Fails(j) == Leaves(j, {"running"}, "failed")

\* Recovery, resume or retry.
Revives(j) == Leaves(j, {"failed"}, "queued")

\* A result may come in after its run has been failed or requeued.
Completes(j) == Leaves(j, {"queued", "running", "failed"}, "complete") /\ ~late[j]

\* The run goes on, with its claimant and in its phase.
Stays(j) ==
    /\ state'[j] = state[j] /\ tenure'[j] = tenure[j]
    /\ spoken'[j] \subseteq spoken[j]

Next ==
    \A j \in Job :
        /\ late[j] => late'[j]
        /\ \/ Starts(j) \/ Requeues(j) \/ Fails(j) \/ Revives(j)
           \/ Completes(j) \/ Stays(j)

Spec == Init /\ [][Next]_lives
=============================================================================
