------------------------- MODULE NarrativeSynthesis -------------------------
(***************************************************************************)
(* The DREAM worker, which writes the long-form document of a completed    *)
(* evaluation, has it audited and records the verdict, and the requests    *)
(* that look at a synthesis or ask for it again.  Cron starts an           *)
(* invocation every two minutes, a synthesis takes up to twelve: several   *)
(* overlap, nothing is claimed, and they may be at work on one job.        *)
(*                                                                         *)
(* Jobs are the long-form ones, numbered in the order of created_at.  The  *)
(* twelve minutes all calls for a job have together are unset, open or     *)
(* spent.  Operators' tooling may leave a stub in the place of a document; *)
(* the worker reads that in one statement and deletes by job and type in   *)
(* another, whatever is there by then.  last_error, which is shown and     *)
(* decides nothing, is left out.  A cancelled job is not complete, so the  *)
(* worker's check for one finds nothing; the circuit breaker is off by     *)
(* default and left out too.                                               *)
(***************************************************************************)
EXTENDS Naturals

CONSTANTS
    Jobs,        \* number of long-form jobs
    Tick,        \* invocations of GET /api/workers/process-dream
    MaxRequests  \* bound on what is asked, of all jobs together

ASSUME BoundsAssumption == Jobs \in Nat /\ MaxRequests \in Nat

VARIABLES job, tick, request

vars == <<job, tick, request>>

Job == 1..Jobs
NoJob == 0

Verdict == {"pass", "block"}

\* What is read and written back as a whole: evaluation_jobs.progress.
Progress == [audit : Verdict \cup {"none"},  \* final_external_audit_*
             long  : BOOLEAN]                \* chunk_routing: the word count

JobState == [complete : BOOLEAN,                       \* status
             budget   : {"unset", "open", "spent"},    \* synthesis_started_at
             marked   : BOOLEAN,      \* history: operators put a stub there
             progress : Progress,
             doc      : {"none", "stub", "real"},      \* longform_document_v1
             audit    : Verdict \cup {"none"}]         \* final_external_audit_v1

\* The worker looks for work, has picked a job, read its budget, found a stub
\* in its preflight, passed it; a model call is under way, its document stored,
\* the verdict there, the audit stored, progress read.
Step == {"finding", "picked", "begun", "clearing", "checked",
         "calling", "stored", "judged", "audited", "finishing"}

TickState == [at      : {"idle"} \cup Step,
              stubs   : SUBSET Job,   \* found to have a stub, to be deleted
              done    : SUBSET Job,   \* found to have a document
              job     : Job \cup {NoJob},
              verdict : Verdict \cup {"none"},
              copy    : Progress]

RequestState == [job  : Job \cup {NoJob},
                 copy : Progress,
                 made : 0..MaxRequests]

NewProgress == [audit |-> "none", long |-> TRUE]

NewJob == [complete |-> FALSE, budget |-> "unset", marked |-> FALSE,
           progress |-> NewProgress, doc |-> "none", audit |-> "none"]

Idle == [at |-> "idle", stubs |-> {}, done |-> {}, job |-> NoJob,
         verdict |-> "none", copy |-> NewProgress]

NoRequest == [job |-> NoJob, copy |-> NewProgress, made |-> 0]

Init == /\ job = [j \in Job |-> NewJob]
        /\ tick = [t \in Tick |-> Idle]
        /\ request = NoRequest

Sets(j, new) == job' = [job EXCEPT ![j] = new]
Moves(t, at) == tick' = [tick EXCEPT ![t].at = at]
Ends(t) == tick' = [tick EXCEPT ![t] = Idle]

\* The job and the row tick t is at work on.
On(t) == tick[t].job
Row(t) == job[On(t)]

-----------------------------------------------------------------------------
(* findPendingDreamJobs                                                    *)

Pending(j) == job[j].complete /\ job[j].doc # "real"

\* Mutant: a job without a document is cleared as well.
UndocumentedStubs == {j \in Job : job[j].doc # "real"}

Stubs == {j \in Job : job[j].doc = "stub"}

\* All documents and stubs are read; a tick that would find nothing to do ends.
Finds(t) ==
    /\ tick[t].at = "idle"
    /\ \E j \in Job : job[j].doc = "stub" \/ Pending(j)
    /\ tick' = [tick EXCEPT ![t] = [Idle EXCEPT !.at = "finding",
                                               !.stubs = Stubs,
                                               !.done = {j \in Job :
                                                   job[j].doc = "real"}]]
    /\ UNCHANGED <<job, request>>

\* clearSkippedStubAndRequeue deletes by job and type: what the job has by now
\* goes, a document that was stored since included.  A failure is passed over.
Clears(t) ==
    /\ tick[t].at = "finding"
    /\ \E j \in tick[t].stubs :
          /\ job' \in {job, [job EXCEPT ![j].doc = "none"]}
          /\ tick' = [tick EXCEPT ![t].stubs = @ \ {j}]
    /\ UNCHANGED request

Candidate(t, j) == job[j].complete /\ j \notin tick[t].done

\* Mutant: newest candidate first.
PickedNewest(t, j) ==
    Candidate(t, j) /\ \A k \in Job : k > j => ~Candidate(t, k)

Picked(t, j) == Candidate(t, j) /\ \A k \in Job : k < j => ~Candidate(t, k)

\* The oldest complete job that had no document when the tick read them.
Picks(t) ==
    /\ tick[t].at = "finding" /\ tick[t].stubs = {}
    /\ \/ \E j \in Job :
             /\ Picked(t, j)
             /\ tick' = [tick EXCEPT ![t] = [Idle EXCEPT !.at = "picked", !.job = j]]
       \/ (\A j \in Job : ~Candidate(t, j)) /\ Ends(t)
    /\ UNCHANGED <<job, request>>

-----------------------------------------------------------------------------
(* processDreamJob                                                         *)

\* Mutant: the time of the call before is forgotten when a tick begins.
AnchoredAnew(j) == [j EXCEPT !.budget = "open"]

\* synthesis_started_at is written by the first tick only.
Anchored(j) == IF j.budget = "unset" THEN [j EXCEPT !.budget = "open"] ELSE j

Begin(t) ==
    /\ tick[t].at = "picked"
    /\ LET row == Anchored(Row(t)) IN
       /\ Sets(On(t), row)
       /\ IF row.budget = "spent" THEN Ends(t) ELSE Moves(t, "begun")
    /\ UNCHANGED request

\* Another tick may have stored the document, an operator put a stub there; the
\* result, the chunks or the provider may be missing.  A read of the document
\* that fails counts as finding none.
Preflight(t) ==
    /\ tick[t].at = "begun"
    /\ \/ Row(t).doc = "stub" /\ Moves(t, "clearing")
       \/ Moves(t, "checked")
       \/ Ends(t)
    /\ UNCHANGED <<job, request>>

\* The stub goes by job and type too, and nobody asks whether it went.
PreflightClears(t) ==
    /\ tick[t].at = "clearing"
    /\ job' \in {job, [job EXCEPT ![On(t)].doc = "none"]}
    /\ Ends(t)
    /\ UNCHANGED request

\* The inputs are loaded and the budget is looked at once more before the call;
\* inputs that have gone since end the tick without a word.
Calls(t) ==
    /\ tick[t].at = "checked"
    /\ \/ Row(t).budget # "spent" /\ Moves(t, "calling")
       \/ Ends(t)
    /\ UNCHANGED <<job, request>>

StoresDocument(t) ==
    /\ tick[t].at = "calling"
    /\ Sets(On(t), [Row(t) EXCEPT !.doc = "real"])
    /\ Moves(t, "stored")
    /\ UNCHANGED request

\* Mutant: the provider's word is taken for a verdict unread.
VerdictsAsGiven(j) == {"pass", "block", "unsure"}

\* The audit blocks if neither document nor stub is there, or if the provider
\* says so; it takes up to 90 seconds after they were looked for.
Verdicts(j) == IF j.doc # "none" THEN Verdict ELSE {"block"}

Judges(t) ==
    /\ tick[t].at = "stored"
    /\ \E v \in Verdicts(Row(t)) :
          tick' = [tick EXCEPT ![t].at = "judged", ![t].verdict = v]
    /\ UNCHANGED <<job, request>>

StoresAudit(t) ==
    /\ tick[t].at = "judged"
    /\ Sets(On(t), [Row(t) EXCEPT !.audit = tick[t].verdict])
    /\ Moves(t, "audited")
    /\ UNCHANGED request

ReadsProgress(t) ==
    /\ tick[t].at = "audited"
    /\ tick' = [tick EXCEPT ![t].at = "finishing", ![t].copy = Row(t).progress]
    /\ UNCHANGED <<job, request>>

WritesProgress(t) ==
    /\ tick[t].at = "finishing"
    /\ Sets(On(t), [Row(t) EXCEPT
                       !.progress = [tick[t].copy EXCEPT !.audit = tick[t].verdict]])
    /\ Ends(t)
    /\ UNCHANGED request

\* The invocation has a job.  One that ends before leaves behind what one does
\* that ends as soon as it has picked one.
Working(t) == tick[t].at \notin {"idle", "finding"}

\* A statement or the model call fails, which writes last_error at most.
Throws(t) ==
    /\ Working(t) /\ tick[t].at # "finishing"
    /\ Ends(t)
    /\ UNCHANGED <<job, request>>

\* The platform ends an invocation after 800 seconds; a call may take 750 and
\* the audit 90.
Killed(t) ==
    /\ Working(t)
    /\ Ends(t)
    /\ UNCHANGED <<job, request>>

Works(t) ==
    \/ Clears(t) \/ Picks(t) \/ Begin(t) \/ Preflight(t) \/ PreflightClears(t)
    \/ Calls(t) \/ StoresDocument(t) \/ Judges(t) \/ StoresAudit(t)
    \/ ReadsProgress(t) \/ WritesProgress(t) \/ Throws(t)

-----------------------------------------------------------------------------
(* What is asked of a synthesis                                            *)

\* One more request, which is answered at once.
Asked ==
    /\ request.made < MaxRequests
    /\ request' = [request EXCEPT !.made = @ + 1]

\* One more request, which has read the progress of job j.
Reads(j) ==
    /\ request.job = NoJob /\ request.made < MaxRequests
    /\ request' = [job |-> j, copy |-> job[j].progress,
                   made |-> request.made + 1]
    /\ UNCHANGED <<job, tick>>

\* GET /api/jobs/[jobId] writes the progress it read back, with a timestamp.
PollReads(j) ==
    /\ job[j].complete /\ job[j].progress.long
    /\ Reads(j)

\* POST /api/jobs/[jobId]/synthesis/retry: the flags it adds are read by nobody.
RetryReads(j) ==
    /\ job[j].complete /\ job[j].doc # "real"
    /\ Reads(j)

RequestWrites ==
    /\ request.job # NoJob
    /\ Sets(request.job, [job[request.job] EXCEPT !.progress = request.copy])
    /\ request' = [NoRequest EXCEPT !.made = request.made]
    /\ UNCHANGED tick

\* POST /api/jobs/[jobId]/synthesis/skip replaces all of progress, whatever
\* the status; the worker looks at none of it.
Skip(j) ==
    /\ Asked
    /\ Sets(j, [job[j] EXCEPT !.progress = [audit |-> "none", long |-> FALSE]])
    /\ UNCHANGED tick

\* Operators' tooling marks a synthesis as skipped.
PutStub(j) ==
    /\ Asked
    /\ job[j].complete /\ job[j].doc = "none"
    /\ Sets(j, [job[j] EXCEPT !.doc = "stub", !.marked = TRUE])
    /\ UNCHANGED tick

-----------------------------------------------------------------------------
(* Around them                                                             *)

Completes(j) ==
    /\ ~job[j].complete
    /\ Sets(j, [job[j] EXCEPT !.complete = TRUE])
    /\ UNCHANGED <<tick, request>>

BudgetRunsOut(j) ==
    /\ job[j].budget = "open"
    /\ Sets(j, [job[j] EXCEPT !.budget = "spent"])
    /\ UNCHANGED <<tick, request>>

Next ==
    \/ \E t \in Tick : Finds(t) \/ Works(t) \/ Killed(t)
    \/ \E j \in Job : PollReads(j) \/ RetryReads(j) \/ Skip(j) \/ PutStub(j)
    \/ RequestWrites
    \/ \E j \in Job : Completes(j) \/ BudgetRunsOut(j)

Spec == Init /\ [][Next]_vars

\* Cron keeps calling, an invocation goes on until it is ended, a statement
\* tried again and again is taken, and time passes.
Fairness ==
    /\ \A t \in Tick : WF_vars(Finds(t)) /\ WF_vars(Works(t)) /\ SF_vars(Begin(t))
    /\ \A j \in Job : WF_vars(BudgetRunsOut(j))

FairSpec == Spec /\ Fairness

-----------------------------------------------------------------------------
(* What the author is told                                                 *)

\* Mutant: as app/evaluate/[jobId]/page.tsx has it, a missing audit is no block.
ReadyUnlessBlocked(j) == j.complete /\ j.audit # "block"

\* dream_ready: the verdict is taken from the audit itself where progress has
\* none, and asked for only if the job is known to be long.  pass3_completed_at
\* is there in any case, from the documents of the evaluation itself.
DreamReady(j) ==
    /\ j.complete
    /\ j.progress.long =>
          "pass" = IF j.progress.audit # "none" THEN j.progress.audit ELSE j.audit

-----------------------------------------------------------------------------
(* Properties                                                              *)

\* Jobs, invocations and the request under way keep their shape: no verdict but
\* the two, and no copy of progress that progress never was.
TypeOK ==
    /\ job \in [Job -> JobState]
    /\ tick \in [Tick -> TickState]
    /\ request \in RequestState

\* A long-form job is ready only when an audit of it is stored, whatever copies
\* of progress late ticks and requests write back; and only with its document,
\* unless operators put a stub there once: a tick that read the stub may delete
\* the document by job and type long after another tick stored it.
ReadyIsAudited ==
    \A j \in Job : DreamReady(job[j]) /\ job[j].progress.long =>
        job[j].audit # "none" /\ (job[j].doc = "real" \/ job[j].marked)

\* A document, once there, stays: late ticks that find it missing, fail or
\* delete by job and type take it only from a job that operators marked.
DocumentIsKept ==
    [][\A j \in Job : job[j].doc = "real" /\ ~job[j].marked
                         => job'[j].doc = "real"]_vars

\* The budget ends the spending on a job, however often ticks fail or are
\* killed and the author asks again: some call for it is the last.
SpendEnds == <>[](\A t \in Tick : tick[t].at # "calling")

\* The oldest complete job without a document gets one or uses up its budget,
\* though ticks overlap, are killed, and stubs come and go.
Oldest(j) == Pending(j) /\ \A k \in Job : Pending(k) => j <= k

OldestIsDecided ==
    \A j \in Job : Oldest(j) ~> ~Oldest(j) \/ job[j].budget = "spent"
=============================================================================
