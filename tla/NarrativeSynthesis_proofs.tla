---------------------- MODULE NarrativeSynthesis_proofs ----------------------
(***************************************************************************)
(* Narrative synthesis, for any number of jobs, overlapping invocations    *)
(* and requests: its types, that a job is ready only when it is audited    *)
(* and, unless operators put a stub there once, has its document, and that *)
(* a document is taken from no other job.                                  *)
(***************************************************************************)
EXTENDS NarrativeSynthesis, TLAPS

-----------------------------------------------------------------------------
(* The invariant                                                           *)

\* What an invocation can rely on that has found a document: it is there, or
\* another invocation deleted it that had read the stub before.
Documented(j) == j.doc = "real" \/ j.marked

\* A stub is one that operators put there, an audit is of a document, and
\* progress has the verdict of an audit that is stored.
JobOK(j) ==
    /\ j \in JobState
    /\ j.doc = "stub" => j.marked
    /\ j.audit # "none" => Documented(j)
    /\ j.progress.audit # "none" => j.audit # "none"

\* The invocation s, with these rows, deletes only what operators marked and
\* finds what its earlier steps stored.
Fits(s, rows) ==
    /\ s \in TickState
    /\ s.at \notin {"idle", "finding"} => s.job \in Job
    /\ \A j \in s.stubs : rows[j].marked
    /\ s.at = "clearing" => rows[s.job].marked
    /\ s.at \in {"stored", "judged"} => Documented(rows[s.job])
    /\ s.at \in {"judged", "audited", "finishing"} => s.verdict \in Verdict
    /\ s.at \in {"audited", "finishing"} => rows[s.job].audit # "none"

\* A copy of progress that a request has read does not run ahead of the audit.
RequestFits(r, rows) ==
    /\ r \in RequestState
    /\ r.job # NoJob /\ r.copy.audit # "none" => rows[r.job].audit # "none"

JobsOK == job \in [Job -> JobState] /\ \A j \in Job : JobOK(job[j])

TicksOK == tick \in [Tick -> TickState] /\ \A t \in Tick : Fits(tick[t], job)

IInv == JobsOK /\ TicksOK /\ RequestFits(request, job)

\* What a step may make of a job: audits and marks stay, and so does a document
\* that no stub was ever in the place of.
Keeps(j, new) ==
    /\ j.marked => new.marked
    /\ j.audit # "none" => new.audit # "none"
    /\ j.doc = "real" /\ ~j.marked => new.doc = "real"

Grows == \A j \in Job : Keeps(job[j], job'[j])

-----------------------------------------------------------------------------
(* Types                                                                   *)

\* Progress has no verdict at first.
LEMMA NewProgressType == NewProgress \in Progress /\ NewProgress.audit = "none"
BY DEF NewProgress, Progress

\* An invocation with nothing to do is one, and one that has picked a job.
LEMMA IdleType ==
    /\ Idle \in TickState /\ Idle.at = "idle" /\ Idle.stubs = {}
    /\ \A j \in Job : LET s == [Idle EXCEPT !.at = "picked", !.job = j] IN
          s \in TickState /\ s.at = "picked" /\ s.job = j /\ s.stubs = {}
    /\ \A S, D \in SUBSET Job :
          LET s == [Idle EXCEPT !.at = "finding", !.stubs = S, !.done = D] IN
          s \in TickState /\ s.at = "finding" /\ s.stubs = S
BY NewProgressType DEF Idle, TickState, Step

\* An idle invocation fits any rows.
LEMMA IdleFits == \A rows : Fits(Idle, rows)
BY IdleType DEF Fits

\* At first there is no document, no invocation and no request.
LEMMA InitInv == Init => IInv
<1> SUFFICES ASSUME Init PROVE IInv
  OBVIOUS
<1>1. NewJob \in JobState /\ JobOK(NewJob)
  BY NewProgressType DEF NewJob, JobState, JobOK, Verdict
<1>2. RequestFits(request, job)
  BY NewProgressType, BoundsAssumption
  DEF Init, RequestFits, NoRequest, RequestState, NoJob
<1>3. JobsOK BY <1>1 DEF Init, JobsOK
<1>4. TicksOK BY IdleType, IdleFits DEF Init, TicksOK
<1> QED BY <1>2, <1>3, <1>4 DEF IInv

-----------------------------------------------------------------------------
(* What the parts of a step keep                                           *)

\* A job that is written as it should be.
LEMMA JobWritten ==
    ASSUME IInv, NEW j \in Job, NEW new, JobOK(new), Keeps(job[j], new),
           job' = [job EXCEPT ![j] = new]
    PROVE  JobsOK' /\ Grows /\ job'[j] = new
<1>1. job \in [Job -> JobState] /\ \A k \in Job : JobOK(job[k])
  BY DEF IInv, JobsOK
<1>2. new \in JobState BY DEF JobOK
<1>3. job'[j] = new /\ \A k \in Job : k # j => job'[k] = job[k] BY <1>1
<1>4. job' \in [Job -> JobState] BY <1>1, <1>2
<1>5. \A k \in Job : JobOK(job'[k]) BY <1>1, <1>3
<1>6. Grows BY <1>3 DEF Grows, Keeps
<1> QED BY <1>3, <1>4, <1>5, <1>6 DEF JobsOK

\* A step that writes no job.
LEMMA JobsStay ==
    ASSUME IInv, UNCHANGED job
    PROVE  JobsOK' /\ Grows
BY DEF IInv, JobsOK, Grows, Keeps

\* What an invocation found it still finds.
LEMMA FitsStill ==
    ASSUME Grows, NEW s, Fits(s, job)
    PROVE  Fits(s, job')
<1>1. s \in TickState /\ \A j \in s.stubs : j \in Job
  BY DEF Fits, TickState
<1>2. \A j \in Job : Documented(job[j]) => Documented(job'[j])
  BY DEF Grows, Keeps, Documented
<1>3. \A j \in Job : /\ job[j].marked => job'[j].marked
                     /\ job[j].audit # "none" => job'[j].audit # "none"
  BY DEF Grows, Keeps
<1> QED BY <1>1, <1>2, <1>3 DEF Fits

\* An invocation that goes on, and the others.
LEMMA TicksMove ==
    ASSUME IInv, Grows, NEW t \in Tick, NEW s, Fits(s, job'),
           tick' = [tick EXCEPT ![t] = s]
    PROVE  TicksOK'
<1>1. tick \in [Tick -> TickState] /\ \A u \in Tick : Fits(tick[u], job)
  BY DEF IInv, TicksOK
<1>2. tick'[t] = s /\ \A u \in Tick : u # t => tick'[u] = tick[u] BY <1>1
<1>3. s \in TickState BY DEF Fits
<1>4. tick' \in [Tick -> TickState] BY <1>1, <1>3
<1>5. \A u \in Tick : Fits(tick'[u], job') BY <1>1, <1>2, FitsStill
<1> QED BY <1>4, <1>5 DEF TicksOK

\* All of them finding what they found.
LEMMA TicksStay ==
    ASSUME IInv, Grows, UNCHANGED tick
    PROVE  TicksOK'
BY FitsStill DEF IInv, TicksOK

\* An invocation that ends.
LEMMA TickEnds ==
    ASSUME IInv, Grows, NEW t \in Tick, Ends(t)
    PROVE  TicksOK'
<1>1. tick' = [tick EXCEPT ![t] = Idle] BY DEF Ends
<1> QED BY <1>1, IdleFits, TicksMove

\* An invocation that only moves on, to a step that has what it needs.
LEMMA TickMoves ==
    ASSUME IInv, Grows, NEW t \in Tick, Working(t),
           NEW a \in {"begun", "clearing", "checked", "calling", "stored"},
           Moves(t, a),
           a = "clearing" => Row(t).marked,
           a = "stored" => Documented(job'[On(t)])
    PROVE  TicksOK'
<1> DEFINE s == [tick[t] EXCEPT !.at = a]
<1>1. Fits(tick[t], job) /\ tick[t] \in TickState BY DEF IInv, TicksOK
<1>2. s \in TickState /\ s.at = a /\ s.job = On(t) /\ s.stubs = tick[t].stubs
  BY <1>1 DEF TickState, Step, On
<1>3. tick' = [tick EXCEPT ![t] = s] BY DEF Moves
<1>4. On(t) \in Job BY <1>1 DEF Fits, Working, On
<1>5. \A j \in tick[t].stubs : job'[j].marked
  BY <1>1, FitsStill DEF Fits
<1>6. a = "clearing" => job'[On(t)].marked
  BY <1>4 DEF Row, Grows, Keeps
<1> HIDE DEF s
<1>7. Fits(s, job') BY <1>2, <1>4, <1>5, <1>6 DEF Fits
<1> QED BY <1>3, <1>7, TicksMove

\* A request that is not touched.
LEMMA RequestStays ==
    ASSUME IInv, Grows, UNCHANGED request
    PROVE  RequestFits(request, job)'
BY DEF IInv, RequestFits, Grows, Keeps, RequestState, NoJob

\* The job of an invocation at work.
LEMMA AtWork ==
    ASSUME IInv, NEW t \in Tick, Working(t)
    PROVE  /\ On(t) \in Job /\ Row(t) = job[On(t)] /\ JobOK(Row(t))
           /\ tick[t] \in TickState /\ Fits(tick[t], job)
BY DEF IInv, JobsOK, TicksOK, Fits, Working, Row, On

\* A step of an invocation that writes no job and lets it end.
LEMMA EndsInv ==
    ASSUME IInv, NEW t \in Tick, Ends(t), UNCHANGED <<job, request>>
    PROVE  IInv' /\ Grows
BY JobsStay, TickEnds, RequestStays DEF IInv

\* Deleting by job and type is harmless where operators put a stub once.
LEMMA DeletedOK ==
    ASSUME NEW j, JobOK(j), j.marked
    PROVE  JobOK([j EXCEPT !.doc = "none"]) /\ Keeps(j, [j EXCEPT !.doc = "none"])
<1> DEFINE new == [j EXCEPT !.doc = "none"]
<1>1. /\ new \in JobState /\ new.doc = "none" /\ new.marked = j.marked
      /\ new.audit = j.audit /\ new.progress = j.progress
  BY DEF JobOK, JobState
<1> HIDE DEF new
<1>2. JobOK(new) /\ Keeps(j, new) BY <1>1 DEF JobOK, Keeps, Documented
<1> QED BY <1>2 DEF new

-----------------------------------------------------------------------------
(* Steps                                                                   *)

LEMMA FindsInv ==
    ASSUME IInv, NEW t \in Tick, Finds(t)
    PROVE  IInv' /\ Grows
<1> DEFINE D == {j \in Job : job[j].doc = "real"}
           s == [Idle EXCEPT !.at = "finding", !.stubs = Stubs, !.done = D]
<1>1. JobsOK' /\ Grows /\ job' = job BY JobsStay DEF Finds
<1>2. Stubs \in SUBSET Job /\ D \in SUBSET Job BY DEF Stubs
<1>3. s \in TickState /\ s.at = "finding" /\ s.stubs = Stubs
  BY <1>2, IdleType
<1>4. \A j \in Stubs : job[j].marked BY DEF IInv, JobsOK, JobOK, Stubs
<1>5. tick' = [tick EXCEPT ![t] = s] BY DEF Finds
<1> HIDE DEF s
<1>6. Fits(s, job') BY <1>1, <1>3, <1>4 DEF Fits
<1> QED BY <1>1, <1>5, <1>6, TicksMove, RequestStays DEF IInv, Finds

LEMMA ClearsInv ==
    ASSUME IInv, NEW t \in Tick, Clears(t)
    PROVE  IInv' /\ Grows
<1>1. PICK j \in tick[t].stubs :
        /\ job' \in {job, [job EXCEPT ![j].doc = "none"]}
        /\ tick' = [tick EXCEPT ![t].stubs = @ \ {j}]
  BY DEF Clears
<1> DEFINE s == [tick[t] EXCEPT !.stubs = @ \ {j}]
<1>2. /\ tick[t] \in TickState /\ Fits(tick[t], job) /\ tick[t].at = "finding"
      /\ tick \in [Tick -> TickState]
  BY DEF IInv, TicksOK, Clears
<1>3. j \in Job /\ job[j].marked BY <1>2 DEF Fits, TickState
<1>4. JobOK(job[j]) BY <1>3 DEF IInv, JobsOK
<1>5. JobsOK' /\ Grows
  <2>1. CASE UNCHANGED job BY <2>1, JobsStay
  <2>2. CASE job' = [job EXCEPT ![j].doc = "none"]
    <3>1. job' = [job EXCEPT ![j] = [job[j] EXCEPT !.doc = "none"]]
      BY <2>2
    <3> QED BY <1>3, <1>4, <3>1, DeletedOK, JobWritten
  <2> QED BY <1>1, <2>1, <2>2
<1>6. s \in TickState /\ s.at = "finding" /\ s.stubs \subseteq tick[t].stubs
  BY <1>2 DEF TickState
<1>7. tick' = [tick EXCEPT ![t] = s] BY <1>1, <1>2
<1>8. \A k \in tick[t].stubs : job'[k].marked
  BY <1>2, <1>5, FitsStill DEF Fits
<1> HIDE DEF s
<1>9. Fits(s, job') BY <1>6, <1>8 DEF Fits
<1> QED BY <1>5, <1>7, <1>9, TicksMove, RequestStays DEF IInv, Clears

LEMMA PicksInv ==
    ASSUME IInv, NEW t \in Tick, Picks(t)
    PROVE  IInv' /\ Grows
<1>1. CASE Ends(t) BY <1>1, EndsInv DEF Picks
<1>2. CASE \E j \in Job :
             tick' = [tick EXCEPT ![t] = [Idle EXCEPT !.at = "picked", !.job = j]]
  <2>1. PICK j \in Job :
          tick' = [tick EXCEPT ![t] = [Idle EXCEPT !.at = "picked", !.job = j]]
    BY <1>2
  <2> DEFINE s == [Idle EXCEPT !.at = "picked", !.job = j]
  <2>2. s \in TickState /\ s.at = "picked" /\ s.job = j /\ s.stubs = {}
    BY IdleType
  <2>3. tick' = [tick EXCEPT ![t] = s] BY <2>1
  <2>4. JobsOK' /\ Grows BY JobsStay DEF Picks
  <2> HIDE DEF s
  <2>5. Fits(s, job') BY <2>2 DEF Fits
  <2> QED BY <2>3, <2>4, <2>5, TicksMove, RequestStays DEF IInv, Picks
<1> QED BY <1>1, <1>2 DEF Picks

LEMMA BeginInv ==
    ASSUME IInv, NEW t \in Tick, Begin(t)
    PROVE  IInv' /\ Grows
<1>1. Working(t) BY DEF Begin, Working
<1>2. On(t) \in Job /\ JobOK(Row(t)) /\ Row(t) = job[On(t)]
  BY <1>1, AtWork
<1>3. JobOK(Anchored(Row(t))) /\ Keeps(Row(t), Anchored(Row(t)))
  BY <1>2 DEF Anchored, JobOK, JobState, Keeps, Documented
<1>4. JobsOK' /\ Grows BY <1>2, <1>3, JobWritten DEF Begin, Sets
<1>5. Ends(t) \/ Moves(t, "begun") BY DEF Begin
<1>6. TicksOK' BY <1>1, <1>4, <1>5, TickEnds, TickMoves
<1> QED BY <1>4, <1>6, RequestStays DEF IInv, Begin

LEMMA PreflightInv ==
    ASSUME IInv, NEW t \in Tick, Preflight(t)
    PROVE  IInv' /\ Grows
<1>1. Working(t) BY DEF Preflight, Working
<1>2. JobOK(Row(t)) BY <1>1, AtWork
<1>3. JobsOK' /\ Grows BY JobsStay DEF Preflight
<1>4. TicksOK'
  <2>1. CASE Row(t).doc = "stub" /\ Moves(t, "clearing")
    BY <1>1, <1>2, <1>3, <2>1, TickMoves DEF JobOK
  <2>2. CASE Moves(t, "checked") BY <1>1, <1>3, <2>2, TickMoves
  <2>3. CASE Ends(t) BY <1>3, <2>3, TickEnds
  <2> QED BY <2>1, <2>2, <2>3 DEF Preflight
<1> QED BY <1>3, <1>4, RequestStays DEF IInv, Preflight

LEMMA PreflightClearsInv ==
    ASSUME IInv, NEW t \in Tick, PreflightClears(t)
    PROVE  IInv' /\ Grows
<1>1. Working(t) BY DEF PreflightClears, Working
<1>2. /\ On(t) \in Job /\ JobOK(Row(t)) /\ Row(t) = job[On(t)]
      /\ Fits(tick[t], job)
  BY <1>1, AtWork
<1>3. Row(t).marked BY <1>2 DEF PreflightClears, Fits, On
<1>4. JobsOK' /\ Grows
  <2>1. CASE UNCHANGED job BY <2>1, JobsStay
  <2>2. CASE job' = [job EXCEPT ![On(t)].doc = "none"]
    <3>1. job' = [job EXCEPT ![On(t)] = [Row(t) EXCEPT !.doc = "none"]]
      BY <1>2, <2>2
    <3> QED BY <1>2, <1>3, <3>1, DeletedOK, JobWritten
  <2> QED BY <2>1, <2>2 DEF PreflightClears
<1> QED BY <1>4, TickEnds, RequestStays DEF IInv, PreflightClears

LEMMA CallsInv ==
    ASSUME IInv, NEW t \in Tick, Calls(t)
    PROVE  IInv' /\ Grows
<1>1. Working(t) BY DEF Calls, Working
<1>2. JobsOK' /\ Grows BY JobsStay DEF Calls
<1>3. Moves(t, "calling") \/ Ends(t) BY DEF Calls
<1>4. TicksOK' BY <1>1, <1>2, <1>3, TickMoves, TickEnds
<1> QED BY <1>2, <1>4, RequestStays DEF IInv, Calls

LEMMA StoresDocumentInv ==
    ASSUME IInv, NEW t \in Tick, StoresDocument(t)
    PROVE  IInv' /\ Grows
<1> DEFINE new == [Row(t) EXCEPT !.doc = "real"]
<1>1. Working(t) BY DEF StoresDocument, Working
<1>2. On(t) \in Job /\ JobOK(Row(t)) /\ Row(t) = job[On(t)]
  BY <1>1, AtWork
<1>3. JobOK(new) /\ Keeps(Row(t), new) /\ Documented(new)
  BY <1>2 DEF JobOK, Keeps, JobState, Documented
<1>4. job' = [job EXCEPT ![On(t)] = new] BY DEF StoresDocument, Sets
<1> HIDE DEF new
<1>5. JobsOK' /\ Grows /\ job'[On(t)] = new BY <1>2, <1>3, <1>4, JobWritten
<1>6. TicksOK' BY <1>1, <1>3, <1>5, TickMoves DEF StoresDocument
<1> QED BY <1>5, <1>6, RequestStays DEF IInv, StoresDocument

LEMMA JudgesInv ==
    ASSUME IInv, NEW t \in Tick, Judges(t)
    PROVE  IInv' /\ Grows
<1>1. PICK v \in Verdicts(Row(t)) :
        tick' = [tick EXCEPT ![t].at = "judged", ![t].verdict = v]
  BY DEF Judges
<1> DEFINE s == [tick[t] EXCEPT !.at = "judged", !.verdict = v]
<1>2. Working(t) /\ tick[t].at = "stored" BY DEF Judges, Working
<1>3. /\ On(t) \in Job /\ Fits(tick[t], job) /\ tick[t] \in TickState
      /\ tick \in [Tick -> TickState]
  BY <1>2, AtWork DEF IInv, TicksOK
<1>4. v \in Verdict BY DEF Verdicts, Verdict
<1>5. /\ s \in TickState /\ s.at = "judged" /\ s.job = tick[t].job
      /\ s.verdict = v /\ s.stubs = tick[t].stubs
  BY <1>3, <1>4 DEF TickState, Step
<1>6. tick' = [tick EXCEPT ![t] = s] BY <1>1, <1>3
<1>7. JobsOK' /\ Grows /\ job' = job BY JobsStay DEF Judges
<1> HIDE DEF s
<1>8. Fits(s, job') BY <1>2, <1>3, <1>4, <1>5, <1>7 DEF Fits
<1> QED BY <1>6, <1>7, <1>8, TicksMove, RequestStays DEF IInv, Judges

\* An audit is of a document that the invocation stored: it is there, or another
\* invocation deleted it that had read a stub of the same job.
LEMMA StoresAuditInv ==
    ASSUME IInv, NEW t \in Tick, StoresAudit(t)
    PROVE  IInv' /\ Grows
<1> DEFINE new == [Row(t) EXCEPT !.audit = tick[t].verdict]
           s   == [tick[t] EXCEPT !.at = "audited"]
<1>1. Working(t) /\ tick[t].at = "judged" BY DEF StoresAudit, Working
<1>2. /\ On(t) \in Job /\ JobOK(Row(t)) /\ Row(t) = job[On(t)]
      /\ Fits(tick[t], job) /\ tick[t] \in TickState
  BY <1>1, AtWork
<1>3. tick[t].verdict \in Verdict /\ Documented(Row(t))
  BY <1>1, <1>2 DEF Fits, On
<1>4. JobOK(new) /\ Keeps(Row(t), new) /\ new.audit # "none"
  BY <1>2, <1>3 DEF JobOK, Keeps, JobState, Documented, Verdict
<1>5. job' = [job EXCEPT ![On(t)] = new] BY DEF StoresAudit, Sets
<1>6. /\ s \in TickState /\ s.at = "audited" /\ s.job = On(t)
      /\ s.verdict = tick[t].verdict /\ s.stubs = tick[t].stubs
  BY <1>2 DEF TickState, Step, On
<1>7. tick' = [tick EXCEPT ![t] = s] BY DEF StoresAudit, Moves
<1> HIDE DEF new, s
<1>8. JobsOK' /\ Grows /\ job'[On(t)] = new BY <1>2, <1>4, <1>5, JobWritten
<1>9. \A j \in tick[t].stubs : job'[j].marked BY <1>2, <1>8, FitsStill DEF Fits
<1>10. Fits(s, job') BY <1>2, <1>3, <1>4, <1>6, <1>8, <1>9 DEF Fits
<1> QED BY <1>7, <1>8, <1>10, TicksMove, RequestStays DEF IInv, StoresAudit

LEMMA ReadsProgressInv ==
    ASSUME IInv, NEW t \in Tick, ReadsProgress(t)
    PROVE  IInv' /\ Grows
<1> DEFINE s == [tick[t] EXCEPT !.at = "finishing", !.copy = Row(t).progress]
<1>1. Working(t) /\ tick[t].at = "audited" BY DEF ReadsProgress, Working
<1>2. /\ On(t) \in Job /\ JobOK(Row(t)) /\ Fits(tick[t], job)
      /\ tick[t] \in TickState /\ tick \in [Tick -> TickState]
  BY <1>1, AtWork DEF IInv, TicksOK
<1>3. Row(t).progress \in Progress BY <1>2 DEF JobOK, JobState
<1>4. /\ s \in TickState /\ s.at = "finishing" /\ s.job = tick[t].job
      /\ s.verdict = tick[t].verdict /\ s.stubs = tick[t].stubs
  BY <1>2, <1>3 DEF TickState, Step
<1>5. tick' = [tick EXCEPT ![t] = s] BY <1>2 DEF ReadsProgress
<1>6. JobsOK' /\ Grows /\ job' = job BY JobsStay DEF ReadsProgress
<1> HIDE DEF s
<1>7. Fits(s, job') BY <1>1, <1>2, <1>4, <1>6 DEF Fits
<1> QED BY <1>5, <1>6, <1>7, TicksMove, RequestStays DEF IInv, ReadsProgress

LEMMA WritesProgressInv ==
    ASSUME IInv, NEW t \in Tick, WritesProgress(t)
    PROVE  IInv' /\ Grows
<1> DEFINE p   == [tick[t].copy EXCEPT !.audit = tick[t].verdict]
           new == [Row(t) EXCEPT !.progress = p]
<1>1. Working(t) /\ tick[t].at = "finishing" BY DEF WritesProgress, Working
<1>2. /\ On(t) \in Job /\ JobOK(Row(t)) /\ Row(t) = job[On(t)]
      /\ Fits(tick[t], job) /\ tick[t] \in TickState
  BY <1>1, AtWork
<1>3. Row(t).audit # "none" /\ tick[t].verdict \in Verdict
  BY <1>1, <1>2 DEF Fits, On
<1>4. p \in Progress BY <1>2, <1>3 DEF TickState, Progress
<1>5. job' = [job EXCEPT ![On(t)] = new] /\ Ends(t) BY DEF WritesProgress, Sets
<1> HIDE DEF p
<1>6. JobOK(new) /\ Keeps(Row(t), new)
  BY <1>2, <1>3, <1>4 DEF JobOK, Keeps, JobState, Documented
<1> HIDE DEF new
<1>7. JobsOK' /\ Grows BY <1>2, <1>5, <1>6, JobWritten
<1> QED BY <1>5, <1>7, TickEnds, RequestStays DEF IInv, WritesProgress

\* What a request has read is what progress says now.
LEMMA ReadsInv ==
    ASSUME IInv, NEW j \in Job, Reads(j)
    PROVE  IInv' /\ Grows
<1>1. JobsOK' /\ Grows /\ job' = job BY JobsStay DEF Reads
<1>2. TicksOK' BY <1>1, TicksStay DEF Reads
<1>3. JobOK(job[j]) /\ job[j].progress \in Progress
  BY DEF IInv, JobsOK, JobOK, JobState
<1>4. request \in RequestState BY DEF IInv, RequestFits
<1>5. request.made + 1 \in 0..MaxRequests
  BY <1>4, BoundsAssumption DEF Reads, RequestState
<1>6. request' = [job |-> j, copy |-> job[j].progress,
                  made |-> request.made + 1]
  BY DEF Reads
<1>7. RequestFits(request', job')
  BY <1>1, <1>3, <1>5, <1>6 DEF RequestFits, RequestState, JobOK
<1> QED BY <1>1, <1>2, <1>7 DEF IInv

LEMMA RequestWritesInv ==
    ASSUME IInv, RequestWrites
    PROVE  IInv' /\ Grows
<1> DEFINE j   == request.job
           new == [job[j] EXCEPT !.progress = request.copy]
<1>1. /\ request \in RequestState /\ j \in Job
      /\ request.copy.audit # "none" => job[j].audit # "none"
  BY DEF RequestWrites, IInv, RequestFits, RequestState
<1>2. request.copy \in Progress /\ request.made \in 0..MaxRequests
  BY <1>1 DEF RequestState
<1>3. JobOK(job[j]) BY <1>1 DEF IInv, JobsOK
<1>4. JobOK(new) /\ Keeps(job[j], new)
  BY <1>1, <1>2, <1>3 DEF JobOK, Keeps, JobState, Documented
<1>5. job' = [job EXCEPT ![j] = new] BY DEF RequestWrites, Sets
<1> HIDE DEF new
<1>6. JobsOK' /\ Grows BY <1>1, <1>4, <1>5, JobWritten
<1>7. TicksOK' BY <1>6, TicksStay DEF RequestWrites
<1>8. request' = [NoRequest EXCEPT !.made = request.made] BY DEF RequestWrites
<1>9. request' \in RequestState /\ request'.job = NoJob
  BY <1>2, <1>8, NewProgressType DEF RequestState, NoRequest
<1>10. RequestFits(request', job') BY <1>9 DEF RequestFits
<1> QED BY <1>6, <1>7, <1>10 DEF IInv

\* A request that is answered at once leaves the one under way.
LEMMA AskedInv ==
    ASSUME IInv, Grows, Asked
    PROVE  RequestFits(request, job)'
<1>1. RequestFits(request, job) /\ request \in RequestState
  BY DEF IInv, RequestFits
<1>2. request.made + 1 \in 0..MaxRequests
  BY <1>1, BoundsAssumption DEF Asked, RequestState
<1>3. /\ request' \in RequestState
      /\ request'.job = request.job /\ request'.copy = request.copy
  BY <1>1, <1>2 DEF Asked, RequestState
<1>4. request.job # NoJob => request.job \in Job BY <1>1 DEF RequestState
<1> QED BY <1>1, <1>3, <1>4 DEF RequestFits, Grows, Keeps

LEMMA SkipInv ==
    ASSUME IInv, NEW j \in Job, Skip(j)
    PROVE  IInv' /\ Grows
<1> DEFINE p   == [audit |-> "none", long |-> FALSE]
           new == [job[j] EXCEPT !.progress = p]
<1>1. JobOK(job[j]) BY DEF IInv, JobsOK
<1>2. p \in Progress /\ p.audit = "none" BY DEF Progress
<1>3. job' = [job EXCEPT ![j] = new] BY DEF Skip, Sets
<1> HIDE DEF p
<1>4. JobOK(new) /\ Keeps(job[j], new)
  BY <1>1, <1>2 DEF JobOK, Keeps, JobState, Documented
<1> HIDE DEF new
<1>5. JobsOK' /\ Grows BY <1>3, <1>4, JobWritten
<1> QED BY <1>5, TicksStay, AskedInv DEF IInv, Skip

LEMMA PutStubInv ==
    ASSUME IInv, NEW j \in Job, PutStub(j)
    PROVE  IInv' /\ Grows
<1> DEFINE new == [job[j] EXCEPT !.doc = "stub", !.marked = TRUE]
<1>1. JobOK(job[j]) /\ job[j].doc = "none" BY DEF IInv, JobsOK, PutStub
<1>2. JobOK(new) /\ Keeps(job[j], new)
  BY <1>1 DEF JobOK, Keeps, JobState, Documented
<1>3. job' = [job EXCEPT ![j] = new] BY DEF PutStub, Sets
<1> HIDE DEF new
<1>4. JobsOK' /\ Grows BY <1>2, <1>3, JobWritten
<1> QED BY <1>4, TicksStay, AskedInv DEF IInv, PutStub

\* Jobs complete and run out of their budget.
LEMMA AroundInv ==
    ASSUME IInv, NEW j \in Job, Completes(j) \/ BudgetRunsOut(j)
    PROVE  IInv' /\ Grows
<1>1. JobOK(job[j]) BY DEF IInv, JobsOK
<1>2. JobOK([job[j] EXCEPT !.complete = TRUE])
      /\ Keeps(job[j], [job[j] EXCEPT !.complete = TRUE])
  BY <1>1 DEF JobOK, Keeps, JobState, Documented
<1>3. JobOK([job[j] EXCEPT !.budget = "spent"])
      /\ Keeps(job[j], [job[j] EXCEPT !.budget = "spent"])
  BY <1>1 DEF JobOK, Keeps, JobState, Documented
<1>4. JobsOK' /\ Grows
  BY <1>2, <1>3, JobWritten DEF Completes, BudgetRunsOut, Sets
<1> QED BY <1>4, TicksStay, RequestStays DEF IInv, Completes, BudgetRunsOut

\* Every step keeps the invariant, and takes away no audit and no document that
\* no stub was ever in the place of.
LEMMA StepInv == IInv /\ [Next]_vars => IInv' /\ Grows
<1> SUFFICES ASSUME IInv, [Next]_vars PROVE IInv' /\ Grows
  OBVIOUS
<1>1. CASE UNCHANGED vars
  BY <1>1, JobsStay, TicksStay, RequestStays DEF vars, IInv
<1>2. ASSUME NEW t \in Tick, Finds(t) \/ Works(t) \/ Killed(t)
      PROVE  IInv' /\ Grows
  <2>1. CASE Finds(t) BY <2>1, FindsInv
  <2>2. CASE Throws(t) \/ Killed(t) BY <2>2, EndsInv DEF Throws, Killed
  <2>3. CASE Works(t) /\ ~Throws(t)
    BY <2>3, ClearsInv, PicksInv, BeginInv, PreflightInv, PreflightClearsInv,
       CallsInv, StoresDocumentInv, JudgesInv, StoresAuditInv, ReadsProgressInv,
       WritesProgressInv
    DEF Works
  <2> QED BY <1>2, <2>1, <2>2, <2>3
<1>3. ASSUME NEW j \in Job, PollReads(j) \/ RetryReads(j) \/ Skip(j) \/ PutStub(j)
      PROVE  IInv' /\ Grows
  BY <1>3, ReadsInv, SkipInv, PutStubInv DEF PollReads, RetryReads
<1>4. CASE RequestWrites BY <1>4, RequestWritesInv
<1>5. CASE \E j \in Job : Completes(j) \/ BudgetRunsOut(j) BY <1>5, AroundInv
<1> QED BY <1>1, <1>2, <1>3, <1>4, <1>5 DEF Next

-----------------------------------------------------------------------------
(* Theorems                                                                *)

\* In every state a stub is one that operators put there, an audit is of a
\* document that is there or was deleted for such a stub, and progress and its
\* copies have no verdict but that of an audit.
THEOREM Invariant == Spec => []IInv
BY InitInv, StepInv, PTL DEF Spec

\* Jobs, invocations and requests keep their shape.
THEOREM TypeCorrect == Spec => []TypeOK
<1>1. IInv => TypeOK BY DEF IInv, JobsOK, TicksOK, TypeOK, RequestFits
<1> QED BY <1>1, Invariant, PTL

\* A long-form job is ready only with an audit, and with its document unless
\* operators put a stub there once.
THEOREM ReadyAudited == Spec => []ReadyIsAudited
<1>1. IInv => ReadyIsAudited
  <2> SUFFICES ASSUME IInv, NEW j \in Job, DreamReady(job[j]), job[j].progress.long
               PROVE  job[j].audit # "none" /\ (job[j].doc = "real" \/ job[j].marked)
    BY DEF ReadyIsAudited
  <2>1. JobOK(job[j]) BY DEF IInv, JobsOK
  <2> QED BY <2>1 DEF JobOK, DreamReady, Documented
<1> QED BY <1>1, Invariant, PTL

\* A document, once there, is taken only from a job that operators marked.
THEOREM DocumentKept == Spec => DocumentIsKept
<1>1. Grows => \A j \in Job : job[j].doc = "real" /\ ~job[j].marked
                                 => job'[j].doc = "real"
  BY DEF Grows, Keeps
<1>2. IInv /\ [Next]_vars =>
        [\A j \in Job : job[j].doc = "real" /\ ~job[j].marked
                           => job'[j].doc = "real"]_vars
  BY <1>1, StepInv
<1> QED BY <1>2, Invariant, PTL DEF Spec, DocumentIsKept
=============================================================================
