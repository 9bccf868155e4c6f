----------------------------- MODULE FinalReview -----------------------------
(***************************************************************************)
(* Final Review: applyFinalReviewDecisions of finalReviewRuntime.ts turns  *)
(* the latest decisions into a new version of the manuscript.  It reads    *)
(* the ledger, then the queue, certifies that every ready opportunity is   *)
(* decided, checks that the decisions were made for what the queue holds,  *)
(* and calls apply_final_review_once, whose transaction locks the          *)
(* manuscript, looks for a run with the request's fingerprint, and inserts *)
(* a version and its run.  The ledger and the queue change meanwhile, and  *)
(* the same is asked several times, also at once.                          *)
(***************************************************************************)
EXTENDS ReviseWorkbench, Sequences

CONSTANTS
    Requests,
    Users,           \* the author, and operators who may act for the author
    MaxVersions      \* bound: derived versions

ASSUME ReviewAssumption == Users # {} /\ MaxVersions \in Nat

VARIABLES
    review,          \* what each request has read, and what it was answered
    versions         \* derived versions with the run that applied each

vars == <<queue, ledger, undone, clock, sync, tab, review, versions>>

Changes == [id : LocalIds, opp : Opportunities, choice : Choices,
            text : Texts \cup {NoText}]

Review == [at : {"idle", "loaded", "applying", "looking", "inserting"},
           by : Users, heads : SUBSET Row,
           applied : SUBSET Changes, certified : SUBSET LocalIds,
           answer : 0..MaxVersions]

NoReview == [at |-> "idle", by |-> CHOOSE u \in Users : TRUE, heads |-> {},
             applied |-> {}, certified |-> {}, answer |-> 0]

Init ==
    /\ LedgerInit /\ WorkbenchInit
    /\ review = [r \in Requests |-> NoReview]
    /\ versions = <<>>

IsApplicable(d) == d.choice \in {"accepted", "custom"}

\* A decision as far as the text of a version goes.
Change(d) == [id |-> d.id, opp |-> d.opp, choice |-> d.choice, text |-> d.text]

\* Mutant: the fingerprint names the decisions, not their text.
FingerprintOfIds(changes, certified) ==
    [decisions |-> {[d EXCEPT !.text = NoText] : d \in changes}, certified |-> certified]

\* The hash over the applied decisions with their text and over the completion
\* certification, which names the decisions of the ready opportunities.  (It
\* also counts the cards that are not ready: that could only tell more requests
\* apart, and so make fewer collide.)
Fingerprint(changes, certified) == [decisions |-> changes, certified |-> certified]

-----------------------------------------------------------------------------

Steps(r, s) == review' = [review EXCEPT ![r] = s]

\* loadRuntimeContext reads the decisions; undo rows are not asked for.
LoadsDecisions(r) ==
    /\ review[r].at = "idle"
    /\ \E u \in Users :
          Steps(r, [NoReview EXCEPT !.at = "loaded", !.by = u, !.heads = Heads])
    /\ UNCHANGED <<queue, ledger, undone, clock, sync, tab, versions>>

ReadyNow == {o \in Opportunities : IsReady(o, queue[o])}

\* certifyCompletion: every ready opportunity has a decision.
IsComplete(heads) == \A o \in ReadyNow : \E d \in heads : d.opp = o

\* validateDecisionAgainstAuthority, for every decision that changes the text.
IsCurrent(heads) ==
    \A d \in heads : IsApplicable(d) => d.opp \in ReadyNow /\ d.edition = queue[d.opp]

\* The queue is read.  Whether each replaced passage is found once in the
\* manuscript is up to the text: the request may be blocked in any case.
Certifies(r) ==
    /\ review[r].at = "loaded"
    /\ LET heads == review[r].heads
           applied == {d \in heads : IsApplicable(d)}
       IN \/ /\ IsComplete(heads) /\ IsCurrent(heads) /\ applied # {}
             /\ Steps(r, [review[r] EXCEPT
                   !.at = "applying", !.heads = {},
                   !.applied = {Change(d) : d \in applied},
                   !.certified = {d.id : d \in {h \in heads : h.opp \in ReadyNow}}])
          \/ Steps(r, NoReview)
    /\ UNCHANGED <<queue, ledger, undone, clock, sync, tab, versions>>

\* The versions that runs with this request's fingerprint have made.
AppliedBefore(r) ==
    {i \in DOMAIN versions :
        /\ versions[i].by = review[r].by
        /\ versions[i].print = Fingerprint(review[r].applied, review[r].certified)}

HasLock(r) == review[r].at \in {"looking", "inserting"}

\* Mutant: the manuscript is not locked.
MayLookAtOnce(r) == review[r].at = "applying"

\* pg_advisory_xact_lock(p_manuscript_id), held to the end of the transaction.
MayLook(r) == review[r].at = "applying" /\ \A q \in Requests : ~HasLock(q)

LocksManuscript(r) ==
    /\ MayLook(r)
    /\ Steps(r, [review[r] EXCEPT !.at = "looking"])
    /\ UNCHANGED <<queue, ledger, undone, clock, sync, tab, versions>>

\* The transaction has committed; its answer may be lost.
IsGiven(r, i) ==
    \/ Steps(r, [review[r] EXCEPT !.at = "idle", !.answer = i])
    \/ Steps(r, NoReview)

FindsVersion(r) ==
    /\ review[r].at = "looking"
    /\ \E i \in AppliedBefore(r) : IsGiven(r, i)
    /\ UNCHANGED <<queue, ledger, undone, clock, sync, tab, versions>>

FindsNone(r) ==
    /\ review[r].at = "looking"
    /\ AppliedBefore(r) = {}
    /\ Steps(r, [review[r] EXCEPT !.at = "inserting"])
    /\ UNCHANGED <<queue, ledger, undone, clock, sync, tab, versions>>

\* The unique index on fingerprints refuses a second run.
InsertsVersion(r) ==
    /\ review[r].at = "inserting"
    /\ IF AppliedBefore(r) = {}
       THEN /\ Len(versions) < MaxVersions
            /\ versions' = Append(versions,
                  [by |-> review[r].by, text |-> review[r].applied,
                   print |-> Fingerprint(review[r].applied, review[r].certified)])
            /\ IsGiven(r, Len(versions) + 1)
       ELSE Steps(r, NoReview) /\ versions' = versions
    /\ UNCHANGED <<queue, ledger, undone, clock, sync, tab>>

\* The call does not get there, or its transaction is cancelled or refused: a
\* revision session, which takes no lock, may have used the version number.
ApplyFails(r) ==
    /\ review[r].at \in {"applying", "looking", "inserting"}
    /\ Steps(r, NoReview)
    /\ UNCHANGED <<queue, ledger, undone, clock, sync, tab, versions>>

ReviewNext(r) ==
    \/ LoadsDecisions(r) \/ Certifies(r) \/ LocksManuscript(r)
    \/ FindsVersion(r) \/ FindsNone(r) \/ InsertsVersion(r) \/ ApplyFails(r)

-----------------------------------------------------------------------------

LedgerNext ==
    \/ QueueRebuilt
    \/ \E c \in Clients : Proceeds(c)
    \/ \E id \in LocalIds : Undoes(id)

Next ==
    \/ LedgerNext /\ UNCHANGED <<tab, review, versions>>
    \/ (\E t \in Tabs : TabNext(t)) /\ UNCHANGED <<review, versions>>
    \/ (\E p \in AutoRuns : AutoNext(p)) /\ UNCHANGED <<review, versions>>
    \/ \E r \in Requests : ReviewNext(r)

Spec == Init /\ [][Next]_vars

\* The database and the server go on with a call that has begun.
Fairness ==
    /\ \A c \in Clients :
          WF_vars((Locks(c) \/ Checks(c)) /\ UNCHANGED <<tab, review, versions>>)
    /\ \A t \in Tabs :
          WF_vars((SyncIsStale(t) \/ SyncWrites(t)) /\ UNCHANGED <<review, versions>>)
    /\ \A p \in AutoRuns : WF_vars(AutoWrites(p) /\ UNCHANGED <<review, versions>>)

FairSpec == Spec /\ Fairness

-----------------------------------------------------------------------------
(* Properties                                                              *)

\* Every variable keeps its shape; a local id names one decision, and of an
\* opportunity's decisions one is the latest.
TypeOK ==
    /\ queue \in [Opportunities -> Editions]
    /\ ledger \subseteq Row
    /\ \A r, s \in ledger : r # s => r.id # s.id
    /\ \A r, s \in ledger : r # s /\ r.opp = s.opp => r.born # s.born
    /\ undone \subseteq LocalIds
    /\ clock \in 0..MaxClock
    /\ sync \in [Clients -> Sync]
    /\ tab \in [Tabs -> Tab]
    /\ review \in [Requests -> Review]
    /\ versions \in Seq([by : Users, text : SUBSET Changes,
                         print : [decisions : SUBSET Changes, certified : SUBSET LocalIds]])

\* An accepted text is stored with the edition it was compared with, although
\* the queue may have been rebuilt between the comparison and the transaction.
AcceptedWasOffered ==
    \A r \in ledger :
        r.choice = "accepted" => IsReady(r.opp, r.edition) /\ r.text = TextIn[r.edition]

\* A tab's decision takes the place only of the one the tab had seen: the
\* comparison and the write are two statements, and other calls commit between
\* and beside them.
DisplacesWhatItSaw ==
    [][\A t \in Tabs, o \in Opportunities :
          o \in Opps(t) /\ (\E r \in Heads' \ Heads : r.opp = o /\ r.id # LatestId(o)
                                 /\ \E e \in sync[t].entries : e.id = r.id)
          => LatestId(o) = tab[t].seen[o]]_vars

Book == INSTANCE DecisionBook WITH
    Opportunity <- Opportunities,
    Client <- Clients,
    inForce <- [o \in Opportunities |-> LatestId(o)],
    entered <- {[id |-> r.id, opp |-> r.opp, choice |-> r.choice, text |-> r.text] :
                   r \in ledger},
    asked <- [c \in Clients |-> sync[c].entries]

\* The statements of concurrent calls interleave, the latest decision is the one
\* of the latest transaction to begin and not to commit, and a row known by its
\* id keeps its time: still a call's decisions are entered at once, where they
\* were expected to be, and a new one of a tab is in force from then on.
SyncsAreAtomic == Book!Spec

\* A transaction that begins is not held up for ever by the locks of others.
EverySyncEnds ==
    \A c \in Clients : sync[c].at = "locking" ~> sync[c].at # "locking"

\* What a request has looked up is still so when it inserts, however many do so
\* at once: no version with its fingerprint comes between, and the unique index
\* has nothing to refuse.
LookupStaysTrue ==
    \A r \in Requests, i \in DOMAIN versions :
        review[r].at = "inserting" /\ versions[i].by = review[r].by =>
            versions[i].print # Fingerprint(review[r].applied, review[r].certified)

\* The version a request is given, made by it or by another, has the text that
\* this request reviewed, even when a decision has been rewritten under its id.
AnsweredAsReviewed ==
    \A r \in Requests :
        review[r].answer # 0 => versions[review[r].answer].text = review[r].applied

\* "Already-decided opportunities are skipped, not overwritten."
SkipsDecided ==
    [][\A p \in AutoRuns, o \in Opportunities :
          Decided(o) /\ sync[p].at = "writing" /\ sync'[p].at = "idle"
          => LatestId(o)' # TrustedPathId[o] \/ LatestId(o) = TrustedPathId[o]]_vars
=============================================================================
