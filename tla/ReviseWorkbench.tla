--------------------------- MODULE ReviseWorkbench ---------------------------
(***************************************************************************)
(* Who writes decisions: the tabs in which the author has the workbench    *)
(* open (ReviseCockpitClientWorkflowV2.tsx), which say what they believe   *)
(* to be the latest decision, and TrustedPath (lib/revision/trustedPath.ts),*)
(* which accepts every ready opportunity that has no decision and says     *)
(* nothing of the kind.                                                    *)
(***************************************************************************)
EXTENDS RevisionLedger

CONSTANTS
    Tabs,
    AutoRuns,        \* requests to apply TrustedPath
    TrustedPathId    \* "trusted-path:<opportunity>:accepted_a"

ASSUME WorkbenchAssumption ==
    /\ Clients = Tabs \cup AutoRuns
    /\ Tabs \cap AutoRuns = {}
    /\ TrustedPathId \in [Opportunities -> LocalIds]
    /\ \A o, p \in Opportunities : TrustedPathId[o] = TrustedPathId[p] => o = p
    /\ AutoRuns # {} => "accepted" \in Choices

VARIABLE tab         \* what a tab shows

\* seen: latestLocalIdByOpportunity; open: the opportunities still offered for
\* a decision; failed: entries the author may retry.
Tab == [seen : [Opportunities -> LocalIds \cup {NoId}],
        open : SUBSET Opportunities, failed : SUBSET Entry, reloading : BOOLEAN]

NewTab == [seen |-> [o \in Opportunities |-> NoId], open |-> Opportunities,
           failed |-> {}, reloading |-> FALSE]

WorkbenchInit == tab = [t \in Tabs |-> NewTab]

Shows(t, s) == tab' = [tab EXCEPT ![t] = s]

\* The local ids that nobody remembers.
FreshIds ==
    LocalIds \ ({r.id : r \in ledger}
                  \cup {e.id : e \in UNION {sync[c].entries : c \in Clients}}
                  \cup {e.id : e \in UNION {tab[t].failed : t \in Tabs}}
                  \cup {TrustedPathId[o] : o \in Opportunities})

\* The page waits for no answer and may have several syncs under way, which a
\* second tab does here as well: one tab has one.
Waiting(t) == sync[t].at = "idle" /\ ~tab[t].reloading

-----------------------------------------------------------------------------
(* A tab                                                                   *)

\* The page may show any edition the queue has had.
Decides(t) ==
    /\ Waiting(t)
    /\ \E o \in tab[t].open, choice \in Choices, id \in FreshIds :
       \E text \in IF choice = "kept" THEN {NoText} ELSE Texts :
          Submits(t, {[id |-> id, opp |-> o, choice |-> choice, text |-> text,
                       expected |-> tab[t].seen[o]]})
    /\ UNCHANGED <<queue, ledger, undone, clock, tab>>

Retries(t) ==
    /\ Waiting(t)
    /\ \E e \in tab[t].failed :
          /\ Submits(t, {[e EXCEPT !.expected = tab[t].seen[e.opp]]})
          /\ Shows(t, [tab[t] EXCEPT !.failed = @ \ {e}])
    /\ UNCHANGED <<queue, ledger, undone, clock>>

\* The entry was on display as saved when it was retried: now it is not.
Reopened(t) == {e.opp : e \in {f \in sync[t].entries : tab[t].seen[f.opp] = f.id}}

Fails(t, reloading) ==
    /\ Ends(t)
    /\ Shows(t, [tab[t] EXCEPT !.failed = @ \cup sync[t].entries,
                               !.open = @ \cup Reopened(t),
                               !.reloading = reloading])

\* The call is refused, does not get there, or its transaction is cancelled.
SyncFails(t) ==
    /\ sync[t].at # "idle"
    /\ Fails(t, FALSE)
    /\ UNCHANGED <<queue, ledger, undone, clock>>

\* The transaction raises "stale write blocked"; status 409.
SyncIsStale(t) ==
    /\ MayCheck(t) /\ IsStale(t)
    /\ Fails(t, TRUE)
    /\ UNCHANGED <<queue, ledger, undone, clock>>

\* An entry that was saved is taken from the failed ones, with the others of
\* its opportunity.
Saved(t) ==
    [tab[t] EXCEPT
        !.seen = [o \in Opportunities |->
                     IF \E e \in sync[t].entries : e.opp = o
                     THEN (CHOOSE e \in sync[t].entries : e.opp = o).id
                     ELSE @[o]],
        !.open = @ \ Opps(t),
        !.failed = {e \in @ : e.opp \notin Opps(t)}]

SyncWrites(t) ==
    /\ sync[t].at = "writing"
    /\ Upserts(t)
    /\ \/ Ends(t) /\ Shows(t, Saved(t))
       \/ Fails(t, FALSE)
    /\ UNCHANGED <<queue, undone, clock>>

LatestId(o) ==
    IF Decided(o) THEN (CHOOSE r \in Heads : r.opp = o).id ELSE NoId

Loaded(s) ==
    [s EXCEPT !.seen = [o \in Opportunities |-> LatestId(o)],
              !.open = {o \in Opportunities : ~Decided(o)},
              !.reloading = FALSE]

\* hydrateLedgerFromAuthority, which may fail.
Reloads(t) ==
    /\ tab[t].reloading
    /\ Shows(t, Loaded(tab[t])) \/ Shows(t, [tab[t] EXCEPT !.reloading = FALSE])
    /\ UNCHANGED ledgerVars

\* The page is loaded anew: the failed entries are forgotten.
OpensPage(t) ==
    /\ Waiting(t)
    /\ Shows(t, Loaded(NewTab))
    /\ UNCHANGED ledgerVars

TabNext(t) ==
    \/ Decides(t) \/ Retries(t) \/ Reloads(t) \/ OpensPage(t)
    \/ SyncFails(t) \/ SyncIsStale(t) \/ SyncWrites(t)

-----------------------------------------------------------------------------
(* TrustedPath                                                             *)

AutoEntry(o) == [id |-> TrustedPathId[o], opp |-> o, choice |-> "accepted",
                 text |-> TextIn[queue[o]], expected |-> Unstated]

\* applyTrustedPath loads the queue ...
LoadsQueue(p) ==
    /\ sync[p].at = "idle"
    /\ LET ready == {o \in Opportunities : IsReady(o, queue[o])}
       IN /\ ready # {}
          /\ Becomes(p, [NoSync EXCEPT !.at = "choosing",
                                       !.entries = {AutoEntry(o) : o \in ready}])
    /\ UNCHANGED <<queue, ledger, undone, clock, tab>>

\* ... and leaves out what has been decided.
LeavesOutDecided(p) ==
    /\ sync[p].at = "choosing"
    /\ LET left == {e \in sync[p].entries : ~Decided(e.opp)}
       IN IF left = {} THEN Ends(p) ELSE Submits(p, left)
    /\ UNCHANGED <<queue, ledger, undone, clock, tab>>

AutoFails(p) ==
    /\ sync[p].at # "idle"
    /\ Ends(p)
    /\ UNCHANGED <<queue, ledger, undone, clock, tab>>

AutoWrites(p) ==
    /\ sync[p].at = "writing"
    /\ Upserts(p) /\ Ends(p)
    /\ UNCHANGED <<queue, undone, clock, tab>>

AutoNext(p) ==
    LoadsQueue(p) \/ LeavesOutDecided(p) \/ AutoFails(p) \/ AutoWrites(p)
=============================================================================
