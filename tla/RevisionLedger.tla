--------------------------- MODULE RevisionLedger ---------------------------
(***************************************************************************)
(* The decisions an author has made on the opportunities of one evaluation *)
(* (revision_ledger_decisions), and the call that stores them:             *)
(* syncRevisionLedgerDecisions of lib/revision/ledger.ts and its RPC       *)
(* sync_revision_ledger_decisions_atomic.                                  *)
(*                                                                         *)
(* The call reads the queue of opportunities before its transaction.  The  *)
(* transaction takes a lock per opportunity, compares the latest decision  *)
(* with the one the client expects, and then writes.  created_at is the    *)
(* time the transaction began, and an upsert of a known local id keeps it. *)
(***************************************************************************)
EXTENDS Naturals, FiniteSets

CONSTANTS
    Opportunities,
    LocalIds,        \* names of decisions, drawn by the clients
    Editions,        \* contents an opportunity may have (its opportunityVersion)
    ReadyIn,         \* the editions in which an opportunity is copy-paste ready
    Texts,           \* replacement texts
    NoText,          \* a decision that replaces nothing
    TextIn,          \* the candidate text of an edition
    Rank,            \* the order of opportunity ids as text
    Choices,         \* what authors decide in this instance
    Clients,         \* whoever calls
    NoId,            \* expectedCurrentLocalId is null
    Unstated,        \* expectedCurrentLocalId is not sent
    MaxClock         \* bound: transactions

ASSUME LedgerAssumption ==
    /\ Editions # {}
    /\ ReadyIn \in [Opportunities -> SUBSET Editions]
    /\ TextIn \in [Editions -> Texts]
    /\ NoText \notin Texts
    /\ Rank \in [Opportunities -> Nat]
    /\ \A o, p \in Opportunities : Rank[o] = Rank[p] => o = p
    /\ Choices \subseteq {"accepted", "custom", "kept"}
    /\ NoId \notin LocalIds
    /\ Unstated \notin LocalIds \cup {NoId}
    /\ MaxClock \in Nat

VARIABLES
    queue,           \* the edition of each opportunity in the workbench queue
    ledger,          \* stored decisions
    undone,          \* local ids that undo rows name
    clock,           \* transactions begun
    sync             \* the call each client has under way

ledgerVars == <<queue, ledger, undone, clock, sync>>

Row == [id : LocalIds, opp : Opportunities, choice : Choices,
        text : Texts \cup {NoText}, edition : Editions, born : 1..MaxClock]

Entry == [id : LocalIds, opp : Opportunities, choice : Choices,
          text : Texts \cup {NoText}, expected : LocalIds \cup {NoId, Unstated}]

Sync == [at : {"idle", "choosing", "sent", "valid", "locking", "writing"},
         entries : SUBSET Entry, offered : [Opportunities -> Editions],
         born : 0..MaxClock, locks : SUBSET Opportunities]

NoSync == [at |-> "idle", entries |-> {}, born |-> 0, locks |-> {},
           offered |-> [o \in Opportunities |-> CHOOSE e \in Editions : TRUE]]

LedgerInit ==
    /\ queue \in [Opportunities -> Editions]
    /\ ledger = {}
    /\ undone = {}
    /\ clock = 0
    /\ sync = [c \in Clients |-> NoSync]

IsReady(o, edition) == edition \in ReadyIn[o]

\* The evaluation's artifacts are projected anew.
QueueRebuilt ==
    /\ \E o \in Opportunities, e \in Editions : queue' = [queue EXCEPT ![o] = e]
    /\ UNCHANGED <<ledger, undone, clock, sync>>

Decided(o) == \E r \in ledger : r.opp = o

\* The latest decision of each opportunity; rows that were undone count.
Heads == {r \in ledger : \A s \in ledger : s.opp = r.opp => s.born <= r.born}

IsHead(o, id) ==
    IF id = NoId THEN ~Decided(o) ELSE \E r \in Heads : r.opp = o /\ r.id = id

-----------------------------------------------------------------------------
(* A call                                                                  *)

Becomes(c, s) == sync' = [sync EXCEPT ![c] = s]

Ends(c) == Becomes(c, NoSync)

Submits(c, entries) == Becomes(c, [NoSync EXCEPT !.at = "sent", !.entries = entries])

Opps(c) == {e.opp : e \in sync[c].entries}

\* validateEntry: only an option of a ready card is accepted, with its text.
IsAcceptable(e) ==
    e.choice = "accepted" =>
        IsReady(e.opp, queue[e.opp]) /\ e.text = TextIn[queue[e.opp]]

Validates(c) ==
    /\ sync[c].at = "sent"
    /\ \A e \in sync[c].entries : IsAcceptable(e)
    /\ Becomes(c, [sync[c] EXCEPT !.at = "valid", !.offered = queue])
    /\ UNCHANGED <<queue, ledger, undone, clock>>

Begins(c) ==
    /\ sync[c].at = "valid" /\ clock < MaxClock
    /\ clock' = clock + 1
    /\ Becomes(c, [sync[c] EXCEPT !.at = "locking", !.born = clock + 1])
    /\ UNCHANGED <<queue, ledger, undone>>

Free(o) == \A c \in Clients : o \notin sync[c].locks

\* Mutant: the rows are locked in the order the client sent them.
NextLockAnyOrder(c, o) == o \in Opps(c) \ sync[c].locks

\* Locks are taken in the order of the opportunities' ids.
NextLock(c, o) ==
    /\ o \in Opps(c) \ sync[c].locks
    /\ \A p \in Opps(c) \ sync[c].locks : Rank[o] <= Rank[p]

Locks(c) ==
    /\ sync[c].at = "locking"
    /\ \E o \in Opportunities :
          /\ NextLock(c, o) /\ Free(o)
          /\ sync' = [sync EXCEPT ![c].locks = @ \cup {o}]
    /\ UNCHANGED <<queue, ledger, undone, clock>>

\* Mutant: the latest decision is compared before the locks are held.
MayCheckEarly(c) == sync[c].at = "locking"

MayCheck(c) == sync[c].at = "locking" /\ Opps(c) = sync[c].locks

\* Some entry expects another latest decision than there is.
IsStale(c) ==
    \E e \in sync[c].entries : e.expected # Unstated /\ ~IsHead(e.opp, e.expected)

Checks(c) ==
    /\ MayCheck(c) /\ ~IsStale(c)
    /\ sync' = [sync EXCEPT ![c].at = "writing"]
    /\ UNCHANGED <<queue, ledger, undone, clock>>

RowOf(e, edition, born) ==
    [id |-> e.id, opp |-> e.opp, choice |-> e.choice, text |-> e.text,
     edition |-> edition, born |-> born]

\* A row that is known by its local id keeps its created_at.
BornOf(c, e) ==
    LET known == {r \in ledger : r.id = e.id}
    IN IF known = {} THEN sync[c].born ELSE (CHOOSE r \in known : TRUE).born

\* Mutant: the edition is that of the queue at the time of the write.
StoredNow(c, e) == RowOf(e, queue[e.opp], BornOf(c, e))

\* The edition is that of the queue the entry was compared with.
Stored(c, e) == RowOf(e, sync[c].offered[e.opp], BornOf(c, e))

\* Mutant: a plain INSERT.
Inserts(c) ==
    ledger' = ledger \cup {RowOf(e, sync[c].offered[e.opp], sync[c].born) :
                              e \in sync[c].entries}

\* INSERT ... ON CONFLICT (user_id, evaluation_job_id, local_id) DO UPDATE.
Upserts(c) ==
    ledger' = {r \in ledger : \A e \in sync[c].entries : e.id # r.id}
                  \cup {Stored(c, e) : e \in sync[c].entries}

\* An undo row takes no lock and is compared with nothing.
Undoes(id) ==
    /\ \E r \in ledger : r.id = id
    /\ undone' = undone \cup {id}
    /\ UNCHANGED <<queue, ledger, clock, sync>>

\* What a call does by itself once it is sent, short of its end.
Proceeds(c) == Validates(c) \/ Begins(c) \/ Locks(c) \/ Checks(c)
=============================================================================
