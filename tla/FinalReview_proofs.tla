-------------------------- MODULE FinalReview_proofs --------------------------
(***************************************************************************)
(* Theorems about FinalReview, for any opportunities, editions, tabs,      *)
(* requests and users and any bounds.                                      *)
(*                                                                         *)
(* Who may have a local id, and which opportunity it is about, is settled  *)
(* when the id is drawn (OneOppPerId, OwnIds).  Times are told apart by    *)
(* the transaction that begins (Times).  The locks of a transaction that   *)
(* writes cover its opportunities (Locked), so what it compared with is    *)
(* still the latest decision when it writes (Checked).  That decision is   *)
(* stored and older than the transaction (SeenIsStored), so a new one of a *)
(* tab is in force once it is written, and the calls are atomic.  One      *)
(* request at a time has the lock of the manuscript (OneHasLock), so no    *)
(* other inserts between its look-up and its own insertion.                *)
(***************************************************************************)
EXTENDS FinalReview, TLAPS

-----------------------------------------------------------------------------
(* The inductive invariant                                                 *)

\* A decision of that name about that opportunity is stored, on its way, to be
\* retried, or TrustedPath's.
Names(id, o) ==
    \/ \E r \in ledger : r.id = id /\ r.opp = o
    \/ \E c \in Clients : \E e \in sync[c].entries : e.id = id /\ e.opp = o
    \/ \E t \in Tabs : \E e \in tab[t].failed : e.id = id /\ e.opp = o
    \/ o \in Opportunities /\ id = TrustedPathId[o]

OneOppPerId ==
    \A id \in LocalIds, o, p \in Opportunities : Names(id, o) /\ Names(id, p) => o = p

OneEntryPerOpp ==
    \A c \in Clients : \A e, f \in sync[c].entries : e.opp = f.opp => e = f

AutoIdSet == {TrustedPathId[o] : o \in Opportunities}

TabEntries(t) == sync[t].entries \cup tab[t].failed

\* The local ids a tab has drawn are its own.
OwnIds ==
    /\ \A p \in AutoRuns : \A e \in sync[p].entries : e.id = TrustedPathId[e.opp]
    /\ \A t \in Tabs : \A e \in TabEntries(t) : e.id \notin AutoIdSet
    /\ \A t, u \in Tabs : t # u =>
          \A e \in TabEntries(t), f \in TabEntries(u) : e.id # f.id

InTransaction(c) == sync[c].at \in {"locking", "writing"}

Times ==
    /\ \A r \in ledger : r.born <= clock
    /\ \A c \in Clients : InTransaction(c) =>
          /\ sync[c].born \in 1..clock
          /\ \A r \in ledger : r.born # sync[c].born
          /\ \A d \in Clients \ {c} : InTransaction(d) => sync[d].born # sync[c].born

Locked ==
    /\ \A c, d \in Clients : c # d => sync[c].locks \cap sync[d].locks = {}
    /\ \A c \in Clients : sync[c].at = "writing" => Opps(c) = sync[c].locks

\* Among the decisions on an opportunity there is a latest.
HasHead == \A o \in Opportunities : Decided(o) => \E r \in Heads : r.opp = o

\* What a tab's transaction compared with is the latest decision until it ends.
Checked ==
    \A t \in Tabs : sync[t].at = "writing" =>
        \A e \in sync[t].entries : IsHead(e.opp, e.expected)

\* A tab sends what it has seen, and sees nothing new until it is answered.
\* TrustedPath says nothing of what it has seen.
SentAsSeen ==
    /\ \A p \in AutoRuns : \A e \in sync[p].entries : e.expected = Unstated
    /\ \A t \in Tabs :
        /\ \A e \in sync[t].entries : e.expected = tab[t].seen[e.opp]
        /\ sync[t].at = "idle" => sync[t].entries = {}
        /\ sync[t].at # "idle" => ~tab[t].reloading

\* The decisions a tab takes for the latest are stored, and are older than the
\* transaction by which it wants to displace them.
SeenIsStored ==
    /\ \A t \in Tabs, o \in Opportunities :
          tab[t].seen[o] # NoId => \E r \in ledger : r.id = tab[t].seen[o]
    /\ \A t \in Tabs : InTransaction(t) =>
          \A e \in sync[t].entries : e.expected # NoId =>
             \E r \in ledger : r.id = e.expected /\ r.born < sync[t].born

Offered ==
    \A c \in Clients : sync[c].at \in {"valid", "locking", "writing"} =>
        \A e \in sync[c].entries : e.choice = "accepted" =>
            /\ IsReady(e.opp, sync[c].offered[e.opp])
            /\ e.text = TextIn[sync[c].offered[e.opp]]

VersionsMatch ==
    /\ Len(versions) <= MaxVersions
    /\ \A i \in DOMAIN versions : versions[i].text = versions[i].print.decisions
    /\ \A r \in Requests : review[r].answer # 0 =>
          review[r].answer \in DOMAIN versions /\ review[r].at = "idle"

\* The lock of the manuscript is one request's at a time.
OneHasLock == \A q, r \in Requests : HasLock(q) /\ HasLock(r) => q = r

IInv ==
    /\ TypeOK
    /\ OneOppPerId /\ OneEntryPerOpp /\ OwnIds
    /\ HasHead /\ Times /\ Locked /\ Checked /\ SentAsSeen
    /\ SeenIsStored
    /\ Offered /\ AcceptedWasOffered
    /\ VersionsMatch /\ OneHasLock /\ LookupStaysTrue /\ AnsweredAsReviewed

-----------------------------------------------------------------------------
(* What a call writes                                                      *)

\* The row of an entry keeps the time of a row known by its id.
LEMMA StoredIs ==
    ASSUME IInv, NEW c \in Clients, sync[c].at = "writing",
           NEW e \in sync[c].entries
    PROVE  /\ Stored(c, e) \in Row
           /\ Stored(c, e).id = e.id /\ Stored(c, e).opp = e.opp
           /\ Stored(c, e).choice = e.choice /\ Stored(c, e).text = e.text
           /\ Stored(c, e).edition = sync[c].offered[e.opp]
           /\ \A k \in ledger : k.id = e.id =>
                 k.opp = e.opp /\ Stored(c, e).born = k.born
           /\ (\A k \in ledger : k.id # e.id) => Stored(c, e).born = sync[c].born
<1>1. sync[c] \in Sync /\ e \in Entry /\ ledger \subseteq Row
  BY DEF IInv, TypeOK, Sync
<1>2. e.opp \in Opportunities /\ e.id \in LocalIds /\ e.choice \in Choices
      /\ e.text \in Texts \cup {NoText}
  BY <1>1 DEF Entry
<1>3. sync[c].offered[e.opp] \in Editions
  BY <1>1, <1>2 DEF Sync
<1>4. sync[c].born \in 1..MaxClock
  BY <1>1, LedgerAssumption DEF IInv, TypeOK, Times, InTransaction
<1>5. ASSUME NEW k \in ledger, k.id = e.id
      PROVE  k.opp = e.opp /\ BornOf(c, e) = k.born /\ k.born \in 1..MaxClock
  <2>1. k \in Row /\ k.opp \in Opportunities
    BY <1>1 DEF Row
  <2>2. Names(e.id, k.opp) /\ Names(e.id, e.opp)
    BY <1>5 DEF Names
  <2>3. k.opp = e.opp
    BY <1>2, <2>1, <2>2 DEF IInv, OneOppPerId
  <2>4. {r \in ledger : r.id = e.id} = {k}
    BY <1>5 DEF IInv, TypeOK
  <2>5. BornOf(c, e) = k.born
    BY <2>4 DEF BornOf
  <2> QED BY <2>1, <2>3, <2>5 DEF Row
<1>6. ASSUME \A k \in ledger : k.id # e.id PROVE BornOf(c, e) = sync[c].born
  <2>1. {r \in ledger : r.id = e.id} = {}
    BY <1>6
  <2> QED BY <2>1 DEF BornOf
<1>7. BornOf(c, e) \in 1..MaxClock
  BY <1>4, <1>5, <1>6
<1> QED BY <1>2, <1>3, <1>5, <1>6, <1>7 DEF Stored, RowOf, Row

\* A write touches only rows of the call's opportunities, loses none, and
\* leaves local ids and times unique.
LEMMA LedgerAfter ==
    ASSUME IInv, NEW c \in Clients, sync[c].at = "writing", Upserts(c)
    PROVE  /\ ledger' \subseteq Row
           /\ \A r \in ledger' : r \in ledger \/ \E e \in sync[c].entries : r = Stored(c, e)
           /\ \A r \in ledger :
                 \E s \in ledger' : s.id = r.id /\ s.opp = r.opp /\ s.born = r.born
           /\ \A r, s \in ledger' : r # s => r.id # s.id
           /\ \A r, s \in ledger' : r # s /\ r.opp = s.opp => r.born # s.born
           /\ \A r \in ledger : r.opp \notin Opps(c) => r \in ledger'
           /\ \A r \in ledger' : r.opp \notin Opps(c) => r \in ledger
<1> DEFINE E == sync[c].entries
<1>1. ledger' = {r \in ledger : \A e \in E : e.id # r.id} \cup {Stored(c, e) : e \in E}
  BY DEF Upserts
<1>2. \A e \in E : /\ Stored(c, e) \in Row
                   /\ Stored(c, e).id = e.id /\ Stored(c, e).opp = e.opp
                   /\ \A k \in ledger : k.id = e.id =>
                         k.opp = e.opp /\ Stored(c, e).born = k.born
                   /\ (\A k \in ledger : k.id # e.id) => Stored(c, e).born = sync[c].born
  BY StoredIs
<1>3. /\ ledger \subseteq Row
      /\ \A r, s \in ledger : r # s => r.id # s.id
      /\ \A r, s \in ledger : r # s /\ r.opp = s.opp => r.born # s.born
      /\ \A r \in ledger : r.born # sync[c].born
  BY DEF IInv, TypeOK, Times, InTransaction
<1>4. \A e, f \in E : e.opp = f.opp => e = f
  BY DEF IInv, OneEntryPerOpp
<1>5. \A e, f \in E : e.id = f.id => e = f
  <2>1. \A e \in E : e.id \in LocalIds /\ e.opp \in Opportunities /\ Names(e.id, e.opp)
    BY DEF IInv, TypeOK, Sync, Entry, Names
  <2> QED BY <1>4, <2>1 DEF IInv, OneOppPerId
<1>6. Opps(c) = {e.opp : e \in E}
  BY DEF Opps
<1> HIDE DEF E
<1>7. \A r \in ledger' : \/ r \in ledger /\ \A e \in E : e.id # r.id
                         \/ \E e \in E : r = Stored(c, e)
  BY <1>1
<1>8. \A r \in ledger : r \in ledger' \/ \E e \in E : e.id = r.id /\ Stored(c, e) \in ledger'
  BY <1>1
<1>9. ASSUME NEW r \in ledger', NEW s \in ledger', r # s
      PROVE  r.id # s.id /\ (r.opp = s.opp => r.born # s.born)
  <2>1. CASE r \in ledger /\ s \in ledger
    BY <1>3, <1>9, <2>1
  <2>2. ASSUME NEW x \in ledger, \A e \in E : e.id # x.id, NEW e \in E
        PROVE  /\ Stored(c, e).id # x.id
               /\ Stored(c, e).opp = x.opp => Stored(c, e).born # x.born
    <3>1. CASE \E k \in ledger : k.id = e.id
      BY <1>2, <1>3, <2>2, <3>1
    <3>2. CASE \A k \in ledger : k.id # e.id
      BY <1>2, <1>3, <2>2, <3>2
    <3> QED BY <3>1, <3>2
  <2>3. ASSUME NEW e \in E, NEW f \in E, Stored(c, e) # Stored(c, f)
        PROVE  /\ Stored(c, e).id # Stored(c, f).id
               /\ Stored(c, e).opp # Stored(c, f).opp
    <3>1. e # f BY <2>3
    <3> QED BY <1>2, <1>4, <1>5, <3>1
  <2> QED BY <1>7, <1>9, <2>1, <2>2, <2>3
<1>10. ledger' \subseteq Row
  BY <1>2, <1>3, <1>7
<1>11. \A r \in ledger :
          \E s \in ledger' : s.id = r.id /\ s.opp = r.opp /\ s.born = r.born
  BY <1>2, <1>8
<1>12. \A r \in ledger : r.opp \notin Opps(c) => r \in ledger'
  BY <1>2, <1>6, <1>8
<1>13. \A r \in ledger' : r.opp \notin Opps(c) => r \in ledger
  BY <1>2, <1>6, <1>7
<1> QED BY <1>7, <1>9, <1>10, <1>11, <1>12, <1>13 DEF E

-----------------------------------------------------------------------------
(* Types                                                                   *)

\* An idle call is a call, and a call that is sent is one too.
LEMMA SyncTypes ==
    /\ NoSync \in Sync /\ NoSync.entries = {} /\ NoSync.locks = {}
    /\ NoSync.at = "idle" /\ NoSync.born = 0
    /\ \A at \in {"choosing", "sent"} : \A E \in SUBSET Entry :
          LET s == [NoSync EXCEPT !.at = at, !.entries = E]
          IN s \in Sync /\ s.at = at /\ s.entries = E /\ s.locks = {} /\ s.born = 0
<1>1. (CHOOSE e \in Editions : TRUE) \in Editions
  BY LedgerAssumption
<1>2. 0 \in 0..MaxClock
  BY LedgerAssumption
<1>3. NoSync \in Sync
  BY <1>1, <1>2 DEF NoSync, Sync
<1> QED BY <1>3 DEF NoSync, Sync

\* What TrustedPath makes up are entries.
LEMMA AutoEntryType ==
    ASSUME TypeOK, NEW o \in Opportunities
    PROVE  /\ "accepted" \in Choices => AutoEntry(o) \in Entry
           /\ AutoEntry(o).opp = o /\ AutoEntry(o).id = TrustedPathId[o]
           /\ AutoEntry(o).expected = Unstated
<1>1. queue[o] \in Editions
  BY DEF TypeOK
<1>2. TextIn[queue[o]] \in Texts /\ TrustedPathId[o] \in LocalIds
  BY <1>1, LedgerAssumption, WorkbenchAssumption
<1> QED BY <1>2 DEF AutoEntry, Entry

\* The latest decision of an opportunity is one of its rows, and the only one.
LEMMA LatestIs ==
    ASSUME IInv, NEW o \in Opportunities
    PROVE  /\ ~Decided(o) => LatestId(o) = NoId
           /\ Decided(o) => \E r \in Heads : r.opp = o /\ LatestId(o) = r.id
           /\ LatestId(o) \in LocalIds \cup {NoId}
           /\ \A r \in Heads : r.opp = o => LatestId(o) = r.id
           /\ \A r, s \in Heads : r.opp = o /\ s.opp = o => r = s
           /\ \A id \in LocalIds \cup {NoId, Unstated} : IsHead(o, id) => LatestId(o) = id
<1>1. ledger \subseteq Row /\ \A r \in Heads : r \in ledger
  BY DEF IInv, TypeOK, Heads
<1>2. \A r, s \in Heads : r.opp = o /\ s.opp = o => r = s
  <2> SUFFICES ASSUME NEW r \in Heads, NEW s \in Heads, r.opp = o, s.opp = o, r # s
               PROVE  FALSE
    OBVIOUS
  <2>1. r.born \in Nat /\ s.born \in Nat
    BY <1>1 DEF Row
  <2>2. r.born <= s.born /\ s.born <= r.born
    BY <1>1 DEF Heads
  <2>3. r.born # s.born
    BY <1>1 DEF IInv, TypeOK
  <2> QED BY <2>1, <2>2, <2>3
<1>3. \A r \in Heads : r.opp = o => Decided(o) /\ LatestId(o) = r.id
  BY <1>1, <1>2 DEF LatestId, Decided
<1>4. Decided(o) => \E r \in Heads : r.opp = o
  BY DEF IInv, HasHead
<1>5. ~Decided(o) => LatestId(o) = NoId
  BY DEF LatestId
<1>6. LatestId(o) \in LocalIds \cup {NoId}
  BY <1>1, <1>3, <1>4, <1>5 DEF Row
<1>7. ASSUME NEW id \in LocalIds \cup {NoId, Unstated}, IsHead(o, id)
      PROVE  LatestId(o) = id
  BY <1>3, <1>5, <1>7 DEF IsHead
<1> QED BY <1>2, <1>3, <1>4, <1>5, <1>6, <1>7

\* What a page shows is a state of a tab.
LEMMA TabTypes ==
    ASSUME IInv, NEW s \in Tab
    PROVE  /\ NewTab \in Tab /\ Loaded(s) \in Tab
           /\ Loaded(s).failed = s.failed /\ ~Loaded(s).reloading
           /\ \A o \in Opportunities : Loaded(s).seen[o] = LatestId(o)
           /\ NewTab.failed = {}
<1>1. \A o \in Opportunities : LatestId(o) \in LocalIds \cup {NoId}
  BY LatestIs
<1>2. NewTab \in Tab /\ NewTab.failed = {}
  BY DEF NewTab, Tab
<1> DEFINE seen == [o \in Opportunities |-> LatestId(o)]
           open == {o \in Opportunities : ~Decided(o)}
<1>3. seen \in [Opportunities -> LocalIds \cup {NoId}] /\ open \in SUBSET Opportunities
  BY <1>1
<1>4. Loaded(s) = [s EXCEPT !.seen = seen, !.open = open, !.reloading = FALSE]
  BY DEF Loaded
<1> HIDE DEF seen, open
<1>5. /\ Loaded(s) \in Tab
      /\ Loaded(s).failed = s.failed /\ Loaded(s).reloading = FALSE
      /\ Loaded(s).seen = seen
  BY <1>3, <1>4 DEF Tab
<1> QED BY <1>2, <1>5 DEF seen

-----------------------------------------------------------------------------
(* The kinds of steps                                                      *)

\* Neither the ledger nor a call nor a tab takes part.
Rests == UNCHANGED <<ledger, clock, sync, tab>>

OtherTabsRest(c) == \A t \in Tabs : t # c => tab'[t] = tab[t]

\* A tab shows other things; nothing is on its way from it.
Displays(t) ==
    /\ UNCHANGED <<ledger, clock, sync>>
    /\ OtherTabsRest(t)
    /\ tab[t].reloading \/ sync[t].at = "idle"
    /\ tab'[t].failed \subseteq tab[t].failed /\ ~tab'[t].reloading
    /\ \A o \in Opportunities : tab'[t].seen[o] \in {tab[t].seen[o], LatestId(o)}

\* A call is over; a tab may keep its entries to retry them.
Drops(c) ==
    /\ UNCHANGED <<ledger, clock>>
    /\ sync' = [sync EXCEPT ![c] = NoSync]
    /\ OtherTabsRest(c)
    /\ c \in Tabs => /\ tab'[c].failed \subseteq TabEntries(c)
                    /\ tab'[c].seen = tab[c].seen

Writes(c) ==
    /\ sync[c].at = "writing" /\ Upserts(c)
    /\ sync' = [sync EXCEPT ![c] = NoSync]
    /\ UNCHANGED clock
    /\ OtherTabsRest(c)
    /\ c \in Tabs =>
          /\ tab'[c].failed \subseteq TabEntries(c)
          /\ \A o \in Opportunities :
                \/ tab'[c].seen[o] = tab[c].seen[o]
                \/ \E e \in sync[c].entries : tab'[c].seen[o] = e.id

\* A tab sends one entry, under a new local id or that of one to retry.
SendsFromTab(c) ==
    /\ c \in Tabs /\ sync[c].at = "idle"
    /\ tab'[c].seen = tab[c].seen /\ tab'[c].failed \subseteq tab[c].failed
    /\ ~tab'[c].reloading
    /\ \E e \in Entry :
          /\ sync'[c].entries = {e} /\ e.expected = tab[c].seen[e.opp]
          /\ e.id \in FreshIds \/ \E f \in tab[c].failed : f.id = e.id /\ f.opp = e.opp

SendsByItself(c) ==
    /\ c \in AutoRuns /\ UNCHANGED tab
    /\ \A e \in sync'[c].entries :
          e.id = TrustedPathId[e.opp] /\ e.expected = Unstated
    /\ \A e, f \in sync'[c].entries : e.opp = f.opp => e = f

Sends(c) ==
    /\ UNCHANGED <<ledger, clock>>
    /\ sync[c].at \in {"idle", "choosing"}
    /\ sync' = [sync EXCEPT ![c] = sync'[c]]
    /\ sync'[c].at \in {"choosing", "sent"} /\ sync'[c].locks = {}
    /\ OtherTabsRest(c)
    /\ SendsFromTab(c) \/ SendsByItself(c)

IsAKnownStep ==
    \/ Rests
    \/ \E t \in Tabs : Displays(t)
    \/ \E c \in Clients : Drops(c) \/ Writes(c) \/ Sends(c)
    \/ \E c \in Clients : Proceeds(c) /\ UNCHANGED tab

CallsAndTabs ==
    /\ queue' \in [Opportunities -> Editions]
    /\ undone' \subseteq LocalIds
    /\ clock' \in 0..MaxClock
    /\ sync' \in [Clients -> Sync]
    /\ tab' \in [Tabs -> Tab]

LEMMA StepIs ==
    ASSUME IInv, [Next]_vars
    PROVE  CallsAndTabs /\ IsAKnownStep
<1>1. /\ queue \in [Opportunities -> Editions]
      /\ undone \subseteq LocalIds /\ clock \in 0..MaxClock
      /\ sync \in [Clients -> Sync] /\ tab \in [Tabs -> Tab]
      /\ ledger \subseteq Row
  BY DEF IInv, TypeOK
<1>2. Tabs \subseteq Clients /\ AutoRuns \subseteq Clients /\ Tabs \cap AutoRuns = {}
  BY WorkbenchAssumption
<1>3. ASSUME UNCHANGED <<ledger, clock, sync, tab>>,
             queue' \in [Opportunities -> Editions], undone' \subseteq LocalIds
      PROVE  CallsAndTabs /\ IsAKnownStep
  BY <1>1, <1>3 DEF CallsAndTabs, IsAKnownStep, Rests
<1>4. ASSUME QueueRebuilt, UNCHANGED tab PROVE CallsAndTabs /\ IsAKnownStep
  <2>1. queue' \in [Opportunities -> Editions]
    BY <1>1, <1>4 DEF QueueRebuilt
  <2> QED BY <1>1, <1>3, <1>4, <2>1 DEF QueueRebuilt
<1>5. ASSUME NEW id \in LocalIds, Undoes(id), UNCHANGED tab
      PROVE  CallsAndTabs /\ IsAKnownStep
  BY <1>1, <1>3, <1>5 DEF Undoes
<1>6. ASSUME NEW c \in Clients, Proceeds(c), UNCHANGED tab
      PROVE  CallsAndTabs /\ IsAKnownStep
  <2>1. sync[c] \in Sync
    BY <1>1
  <2>2. CASE Validates(c)
    BY <1>1, <1>6, <2>1, <2>2 DEF Validates, Becomes, Sync, CallsAndTabs, IsAKnownStep
  <2>3. CASE Begins(c)
    <3>1. clock + 1 \in 0..MaxClock
      BY <1>1, <2>3, LedgerAssumption DEF Begins
    <3> QED BY <1>1, <1>6, <2>1, <2>3, <3>1
            DEF Begins, Becomes, Sync, CallsAndTabs, IsAKnownStep
  <2>4. CASE Locks(c)
    <3>1. PICK o \in Opportunities : sync' = [sync EXCEPT ![c].locks = @ \cup {o}]
      BY <2>4 DEF Locks
    <3>2. [sync[c] EXCEPT !.locks = @ \cup {o}] \in Sync
      BY <2>1 DEF Sync
    <3>3. sync' \in [Clients -> Sync]
      BY <1>1, <3>1, <3>2
    <3> QED BY <1>1, <1>6, <2>4, <3>3 DEF Locks, CallsAndTabs, IsAKnownStep
  <2>5. CASE Checks(c)
    <3>1. [sync[c] EXCEPT !.at = "writing"] \in Sync
      BY <2>1 DEF Sync
    <3>2. sync' \in [Clients -> Sync]
      BY <1>1, <2>5, <3>1 DEF Checks
    <3> QED BY <1>1, <1>6, <2>5, <3>2 DEF Checks, CallsAndTabs, IsAKnownStep
  <2> QED BY <1>6, <2>2, <2>3, <2>4, <2>5 DEF Proceeds
<1>7. ASSUME NEW c \in Clients, Ends(c)
      PROVE  sync' = [sync EXCEPT ![c] = NoSync] /\ sync' \in [Clients -> Sync]
  <2>1. sync' = [sync EXCEPT ![c] = NoSync] /\ NoSync \in Sync
    BY <1>7, SyncTypes DEF Ends, Becomes
  <2> QED BY <1>1, <2>1
<1>8. ASSUME NEW c \in Clients, NEW E \in SUBSET Entry, Submits(c, E)
      PROVE  /\ sync' \in [Clients -> Sync] /\ sync' = [sync EXCEPT ![c] = sync'[c]]
             /\ sync'[c].at = "sent" /\ sync'[c].entries = E /\ sync'[c].locks = {}
  <2> DEFINE s == [NoSync EXCEPT !.at = "sent", !.entries = E]
  <2>1. s \in Sync /\ s.at = "sent" /\ s.entries = E /\ s.locks = {}
    BY SyncTypes
  <2>2. sync' = [sync EXCEPT ![c] = s]
    BY <1>8 DEF Submits, Becomes
  <2> HIDE DEF s
  <2> QED BY <1>1, <2>1, <2>2
<1>9. ASSUME NEW t \in Tabs, NEW s \in Tab, Shows(t, s)
      PROVE  tab' \in [Tabs -> Tab] /\ tab'[t] = s /\ OtherTabsRest(t)
  BY <1>1, <1>9 DEF Shows, OtherTabsRest
<1>10. ASSUME NEW t \in Tabs, TabNext(t) PROVE CallsAndTabs /\ IsAKnownStep
  <2>1. sync[t] \in Sync /\ tab[t] \in Tab /\ t \in Clients
    BY <1>1, <1>2
  <2>2. CASE Decides(t)
    <3>1. PICK o \in tab[t].open, choice \in Choices, id \in FreshIds :
             \E text \in IF choice = "kept" THEN {NoText} ELSE Texts :
                Submits(t, {[id |-> id, opp |-> o, choice |-> choice, text |-> text,
                             expected |-> tab[t].seen[o]]})
      BY <2>2 DEF Decides
    <3>2. PICK text \in IF choice = "kept" THEN {NoText} ELSE Texts :
             Submits(t, {[id |-> id, opp |-> o, choice |-> choice, text |-> text,
                          expected |-> tab[t].seen[o]]})
      BY <3>1
    <3> DEFINE e == [id |-> id, opp |-> o, choice |-> choice, text |-> text,
                     expected |-> tab[t].seen[o]]
    <3>3. o \in Opportunities /\ id \in LocalIds /\ tab[t].seen[o] \in LocalIds \cup {NoId}
      BY <2>1 DEF Tab, FreshIds
    <3>4. e \in Entry /\ e.id \in FreshIds /\ e.expected = tab[t].seen[e.opp]
      BY <3>1, <3>2, <3>3 DEF Entry
    <3>5. Submits(t, {e})
      BY <3>2
    <3> HIDE DEF e
    <3>6. /\ sync' \in [Clients -> Sync] /\ sync' = [sync EXCEPT ![t] = sync'[t]]
          /\ sync'[t].at = "sent" /\ sync'[t].entries = {e} /\ sync'[t].locks = {}
      BY <1>8, <2>1, <3>4, <3>5
    <3>7. SendsFromTab(t)
      BY <2>2, <3>4, <3>6 DEF Decides, Waiting, SendsFromTab
    <3> QED BY <1>1, <2>1, <2>2, <3>6, <3>7
            DEF Decides, Waiting, OtherTabsRest, Sends, CallsAndTabs, IsAKnownStep
  <2>3. CASE Retries(t)
    <3>1. PICK f \in tab[t].failed :
             /\ Submits(t, {[f EXCEPT !.expected = tab[t].seen[f.opp]]})
             /\ Shows(t, [tab[t] EXCEPT !.failed = @ \ {f}])
      BY <2>3 DEF Retries
    <3> DEFINE e == [f EXCEPT !.expected = tab[t].seen[f.opp]]
    <3>2. f \in Entry /\ f.opp \in Opportunities
          /\ tab[t].seen[f.opp] \in LocalIds \cup {NoId}
      BY <2>1 DEF Tab, Entry
    <3>3. e \in Entry /\ e.id = f.id /\ e.opp = f.opp /\ e.expected = tab[t].seen[e.opp]
      BY <3>2 DEF Entry
    <3>4. Submits(t, {e})
      BY <3>1
    <3> HIDE DEF e
    <3>5. /\ sync' \in [Clients -> Sync] /\ sync' = [sync EXCEPT ![t] = sync'[t]]
          /\ sync'[t].at = "sent" /\ sync'[t].entries = {e} /\ sync'[t].locks = {}
      BY <1>8, <2>1, <3>3, <3>4
    <3>6. [tab[t] EXCEPT !.failed = @ \ {f}] \in Tab
      BY <2>1 DEF Tab
    <3>7. /\ tab' \in [Tabs -> Tab] /\ OtherTabsRest(t)
          /\ tab'[t] = [tab[t] EXCEPT !.failed = @ \ {f}]
      BY <1>9, <3>1, <3>6
    <3>8. /\ tab'[t].seen = tab[t].seen /\ tab'[t].failed \subseteq tab[t].failed
          /\ tab'[t].reloading = tab[t].reloading
      BY <2>1, <3>7 DEF Tab
    <3>9. SendsFromTab(t)
      BY <2>3, <3>1, <3>3, <3>5, <3>8 DEF Retries, Waiting, SendsFromTab
    <3> QED BY <1>1, <2>1, <2>3, <3>5, <3>7, <3>9
            DEF Retries, Waiting, Sends, CallsAndTabs, IsAKnownStep
  <2>4. ASSUME NEW s \in Tab, Shows(t, s), s.failed \subseteq tab[t].failed,
               ~s.reloading, tab[t].reloading \/ sync[t].at = "idle",
               \A o \in Opportunities : s.seen[o] \in {tab[t].seen[o], LatestId(o)},
               UNCHANGED ledgerVars
        PROVE  CallsAndTabs /\ IsAKnownStep
    <3>1. tab' \in [Tabs -> Tab] /\ tab'[t] = s /\ OtherTabsRest(t)
      BY <1>9, <2>4
    <3>2. Displays(t)
      BY <2>4, <3>1 DEF Displays, ledgerVars
    <3> QED BY <1>1, <2>4, <3>1, <3>2 DEF ledgerVars, CallsAndTabs, IsAKnownStep
  <2>5. CASE Reloads(t)
    <3>1. /\ [tab[t] EXCEPT !.reloading = FALSE] \in Tab
          /\ [tab[t] EXCEPT !.reloading = FALSE].failed = tab[t].failed
          /\ [tab[t] EXCEPT !.reloading = FALSE].seen = tab[t].seen
          /\ ~[tab[t] EXCEPT !.reloading = FALSE].reloading
      BY <2>1 DEF Tab
    <3>2. Loaded(tab[t]) \in Tab /\ Loaded(tab[t]).failed = tab[t].failed
          /\ ~Loaded(tab[t]).reloading
          /\ \A o \in Opportunities : Loaded(tab[t]).seen[o] = LatestId(o)
      BY <2>1, TabTypes
    <3> QED BY <2>4, <2>5, <3>1, <3>2 DEF Reloads
  <2>6. CASE OpensPage(t)
    <3>1. NewTab \in Tab /\ NewTab.failed = {}
      BY <2>1, TabTypes
    <3>2. /\ Loaded(NewTab) \in Tab /\ Loaded(NewTab).failed = {}
          /\ ~Loaded(NewTab).reloading
          /\ \A o \in Opportunities : Loaded(NewTab).seen[o] = LatestId(o)
      BY <3>1, TabTypes
    <3> QED BY <2>4, <2>6, <3>2 DEF OpensPage, Waiting
  <2>7. ASSUME NEW reloading \in BOOLEAN, Fails(t, reloading)
        PROVE  /\ sync' \in [Clients -> Sync] /\ sync' = [sync EXCEPT ![t] = NoSync]
               /\ tab' \in [Tabs -> Tab] /\ OtherTabsRest(t)
               /\ tab'[t].failed \subseteq TabEntries(t)
               /\ tab'[t].seen = tab[t].seen
    <3> DEFINE s == [tab[t] EXCEPT !.failed = @ \cup sync[t].entries,
                                   !.open = @ \cup Reopened(t),
                                   !.reloading = reloading]
    <3>1. Reopened(t) \subseteq Opportunities
      BY <2>1 DEF Reopened, Sync, Entry
    <3>2. s \in Tab /\ s.failed = tab[t].failed \cup sync[t].entries
          /\ s.seen = tab[t].seen
      BY <2>1, <3>1 DEF Tab, Sync
    <3>3. Ends(t) /\ Shows(t, s)
      BY <2>7 DEF Fails
    <3> HIDE DEF s
    <3> QED BY <1>7, <1>9, <2>1, <3>2, <3>3 DEF TabEntries
  <2>8. CASE SyncFails(t)
    <3>1. Drops(t)
      BY <2>7, <2>8 DEF SyncFails, Drops
    <3> QED BY <1>1, <2>1, <2>7, <2>8, <3>1 DEF SyncFails, CallsAndTabs, IsAKnownStep
  <2>9. CASE SyncIsStale(t)
    <3>1. Drops(t)
      BY <2>7, <2>9 DEF SyncIsStale, Drops
    <3> QED BY <1>1, <2>1, <2>7, <2>9, <3>1 DEF SyncIsStale, CallsAndTabs, IsAKnownStep
  <2>10. CASE SyncWrites(t)
    <3>1. CASE Fails(t, FALSE)
      <4>1. Writes(t)
        BY <2>7, <2>10, <3>1 DEF SyncWrites, Writes
      <4> QED BY <1>1, <2>1, <2>7, <2>10, <3>1, <4>1
              DEF SyncWrites, CallsAndTabs, IsAKnownStep
    <3>2. CASE Ends(t) /\ Shows(t, Saved(t))
      <4>1. \A e \in sync[t].entries : e.opp \in Opportunities /\ e.id \in LocalIds
        BY <2>1 DEF Sync, Entry
      <4> DEFINE seen == [o \in Opportunities |->
                             IF \E e \in sync[t].entries : e.opp = o
                             THEN (CHOOSE e \in sync[t].entries : e.opp = o).id
                             ELSE tab[t].seen[o]]
      <4>2. seen \in [Opportunities -> LocalIds \cup {NoId}]
        BY <2>1, <4>1 DEF Tab
      <4>3. /\ Saved(t) \in Tab /\ Saved(t).failed \subseteq tab[t].failed
            /\ Saved(t).seen = seen
        BY <2>1, <4>2 DEF Saved, Tab
      <4>4. /\ sync' \in [Clients -> Sync] /\ sync' = [sync EXCEPT ![t] = NoSync]
            /\ tab' \in [Tabs -> Tab] /\ OtherTabsRest(t)
            /\ tab'[t].failed \subseteq TabEntries(t)
            /\ tab'[t].seen = seen
        <5> HIDE DEF seen
        <5> QED BY <1>7, <1>9, <2>1, <3>2, <4>3 DEF TabEntries
      <4>5. ASSUME NEW o \in Opportunities
            PROVE  \/ tab'[t].seen[o] = tab[t].seen[o]
                   \/ \E e \in sync[t].entries : tab'[t].seen[o] = e.id
        <5>1. tab'[t].seen[o] = seen[o] BY <4>4
        <5> QED BY <5>1
      <4>6. Writes(t)
        <5> HIDE DEF seen
        <5> QED BY <2>10, <4>4, <4>5 DEF SyncWrites, Writes
      <4> HIDE DEF seen
      <4> QED BY <1>1, <2>1, <2>10, <4>4, <4>6
              DEF SyncWrites, CallsAndTabs, IsAKnownStep
    <3> QED BY <2>10, <3>1, <3>2 DEF SyncWrites
  <2> QED BY <1>10, <2>2, <2>3, <2>5, <2>6, <2>8, <2>9, <2>10 DEF TabNext
<1>11. ASSUME NEW p \in AutoRuns, AutoNext(p) PROVE CallsAndTabs /\ IsAKnownStep
  <2>1. /\ sync[p] \in Sync /\ p \in Clients /\ p \notin Tabs /\ "accepted" \in Choices
    BY <1>1, <1>2, WorkbenchAssumption
  <2>2. UNCHANGED tab => OtherTabsRest(p)
    BY DEF OtherTabsRest
  <2>3. CASE LoadsQueue(p)
    <3> DEFINE E == {AutoEntry(o) : o \in {o \in Opportunities : IsReady(o, queue[o])}}
               s == [NoSync EXCEPT !.at = "choosing", !.entries = E]
    <3>1. \A o \in Opportunities : /\ AutoEntry(o) \in Entry /\ AutoEntry(o).opp = o
                                   /\ AutoEntry(o).id = TrustedPathId[o]
                                   /\ AutoEntry(o).expected = Unstated
      BY <2>1, AutoEntryType DEF IInv
    <3>2. /\ E \subseteq Entry
          /\ \A e \in E : e.id = TrustedPathId[e.opp] /\ e.expected = Unstated
          /\ \A e, f \in E : e.opp = f.opp => e = f
      BY <3>1
    <3>3. Becomes(p, s)
      BY <2>3 DEF LoadsQueue
    <3> HIDE DEF E
    <3>4. s \in Sync /\ s.at = "choosing" /\ s.entries = E /\ s.locks = {}
      BY <3>2, SyncTypes
    <3> HIDE DEF s
    <3>5. sync' \in [Clients -> Sync] /\ sync' = [sync EXCEPT ![p] = sync'[p]] /\ sync'[p] = s
      BY <1>1, <2>1, <3>3, <3>4 DEF Becomes
    <3>6. Sends(p)
      BY <2>1, <2>2, <2>3, <3>2, <3>4, <3>5 DEF LoadsQueue, Sends, SendsByItself
    <3> QED BY <1>1, <2>1, <2>3, <3>5, <3>6 DEF LoadsQueue, CallsAndTabs, IsAKnownStep
  <2>4. ASSUME Ends(p), UNCHANGED <<queue, ledger, undone, clock, tab>>
        PROVE  CallsAndTabs /\ IsAKnownStep
    <3>1. Drops(p)
      BY <1>7, <2>1, <2>2, <2>4 DEF Drops
    <3> QED BY <1>1, <1>7, <2>1, <2>4, <3>1 DEF CallsAndTabs, IsAKnownStep
  <2>5. CASE LeavesOutDecided(p)
    <3> DEFINE left == {e \in sync[p].entries : ~Decided(e.opp)}
    <3>1. CASE left = {}
      BY <2>4, <2>5, <3>1 DEF LeavesOutDecided
    <3>2. CASE left # {}
      <4>1. left \subseteq sync[p].entries /\ left \subseteq Entry
        BY <2>1 DEF Sync
      <4>2. Submits(p, left)
        BY <2>5, <3>2 DEF LeavesOutDecided
      <4> HIDE DEF left
      <4>3. /\ sync' \in [Clients -> Sync] /\ sync' = [sync EXCEPT ![p] = sync'[p]]
            /\ sync'[p].at = "sent" /\ sync'[p].entries = left /\ sync'[p].locks = {}
        BY <1>8, <2>1, <4>1, <4>2
      <4>4. /\ \A e \in left : e.id = TrustedPathId[e.opp] /\ e.expected = Unstated
            /\ \A e, f \in left : e.opp = f.opp => e = f
        BY <2>1, <4>1 DEF IInv, OwnIds, OneEntryPerOpp, SentAsSeen
      <4>5. Sends(p)
        BY <2>1, <2>2, <2>5, <4>3, <4>4 DEF LeavesOutDecided, Sends, SendsByItself
      <4> QED BY <1>1, <2>1, <2>5, <4>3, <4>5 DEF LeavesOutDecided, CallsAndTabs, IsAKnownStep
    <3> QED BY <3>1, <3>2
  <2>6. CASE AutoFails(p)
    BY <2>4, <2>6 DEF AutoFails
  <2>7. CASE AutoWrites(p)
    <3>1. Writes(p)
      BY <1>7, <2>1, <2>2, <2>7 DEF AutoWrites, Writes
    <3> QED BY <1>1, <1>7, <2>1, <2>7, <3>1 DEF AutoWrites, CallsAndTabs, IsAKnownStep
  <2> QED BY <1>11, <2>3, <2>5, <2>6, <2>7 DEF AutoNext
<1>12. ASSUME NEW r \in Requests, ReviewNext(r) PROVE CallsAndTabs /\ IsAKnownStep
  BY <1>1, <1>3, <1>12 DEF ReviewNext, LoadsDecisions, Certifies, LocksManuscript,
                             FindsVersion, FindsNone, InsertsVersion, ApplyFails
<1>13. CASE UNCHANGED vars
  BY <1>1, <1>3, <1>13 DEF vars
<1> QED BY <1>4, <1>5, <1>6, <1>10, <1>11, <1>12, <1>13 DEF Next, LedgerNext

\* A call that goes on by itself keeps its entries, and has compared what it
\* was to compare.
LEMMA ProceedsIs ==
    ASSUME IInv, NEW c \in Clients, Proceeds(c)
    PROVE  /\ ledger' = ledger /\ clock' \in {clock, clock + 1}
           /\ sync'[c].entries = sync[c].entries
           /\ sync' = [sync EXCEPT ![c] = sync'[c]]
           /\ sync[c].at # "idle"
           /\ sync'[c].at = "writing" => Checks(c) /\ sync'[c].locks = sync[c].locks
           /\ sync'[c].at \in {"valid", "locking", "writing"} =>
                 \/ Validates(c) /\ sync'[c].offered = queue
                 \/ /\ sync[c].at \in {"valid", "locking"}
                    /\ sync'[c].offered = sync[c].offered
           /\ \/ Begins(c) /\ clock' = clock + 1 /\ sync'[c].born = clock + 1
              \/ clock' = clock /\ sync'[c].born = sync[c].born
                    /\ (InTransaction(c)' => InTransaction(c))
           /\ \/ sync'[c].locks = sync[c].locks
              \/ \E o \in Opportunities :
                    Free(o) /\ sync'[c].locks = sync[c].locks \cup {o}
<1>1. sync \in [Clients -> Sync] /\ sync[c] \in Sync
  BY DEF IInv, TypeOK
<1>2. CASE Validates(c)
  <2>1. sync' = [sync EXCEPT ![c] = [sync[c] EXCEPT !.at = "valid", !.offered = queue]]
    BY <1>2 DEF Validates, Becomes
  <2>2. /\ sync'[c].at = "valid" /\ sync'[c].offered = queue
        /\ sync'[c].entries = sync[c].entries /\ sync'[c].born = sync[c].born
        /\ sync'[c].locks = sync[c].locks
        /\ sync' = [sync EXCEPT ![c] = sync'[c]]
    BY <1>1, <2>1 DEF Sync
  <2> QED BY <1>2, <2>2 DEF Validates, InTransaction
<1>3. CASE Begins(c)
  <2>1. sync' = [sync EXCEPT ![c] = [sync[c] EXCEPT !.at = "locking", !.born = clock + 1]]
    BY <1>3 DEF Begins, Becomes
  <2>2. /\ sync'[c].at = "locking" /\ sync'[c].offered = sync[c].offered
        /\ sync'[c].entries = sync[c].entries /\ sync'[c].born = clock + 1
        /\ sync'[c].locks = sync[c].locks
        /\ sync' = [sync EXCEPT ![c] = sync'[c]]
    BY <1>1, <2>1 DEF Sync
  <2> QED BY <1>3, <2>2 DEF Begins
<1>4. CASE Locks(c)
  <2>1. PICK o \in Opportunities :
           /\ NextLock(c, o) /\ Free(o)
           /\ sync' = [sync EXCEPT ![c].locks = @ \cup {o}]
    BY <1>4 DEF Locks
  <2>2. /\ sync'[c].at = sync[c].at /\ sync'[c].offered = sync[c].offered
        /\ sync'[c].entries = sync[c].entries /\ sync'[c].born = sync[c].born
        /\ sync'[c].locks = sync[c].locks \cup {o}
        /\ sync' = [sync EXCEPT ![c] = sync'[c]]
    BY <1>1, <2>1 DEF Sync
  <2> QED BY <1>4, <2>1, <2>2 DEF Locks, InTransaction
<1>5. CASE Checks(c)
  <2>1. /\ sync'[c].at = "writing" /\ sync'[c].offered = sync[c].offered
        /\ sync'[c].entries = sync[c].entries /\ sync'[c].born = sync[c].born
        /\ sync'[c].locks = sync[c].locks
        /\ sync' = [sync EXCEPT ![c] = sync'[c]]
    BY <1>1, <1>5 DEF Checks, Sync
  <2> QED BY <1>5, <2>1 DEF Checks, MayCheck, InTransaction
<1> QED BY <1>2, <1>3, <1>4, <1>5 DEF Proceeds

\* The opportunities that are not the call's keep their decisions.
LEMMA WritesAside ==
    ASSUME IInv, NEW c \in Clients, Writes(c),
           NEW o \in Opportunities, o \notin Opps(c)
    PROVE  /\ \A r : r \in Heads' /\ r.opp = o <=> r \in Heads /\ r.opp = o
           /\ Decided(o)' <=> Decided(o)
<1>1. \A r : r \in ledger' /\ r.opp = o <=> r \in ledger /\ r.opp = o
  BY LedgerAfter DEF Writes
<1>2. Decided(o)' <=> Decided(o)
  BY <1>1 DEF Decided
<1>3. ASSUME NEW r PROVE r \in Heads' /\ r.opp = o <=> r \in Heads /\ r.opp = o
  BY <1>1 DEF Heads
<1> QED BY <1>2, <1>3

-----------------------------------------------------------------------------
(* Every step keeps the invariant                                          *)

LEMMA LedgerTypes ==
    ASSUME IInv, IsAKnownStep
    PROVE  /\ ledger' \subseteq Row
           /\ \A r, s \in ledger' : r # s => r.id # s.id
           /\ \A r, s \in ledger' : r # s /\ r.opp = s.opp => r.born # s.born
<1>1. CASE ledger' = ledger
  BY <1>1 DEF IInv, TypeOK
<1>2. CASE \E c \in Clients : Writes(c)
  BY <1>2, LedgerAfter DEF Writes
<1> QED BY <1>1, <1>2, ProceedsIs DEF IsAKnownStep, Rests, Displays, Drops, Sends

\* The calls, one by one.
LEMMA OneEntryStep ==
    ASSUME IInv, CallsAndTabs, IsAKnownStep PROVE OneEntryPerOpp'
<1>1. sync \in [Clients -> Sync] /\ OneEntryPerOpp
  BY DEF IInv, TypeOK
<1>2. ASSUME NEW c \in Clients, sync' = [sync EXCEPT ![c] = sync'[c]],
             \A e, f \in sync'[c].entries : e.opp = f.opp => e = f
      PROVE  OneEntryPerOpp'
  <2>1. \A d \in Clients : d # c => sync'[d] = sync[d]
    BY <1>1, <1>2
  <2> QED BY <1>1, <1>2, <2>1 DEF OneEntryPerOpp
<1>3. CASE sync' = sync
  BY <1>1, <1>3 DEF OneEntryPerOpp
<1>4. ASSUME NEW c \in Clients, sync' = [sync EXCEPT ![c] = NoSync] PROVE OneEntryPerOpp'
  <2>1. sync'[c] = NoSync /\ sync'[c].entries = {}
    BY <1>1, <1>4, SyncTypes
  <2> QED BY <1>2, <1>4, <2>1
<1>5. ASSUME NEW c \in Clients, Sends(c) PROVE OneEntryPerOpp'
  BY <1>2, <1>5 DEF Sends, SendsFromTab, SendsByItself
<1>6. ASSUME NEW c \in Clients, Proceeds(c) PROVE OneEntryPerOpp'
  BY <1>1, <1>2, <1>6, ProceedsIs DEF OneEntryPerOpp
<1> QED BY <1>3, <1>4, <1>5, <1>6 DEF IsAKnownStep, Rests, Displays, Drops, Writes

\* A step names what was named, save that a tab may send one entry under an id
\* that was not.
LEMMA NamesAfter ==
    ASSUME IInv, CallsAndTabs, IsAKnownStep
    PROVE  \/ \A id \in LocalIds, o \in Opportunities : Names(id, o)' => Names(id, o)
           \/ \E e \in Entry :
                 /\ e.id \in FreshIds
                 /\ \A id \in LocalIds, o \in Opportunities :
                       Names(id, o)' => Names(id, o) \/ (id = e.id /\ o = e.opp)
<1>1. /\ sync \in [Clients -> Sync] /\ tab \in [Tabs -> Tab] /\ ledger \subseteq Row
      /\ Tabs \subseteq Clients /\ AutoRuns \subseteq Clients
  BY WorkbenchAssumption DEF IInv, TypeOK
<1>2. \A c \in Clients : sync[c].at = "writing" /\ Upserts(c) => \A r \in ledger' :
         r \in ledger \/ \E e \in sync[c].entries : e.id = r.id /\ e.opp = r.opp
  <2>1. ASSUME NEW c \in Clients, sync[c].at = "writing", Upserts(c), NEW r \in ledger',
               r \notin ledger
        PROVE  \E e \in sync[c].entries : e.id = r.id /\ e.opp = r.opp
    <3>1. PICK e \in sync[c].entries : r = Stored(c, e)
      BY <2>1, LedgerAfter
    <3> QED BY <2>1, <3>1, StoredIs
  <2> QED BY <2>1
<1>3. CASE Rests
  BY <1>3 DEF Rests, Names
<1>4. ASSUME NEW t \in Tabs, Displays(t),
             NEW id \in LocalIds, NEW o \in Opportunities, Names(id, o)'
      PROVE  Names(id, o)
  BY <1>1, <1>4 DEF Displays, OtherTabsRest, Names
<1>5. ASSUME NEW c \in Clients, sync' = [sync EXCEPT ![c] = NoSync], OtherTabsRest(c),
             c \in Tabs => tab'[c].failed \subseteq TabEntries(c),
             \A r \in ledger' :
                r \in ledger \/ \E e \in sync[c].entries : e.id = r.id /\ e.opp = r.opp,
             NEW id \in LocalIds, NEW o \in Opportunities, Names(id, o)'
      PROVE  Names(id, o)
  <2>1. /\ sync'[c].entries = {}
        /\ \A d \in Clients : d # c => sync'[d] = sync[d]
    BY <1>1, <1>5, SyncTypes
  <2>2. CASE \E r \in ledger' : r.id = id /\ r.opp = o
    BY <1>5, <2>2 DEF Names
  <2>3. CASE \E d \in Clients : \E e \in sync'[d].entries : e.id = id /\ e.opp = o
    BY <2>1, <2>3 DEF Names
  <2>4. CASE \E t \in Tabs : \E e \in tab'[t].failed : e.id = id /\ e.opp = o
    BY <1>1, <1>5, <2>4 DEF OtherTabsRest, TabEntries, Names
  <2> QED BY <1>5, <2>2, <2>3, <2>4 DEF Names
<1>6. ASSUME NEW c \in Clients, Proceeds(c), UNCHANGED tab,
             NEW id \in LocalIds, NEW o \in Opportunities, Names(id, o)'
      PROVE  Names(id, o)
  <2>1. ledger' = ledger /\ \A d \in Clients : sync'[d].entries = sync[d].entries
    BY <1>1, <1>6, ProceedsIs
  <2> QED BY <1>6, <2>1 DEF Names
<1>7. ASSUME NEW c \in Clients, Sends(c), SendsByItself(c),
             NEW id \in LocalIds, NEW o \in Opportunities, Names(id, o)'
      PROVE  Names(id, o)
  <2>1. \A d \in Clients : d # c => sync'[d] = sync[d]
    BY <1>1, <1>7 DEF Sends
  <2>2. \A e \in sync'[c].entries : e.id = TrustedPathId[e.opp]
    BY <1>7 DEF SendsByItself
  <2>3. ledger' = ledger /\ tab' = tab
    BY <1>7 DEF Sends, SendsByItself
  <2> QED BY <1>7, <2>1, <2>2, <2>3 DEF Names
<1>8. ASSUME NEW c \in Clients, Sends(c), SendsFromTab(c)
      PROVE  \E e \in Entry :
                /\ sync'[c].entries = {e}
                /\ e.id \in FreshIds \/ \E f \in tab[c].failed : f.id = e.id /\ f.opp = e.opp
                /\ \A id \in LocalIds, o \in Opportunities :
                      Names(id, o)' => Names(id, o) \/ (id = e.id /\ o = e.opp)
  <2>1. PICK e \in Entry :
           /\ sync'[c].entries = {e}
           /\ e.id \in FreshIds \/ \E f \in tab[c].failed : f.id = e.id /\ f.opp = e.opp
    BY <1>8 DEF SendsFromTab
  <2>2. /\ \A d \in Clients : d # c => sync'[d] = sync[d]
        /\ ledger' = ledger /\ OtherTabsRest(c) /\ tab'[c].failed \subseteq tab[c].failed
    BY <1>1, <1>8 DEF Sends, SendsFromTab
  <2>3. ASSUME NEW id \in LocalIds, NEW o \in Opportunities, Names(id, o)'
        PROVE  Names(id, o) \/ (id = e.id /\ o = e.opp)
    BY <2>1, <2>2, <2>3 DEF Names, OtherTabsRest
  <2> QED BY <2>1, <2>3
<1>9. ASSUME NEW c \in Clients, Sends(c), SendsFromTab(c)
      PROVE  \/ \A id \in LocalIds, o \in Opportunities : Names(id, o)' => Names(id, o)
             \/ \E e \in Entry :
                   /\ e.id \in FreshIds
                   /\ \A id \in LocalIds, o \in Opportunities :
                         Names(id, o)' => Names(id, o) \/ (id = e.id /\ o = e.opp)
  <2>1. PICK e \in Entry :
           /\ e.id \in FreshIds \/ \E f \in tab[c].failed : f.id = e.id /\ f.opp = e.opp
           /\ \A id \in LocalIds, o \in Opportunities :
                 Names(id, o)' => Names(id, o) \/ (id = e.id /\ o = e.opp)
    BY <1>8, <1>9
  <2>2. c \in Tabs
    BY <1>9 DEF SendsFromTab
  <2> QED BY <2>1, <2>2 DEF Names
<1>10. ASSUME NEW c \in Clients, Drops(c), NEW id \in LocalIds, NEW o \in Opportunities,
              Names(id, o)'
       PROVE  Names(id, o)
  BY <1>5, <1>10 DEF Drops
<1>11. ASSUME NEW c \in Clients, Writes(c), NEW id \in LocalIds, NEW o \in Opportunities,
              Names(id, o)'
       PROVE  Names(id, o)
  BY <1>2, <1>5, <1>11 DEF Writes
<1> QED BY <1>3, <1>4, <1>6, <1>7, <1>9, <1>10, <1>11 DEF IsAKnownStep, Sends

LEMMA OneOppStep ==
    ASSUME IInv, CallsAndTabs, IsAKnownStep PROVE OneOppPerId'
<1>1. CASE \A id \in LocalIds, o \in Opportunities : Names(id, o)' => Names(id, o)
  BY <1>1 DEF IInv, OneOppPerId
<1>2. ASSUME NEW e \in Entry, e.id \in FreshIds,
             \A id \in LocalIds, o \in Opportunities :
                Names(id, o)' => Names(id, o) \/ (id = e.id /\ o = e.opp)
      PROVE  OneOppPerId'
  <2>1. \A o \in Opportunities : ~Names(e.id, o)
    BY <1>2 DEF Names, FreshIds
  <2> QED BY <1>2, <2>1 DEF IInv, OneOppPerId
<1> QED BY <1>1, <1>2, NamesAfter

\* A tab's ids stay its own: what it drew before, or a new one.
LEMMA OwnIdsStep ==
    ASSUME IInv, CallsAndTabs, IsAKnownStep PROVE OwnIds'
<1>1. /\ sync \in [Clients -> Sync] /\ tab \in [Tabs -> Tab]
      /\ Tabs \subseteq Clients /\ AutoRuns \subseteq Clients /\ Tabs \cap AutoRuns = {}
  BY WorkbenchAssumption DEF IInv, TypeOK
<1> DEFINE Keeps(t) == \A e \in TabEntries(t)' : \E f \in TabEntries(t) : f.id = e.id
<1>2. ASSUME \A t \in Tabs : Keeps(t),
             \A p \in AutoRuns : \A e \in sync'[p].entries : e.id = TrustedPathId[e.opp]
      PROVE  OwnIds'
  <2>1. \A t \in Tabs : \A e \in TabEntries(t)' : \E f \in TabEntries(t) : f.id = e.id
    BY <1>2
  <2>2. OwnIds /\ AutoIdSet' = AutoIdSet
    BY DEF IInv, AutoIdSet
  <2> QED BY <1>2, <2>1, <2>2 DEF OwnIds
<1>3. CASE Rests
  BY <1>2, <1>3 DEF Rests, TabEntries, IInv, OwnIds
<1>4. ASSUME NEW t \in Tabs, Displays(t) PROVE OwnIds'
  <2>1. \A u \in Tabs : TabEntries(u)' \subseteq TabEntries(u)
    BY <1>4 DEF Displays, OtherTabsRest, TabEntries
  <2>2. \A p \in AutoRuns : \A e \in sync'[p].entries : e.id = TrustedPathId[e.opp]
    BY <1>4 DEF Displays, IInv, OwnIds
  <2> QED BY <1>2, <2>1, <2>2
<1>5. ASSUME NEW c \in Clients, sync' = [sync EXCEPT ![c] = NoSync], OtherTabsRest(c),
             c \in Tabs => tab'[c].failed \subseteq TabEntries(c)
      PROVE  OwnIds'
  <2>1. /\ sync'[c].entries = {}
        /\ \A d \in Clients : d # c => sync'[d] = sync[d]
    BY <1>1, <1>5, SyncTypes
  <2>2. \A u \in Tabs : TabEntries(u)' \subseteq TabEntries(u)
    BY <1>1, <1>5, <2>1 DEF OtherTabsRest, TabEntries
  <2>3. \A p \in AutoRuns : \A e \in sync'[p].entries : e.id = TrustedPathId[e.opp]
    BY <1>1, <2>1 DEF IInv, OwnIds
  <2> QED BY <1>2, <2>2, <2>3
<1>6. ASSUME NEW c \in Clients, Proceeds(c), UNCHANGED tab PROVE OwnIds'
  <2>1. \A d \in Clients : sync'[d].entries = sync[d].entries
    BY <1>1, <1>6, ProceedsIs
  <2>2. \A u \in Tabs : TabEntries(u)' \subseteq TabEntries(u)
    BY <1>1, <1>6, <2>1 DEF TabEntries
  <2>3. \A p \in AutoRuns : \A e \in sync'[p].entries : e.id = TrustedPathId[e.opp]
    BY <1>1, <2>1 DEF IInv, OwnIds
  <2> QED BY <1>2, <2>2, <2>3
<1>7. ASSUME NEW c \in Clients, Sends(c), SendsByItself(c) PROVE OwnIds'
  <2>1. \A d \in Clients : d # c => sync'[d] = sync[d]
    BY <1>1, <1>7 DEF Sends
  <2>2. c \notin Tabs /\ tab' = tab
    BY <1>1, <1>7 DEF SendsByItself
  <2>3. \A u \in Tabs : TabEntries(u)' \subseteq TabEntries(u)
    BY <1>1, <2>1, <2>2 DEF TabEntries
  <2>4. \A p \in AutoRuns : \A e \in sync'[p].entries : e.id = TrustedPathId[e.opp]
    BY <1>1, <1>7, <2>1 DEF SendsByItself, IInv, OwnIds
  <2> QED BY <1>2, <2>3, <2>4
<1>8. ASSUME NEW c \in Clients, Sends(c), SendsFromTab(c) PROVE OwnIds'
  <2>1. PICK e \in Entry :
           /\ sync'[c].entries = {e}
           /\ e.id \in FreshIds \/ \E f \in tab[c].failed : f.id = e.id /\ f.opp = e.opp
    BY <1>8 DEF SendsFromTab
  <2>2. /\ c \in Tabs /\ OtherTabsRest(c) /\ tab'[c].failed \subseteq tab[c].failed
        /\ \A d \in Clients : d # c => sync'[d] = sync[d]
    BY <1>1, <1>8 DEF Sends, SendsFromTab
  <2>3. \A p \in AutoRuns : \A f \in sync'[p].entries : f.id = TrustedPathId[f.opp]
    BY <1>1, <2>2 DEF IInv, OwnIds
  <2>4. \A u \in Tabs \ {c} : TabEntries(u)' \subseteq TabEntries(u)
    BY <1>1, <2>2 DEF OtherTabsRest, TabEntries
  <2>5. TabEntries(c)' \subseteq TabEntries(c) \cup {e}
    BY <2>1, <2>2 DEF TabEntries
  <2>6. CASE \E f \in tab[c].failed : f.id = e.id
    <3>1. Keeps(c)
      BY <2>5, <2>6 DEF TabEntries
    <3> QED BY <1>2, <2>3, <2>4, <3>1
  <2>7. CASE e.id \in FreshIds
    <3>1. e.id \notin AutoIdSet /\ \A u \in Tabs : \A f \in TabEntries(u) : f.id # e.id
      BY <1>1, <2>7 DEF FreshIds, AutoIdSet, TabEntries
    <3>2. OwnIds /\ AutoIdSet' = AutoIdSet
      BY DEF IInv, AutoIdSet
    <3>3. \A t \in Tabs : \A f \in TabEntries(t)' : f.id \notin AutoIdSet
      BY <2>4, <2>5, <3>1, <3>2 DEF OwnIds
    <3>4. ASSUME NEW t \in Tabs, NEW u \in Tabs, t # u,
                 NEW f \in TabEntries(t)', NEW g \in TabEntries(u)'
          PROVE  f.id # g.id
      BY <2>4, <2>5, <3>1, <3>2, <3>4 DEF OwnIds
    <3> QED BY <2>3, <3>2, <3>3, <3>4 DEF OwnIds
  <2> QED BY <2>1, <2>6, <2>7
<1> QED BY <1>3, <1>4, <1>5, <1>6, <1>7, <1>8 DEF IsAKnownStep, Sends, Drops, Writes

\* A transaction's time is new to the ledger and to other transactions.
LEMMA TimesStep ==
    ASSUME IInv, CallsAndTabs, IsAKnownStep PROVE Times'
<1>1. /\ sync \in [Clients -> Sync] /\ clock \in Nat /\ ledger \subseteq Row
      /\ \A c \in Clients : sync[c].born \in Nat
      /\ \A r \in ledger : r.born \in Nat
  BY LedgerAssumption DEF IInv, TypeOK, Sync, Row
<1>2. Times
  BY DEF IInv
<1>3. CASE UNCHANGED <<ledger, clock, sync>>
  BY <1>2, <1>3 DEF Times, InTransaction
<1>4. ASSUME NEW c \in Clients, UNCHANGED <<ledger, clock>>,
             \A d \in Clients : d # c => sync'[d] = sync[d], ~InTransaction(c)'
      PROVE  Times'
  BY <1>2, <1>4 DEF Times, InTransaction
<1>5. ASSUME NEW c \in Clients, Drops(c) PROVE Times'
  <2>1. sync'[c].at = "idle" /\ \A d \in Clients : d # c => sync'[d] = sync[d]
    BY <1>1, <1>5, SyncTypes DEF Drops
  <2> QED BY <1>4, <1>5, <2>1 DEF Drops, InTransaction
<1>6. ASSUME NEW c \in Clients, Sends(c) PROVE Times'
  BY <1>1, <1>4, <1>6 DEF Sends, InTransaction
<1>7. ASSUME NEW c \in Clients, Writes(c) PROVE Times'
  <2>1. /\ sync'[c].at = "idle" /\ clock' = clock
        /\ \A d \in Clients : d # c => sync'[d] = sync[d]
    BY <1>1, <1>7, SyncTypes DEF Writes
  <2>2. ASSUME NEW r \in ledger'
        PROVE  r.born = sync[c].born \/ \E k \in ledger : k.born = r.born
    <3>1. CASE r \in ledger
      BY <3>1
    <3>2. ASSUME NEW e \in sync[c].entries, r = Stored(c, e)
          PROVE  r.born = sync[c].born \/ \E k \in ledger : k.born = r.born
      BY <1>7, <3>2, StoredIs DEF Writes
    <3> QED BY <1>7, <3>1, <3>2, LedgerAfter DEF Writes
  <2>3. sync[c].born \in 1..clock /\ InTransaction(c)
    BY <1>2, <1>7 DEF Writes, Times, InTransaction
  <2>4. \A r \in ledger' : r.born <= clock
    BY <1>1, <1>2, <2>2, <2>3 DEF Times
  <2>5. ASSUME NEW d \in Clients, InTransaction(d)'
        PROVE  /\ sync'[d].born \in 1..clock
               /\ \A r \in ledger' : r.born # sync'[d].born
               /\ \A b \in Clients \ {d} : InTransaction(b)' => sync'[b].born # sync'[d].born
    <3>1. d # c /\ InTransaction(d) /\ sync'[d] = sync[d]
      BY <2>1, <2>5 DEF InTransaction
    <3>2. sync[d].born # sync[c].born
      BY <1>2, <2>3, <3>1 DEF Times
    <3>3. \A r \in ledger' : r.born # sync'[d].born
      BY <1>2, <2>2, <3>1, <3>2 DEF Times
    <3>4. \A b \in Clients \ {d} : InTransaction(b)' => InTransaction(b) /\ sync'[b] = sync[b]
      BY <2>1 DEF InTransaction
    <3> QED BY <1>2, <3>1, <3>3, <3>4 DEF Times
  <2> QED BY <2>1, <2>4, <2>5 DEF Times
<1>8. ASSUME NEW c \in Clients, Proceeds(c) PROVE Times'
  <2>1. /\ ledger' = ledger /\ \A d \in Clients : d # c => sync'[d] = sync[d]
        /\ \/ Begins(c) /\ clock' = clock + 1 /\ sync'[c].born = clock + 1
           \/ clock' = clock /\ sync'[c].born = sync[c].born
                 /\ (InTransaction(c)' => InTransaction(c))
    BY <1>1, <1>8, ProceedsIs
  <2>2. CASE clock' = clock /\ sync'[c].born = sync[c].born
             /\ (InTransaction(c)' => InTransaction(c))
    <3>1. \A d \in Clients : /\ sync'[d].born = sync[d].born
                             /\ InTransaction(d)' => InTransaction(d)
      BY <2>1, <2>2 DEF InTransaction
    <3> QED BY <1>2, <2>1, <2>2, <3>1 DEF Times
  <2>3. CASE Begins(c) /\ clock' = clock + 1 /\ sync'[c].born = clock + 1
    <3>1. \A d \in Clients : d # c => /\ sync'[d].born = sync[d].born
                                      /\ InTransaction(d)' => InTransaction(d)
      BY <2>1 DEF InTransaction
    <3>2. \A d \in Clients : d # c /\ InTransaction(d)' => sync'[d].born \in 1..clock
      BY <1>2, <3>1 DEF Times
    <3>3. \A r \in ledger' : r.born <= clock
      BY <1>2, <2>1 DEF Times
    <3>4. ASSUME NEW d \in Clients, InTransaction(d)'
          PROVE  /\ sync'[d].born \in 1..clock'
                 /\ \A r \in ledger' : r.born # sync'[d].born
                 /\ \A b \in Clients \ {d} :
                       InTransaction(b)' => sync'[b].born # sync'[d].born
      <4>1. CASE d = c
        BY <1>1, <2>1, <2>3, <3>2, <3>3, <4>1
      <4>2. CASE d # c
        <5>1. \A b \in Clients \ {d} : InTransaction(b)' => sync'[b].born # sync'[d].born
          BY <1>1, <1>2, <2>3, <3>1, <3>2, <3>4, <4>2 DEF Times
        <5> QED BY <1>1, <1>2, <2>1, <2>3, <3>1, <3>2, <3>4, <4>2, <5>1 DEF Times
      <4> QED BY <4>1, <4>2
    <3>5. \A r \in ledger' : r.born <= clock'
      BY <1>1, <2>1, <2>3, <3>3
    <3> QED BY <3>4, <3>5 DEF Times
  <2> QED BY <2>1, <2>2, <2>3
<1> QED BY <1>3, <1>5, <1>6, <1>7, <1>8 DEF IsAKnownStep, Rests, Displays

\* A lock is taken when it is free, and all of them before a call compares.
LEMMA LockedStep ==
    ASSUME IInv, CallsAndTabs, IsAKnownStep PROVE Locked'
<1>1. sync \in [Clients -> Sync] /\ Locked
  BY DEF IInv, TypeOK
<1>2. CASE sync' = sync
  BY <1>1, <1>2 DEF Locked, Opps
<1>3. ASSUME NEW c \in Clients, \A d \in Clients : d # c => sync'[d] = sync[d],
             sync'[c].locks = {}, sync'[c].at # "writing"
      PROVE  Locked'
  BY <1>1, <1>3 DEF Locked, Opps
<1>4. ASSUME NEW c \in Clients, sync' = [sync EXCEPT ![c] = NoSync] PROVE Locked'
  <2>1. sync'[c].locks = {} /\ sync'[c].at = "idle"
    BY <1>1, <1>4, SyncTypes
  <2> QED BY <1>1, <1>3, <1>4, <2>1
<1>5. ASSUME NEW c \in Clients, Sends(c) PROVE Locked'
  BY <1>1, <1>3, <1>5 DEF Sends
<1>6. ASSUME NEW c \in Clients, Proceeds(c) PROVE Locked'
  <2>1. /\ \A d \in Clients : d # c => sync'[d] = sync[d]
        /\ sync'[c].entries = sync[c].entries
        /\ sync'[c].at = "writing" => Checks(c) /\ sync'[c].locks = sync[c].locks
        /\ \/ sync'[c].locks = sync[c].locks
           \/ \E o \in Opportunities :
                 Free(o) /\ sync'[c].locks = sync[c].locks \cup {o}
    BY <1>1, <1>6, ProceedsIs
  <2>2. \A d, b \in Clients : d # b => sync'[d].locks \cap sync'[b].locks = {}
    BY <1>1, <2>1 DEF Locked, Free
  <2>3. \A d \in Clients : sync'[d].at = "writing" => Opps(d)' = sync'[d].locks
    BY <1>1, <2>1 DEF Locked, Opps, Checks, MayCheck
  <2> QED BY <2>2, <2>3 DEF Locked
<1> QED BY <1>2, <1>4, <1>5, <1>6 DEF IsAKnownStep, Rests, Displays, Drops, Writes

\* The row a call stores is the latest when it is new, and takes the place of
\* the row it replaces when it is not.
LEMMA HasHeadStep ==
    ASSUME IInv, CallsAndTabs, IsAKnownStep PROVE HasHead'
<1>1. CASE ledger' = ledger
  BY <1>1 DEF IInv, HasHead, Heads, Decided
<1>2. ASSUME NEW c \in Clients, Writes(c), NEW o \in Opportunities, Decided(o)'
      PROVE  \E r \in Heads' : r.opp = o
  <2>1. CASE o \notin Opps(c)
    <3>1. Decided(o)
      BY <1>2, <2>1, WritesAside
    <3>2. PICK r \in Heads : r.opp = o
      BY <3>1 DEF IInv, HasHead
    <3>3. r \in Heads'
      BY <1>2, <2>1, <3>2, WritesAside
    <3> QED BY <3>2, <3>3
  <2>2. CASE o \in Opps(c)
    <3>1. PICK e \in sync[c].entries : e.opp = o
      BY <2>2 DEF Opps
    <3> DEFINE n == Stored(c, e)
    <3>2. /\ n \in ledger' /\ n.opp = o
          /\ \A k \in ledger : k.id = e.id => n.born = k.born
          /\ (\A k \in ledger : k.id # e.id) => n.born = sync[c].born
      BY <1>2, <3>1, StoredIs DEF Writes, Upserts
    <3>3. \A r \in ledger' : r.opp = o => r \in ledger \/ r = n
      <4>1. ASSUME NEW r \in ledger', r.opp = o, NEW f \in sync[c].entries, r = Stored(c, f)
            PROVE  r = n
        <5>1. f.opp = o
          BY <1>2, <4>1, StoredIs DEF Writes
        <5>2. f = e
          BY <3>1, <5>1 DEF IInv, OneEntryPerOpp
        <5> QED BY <4>1, <5>2
      <4> QED BY <1>2, <4>1, LedgerAfter DEF Writes
    <3> HIDE DEF n
    <3>4. /\ \A r \in ledger' : r.born \in Nat
          /\ \A r \in ledger : r.born \in Nat
          /\ sync[c].born \in Nat
      BY <1>2, LedgerAfter DEF Writes, IInv, TypeOK, Row, Sync
    <3>5. CASE Decided(o)
      <4>1. PICK h \in Heads : h.opp = o
        BY <3>5 DEF IInv, HasHead
      <4>2. h \in ledger /\ \A s \in ledger : s.opp = o => s.born <= h.born
        BY <4>1 DEF Heads
      <4>3. PICK g \in ledger' : g.opp = o /\ g.born = h.born
        BY <1>2, <4>1, <4>2, LedgerAfter DEF Writes
      <4>4. CASE n.born <= g.born
        <5>1. \A s \in ledger' : s.opp = o => s.born <= g.born
          BY <3>3, <4>2, <4>3, <4>4
        <5> QED BY <4>3, <5>1 DEF Heads
      <4>5. CASE g.born <= n.born
        <5>1. \A s \in ledger' : s.opp = o => s.born <= n.born
          BY <3>2, <3>3, <3>4, <4>2, <4>3, <4>5
        <5> QED BY <3>2, <5>1 DEF Heads
      <4> QED BY <3>2, <3>4, <4>3, <4>4, <4>5
    <3>6. CASE ~Decided(o)
      <4>1. \A s \in ledger' : s.opp = o => s = n
        BY <3>3, <3>6 DEF Decided
      <4>2. \A s \in ledger' : s.opp = o => s.born <= n.born
        BY <3>2, <3>4, <4>1
      <4> QED BY <3>2, <4>2 DEF Heads
    <3> QED BY <3>5, <3>6
  <2> QED BY <2>1, <2>2
<1>3. ASSUME NEW c \in Clients, Writes(c) PROVE HasHead'
  BY <1>2, <1>3 DEF HasHead
<1> QED BY <1>1, <1>3, ProceedsIs DEF IsAKnownStep, Rests, Displays, Drops, Sends

LEMMA SentStep ==
    ASSUME IInv, CallsAndTabs, IsAKnownStep PROVE SentAsSeen'
<1>1. /\ sync \in [Clients -> Sync] /\ SentAsSeen
      /\ Tabs \subseteq Clients /\ AutoRuns \subseteq Clients /\ Tabs \cap AutoRuns = {}
  BY WorkbenchAssumption DEF IInv, TypeOK
<1>2. CASE Rests
  BY <1>1, <1>2 DEF Rests, SentAsSeen
<1>3. ASSUME NEW t \in Tabs, Displays(t) PROVE SentAsSeen'
  BY <1>1, <1>3 DEF Displays, OtherTabsRest, SentAsSeen
<1>4. ASSUME NEW c \in Clients, sync' = [sync EXCEPT ![c] = NoSync], OtherTabsRest(c)
      PROVE  SentAsSeen'
  <2>1. /\ sync'[c].entries = {} /\ sync'[c].at = "idle"
        /\ \A d \in Clients : d # c => sync'[d] = sync[d]
    BY <1>1, <1>4, SyncTypes
  <2> QED BY <1>1, <1>4, <2>1 DEF OtherTabsRest, SentAsSeen
<1>5. ASSUME NEW c \in Clients, Proceeds(c), UNCHANGED tab PROVE SentAsSeen'
  <2>1. /\ sync'[c].entries = sync[c].entries /\ sync[c].at # "idle"
        /\ \A d \in Clients : d # c => sync'[d] = sync[d]
    BY <1>1, <1>5, ProceedsIs
  <2>2. sync'[c].at # "idle"
    BY <1>1, <1>5, <2>1 DEF Proceeds, Validates, Begins, Locks, Checks, Becomes, Sync
  <2> QED BY <1>1, <1>5, <2>1, <2>2 DEF SentAsSeen
<1>6. ASSUME NEW c \in Clients, Sends(c) PROVE SentAsSeen'
  <2>1. /\ \A d \in Clients : d # c => sync'[d] = sync[d]
        /\ sync'[c].at # "idle" /\ OtherTabsRest(c)
    BY <1>1, <1>6 DEF Sends
  <2>2. CASE SendsByItself(c)
    BY <1>1, <2>1, <2>2 DEF SendsByItself, SentAsSeen
  <2>3. CASE SendsFromTab(c)
    <3>1. \A e \in sync'[c].entries : e.expected = tab'[c].seen[e.opp]
      BY <2>3 DEF SendsFromTab
    <3> QED BY <1>1, <2>1, <2>3, <3>1 DEF SendsFromTab, OtherTabsRest, SentAsSeen
  <2> QED BY <1>6, <2>2, <2>3 DEF Sends
<1> QED BY <1>2, <1>3, <1>4, <1>5, <1>6 DEF IsAKnownStep, Drops, Writes

\* The locks keep what a tab's call compared with from being displaced.
LEMMA CheckedStep ==
    ASSUME IInv, CallsAndTabs, IsAKnownStep PROVE Checked'
<1>1. /\ sync \in [Clients -> Sync] /\ tab \in [Tabs -> Tab] /\ Checked /\ Locked
      /\ Tabs \subseteq Clients /\ AutoRuns \subseteq Clients /\ Tabs \cap AutoRuns = {}
  BY WorkbenchAssumption DEF IInv, TypeOK
<1>2. ledger' = ledger => \A o, id : IsHead(o, id)' <=> IsHead(o, id)
  BY DEF IsHead, Heads, Decided
<1>3. ASSUME ledger' = ledger, NEW c \in Clients,
             \A d \in Clients : d # c => sync'[d] = sync[d], sync'[c].at # "writing"
      PROVE  Checked'
  BY <1>1, <1>2, <1>3 DEF Checked
<1>4. CASE UNCHANGED <<ledger, sync>>
  BY <1>1, <1>2, <1>4 DEF Checked
<1>5. ASSUME NEW c \in Clients, Drops(c) PROVE Checked'
  <2>1. sync'[c].at = "idle" /\ \A d \in Clients : d # c => sync'[d] = sync[d]
    BY <1>1, <1>5, SyncTypes DEF Drops
  <2> QED BY <1>3, <1>5, <2>1 DEF Drops
<1>6. ASSUME NEW c \in Clients, Sends(c) PROVE Checked'
  BY <1>1, <1>3, <1>6 DEF Sends
<1>7. ASSUME NEW c \in Clients, Proceeds(c) PROVE Checked'
  <2>1. /\ ledger' = ledger /\ sync'[c].entries = sync[c].entries
        /\ \A d \in Clients : d # c => sync'[d] = sync[d]
        /\ sync'[c].at = "writing" => Checks(c)
    BY <1>1, <1>7, ProceedsIs
  <2>2. ASSUME c \in Tabs, Checks(c), NEW e \in sync[c].entries
        PROVE  IsHead(e.opp, e.expected)
    <3>1. e.opp \in Opportunities
      BY <1>1 DEF Sync, Entry
    <3>2. e.expected \in LocalIds \cup {NoId}
      BY <1>1, <2>2, <3>1 DEF IInv, SentAsSeen, Tab
    <3> QED BY <2>2, <3>2, LedgerAssumption DEF Checks, IsStale
  <2> QED BY <1>1, <1>2, <2>1, <2>2 DEF Checked
<1>8. ASSUME NEW c \in Clients, Writes(c), NEW t \in Tabs, sync'[t].at = "writing",
             NEW e \in sync'[t].entries
      PROVE  IsHead(e.opp, e.expected)'
  <2>1. sync'[c].at = "idle" /\ \A d \in Clients : d # c => sync'[d] = sync[d]
    BY <1>1, <1>8, SyncTypes DEF Writes
  <2>2. t # c /\ t \in Clients /\ sync'[t] = sync[t]
    BY <1>1, <1>8, <2>1
  <2>3. e.opp \in Opps(t) /\ e.opp \in Opportunities
    BY <1>1, <1>8, <2>2 DEF Opps, Sync, Entry
  <2>4. e.opp \notin Opps(c)
    BY <1>1, <1>8, <2>2, <2>3 DEF Writes, Locked
  <2>5. IsHead(e.opp, e.expected)
    BY <1>1, <1>8, <2>2 DEF Checked
  <2>6. /\ \A r : r \in Heads' /\ r.opp = e.opp <=> r \in Heads /\ r.opp = e.opp
        /\ Decided(e.opp)' <=> Decided(e.opp)
    BY <1>8, <2>3, <2>4, WritesAside
  <2> QED BY <2>5, <2>6 DEF IsHead
<1>9. ASSUME NEW c \in Clients, Writes(c) PROVE Checked'
  BY <1>8, <1>9 DEF Checked
<1> QED BY <1>4, <1>5, <1>6, <1>7, <1>9 DEF IsAKnownStep, Rests, Displays

\* A tab learns of stored decisions, or has stored them, before it begins the
\* next transaction; and a row keeps its id and its time.
LEMMA SeenStep ==
    ASSUME IInv, CallsAndTabs, IsAKnownStep PROVE SeenIsStored'
<1>1. /\ sync \in [Clients -> Sync] /\ tab \in [Tabs -> Tab] /\ Tabs \subseteq Clients
      /\ ledger \subseteq Row /\ clock \in Nat /\ Tabs \cap AutoRuns = {}
  BY WorkbenchAssumption DEF IInv, TypeOK
<1>2. \A r \in ledger : \E s \in ledger' : s.id = r.id /\ s.born = r.born
  BY LedgerAfter, ProceedsIs DEF IsAKnownStep, Rests, Displays, Drops, Sends, Writes
<1>3. ASSUME NEW t \in Tabs, NEW o \in Opportunities, tab'[t].seen[o] # NoId
      PROVE  \E r \in ledger' : r.id = tab'[t].seen[o]
  <2>1. CASE tab'[t].seen[o] = tab[t].seen[o]
    <3>1. PICK r \in ledger : r.id = tab[t].seen[o]
      BY <1>3, <2>1 DEF IInv, SeenIsStored
    <3> QED BY <1>2, <2>1, <3>1
  <2>2. CASE tab'[t].seen[o] = LatestId(o)
    <3>1. PICK r \in Heads : r.id = LatestId(o)
      BY <1>3, <2>2, LatestIs
    <3> QED BY <1>2, <2>2, <3>1 DEF Heads
  <2>3. ASSUME NEW e \in sync[t].entries, Writes(t), tab'[t].seen[o] = e.id
        PROVE  \E r \in ledger' : r.id = tab'[t].seen[o]
    BY <1>1, <2>3, StoredIs DEF Writes, Upserts
  <2>4. \/ tab'[t].seen[o] \in {tab[t].seen[o], LatestId(o)}
        \/ \E e \in sync[t].entries : Writes(t) /\ tab'[t].seen[o] = e.id
    <3>1. ASSUME NEW u \in Tabs, Displays(u)
          PROVE  tab'[t].seen[o] \in {tab[t].seen[o], LatestId(o)}
      BY <3>1 DEF Displays, OtherTabsRest
    <3>2. ASSUME NEW c \in Clients, Drops(c) \/ Sends(c)
          PROVE  tab'[t].seen[o] = tab[t].seen[o]
      BY <3>2 DEF Drops, Sends, SendsFromTab, SendsByItself, OtherTabsRest
    <3>3. ASSUME NEW c \in Clients, Writes(c)
          PROVE  \/ tab'[t].seen[o] = tab[t].seen[o]
                 \/ \E e \in sync[t].entries : Writes(t) /\ tab'[t].seen[o] = e.id
      BY <3>3 DEF Writes, OtherTabsRest
    <3> QED BY <3>1, <3>2, <3>3 DEF IsAKnownStep, Rests
  <2> QED BY <2>1, <2>2, <2>3, <2>4
<1>4. ASSUME NEW t \in Tabs, InTransaction(t)', NEW e \in sync'[t].entries,
             e.expected # NoId
      PROVE  \E r \in ledger' : r.id = e.expected /\ r.born < sync'[t].born
  <2>1. CASE InTransaction(t) /\ sync'[t].entries = sync[t].entries
             /\ sync'[t].born = sync[t].born
    <3>1. PICK r \in ledger : r.id = e.expected /\ r.born < sync[t].born
      BY <1>4, <2>1 DEF IInv, SeenIsStored
    <3> QED BY <1>2, <2>1, <3>1
  <2>2. CASE sync'[t].entries = sync[t].entries /\ sync'[t].born = clock + 1
    <3>1. e.expected = tab[t].seen[e.opp] /\ e.opp \in Opportunities
      BY <1>1, <1>4, <2>2 DEF IInv, SentAsSeen, Sync, Entry
    <3>2. PICK r \in ledger : r.id = e.expected
      BY <1>4, <3>1 DEF IInv, SeenIsStored
    <3>3. r.born \in Nat /\ r.born <= clock
      BY <1>1 DEF IInv, Times, Row
    <3>4. r.born < clock + 1 BY <1>1, <3>3
    <3> QED BY <1>2, <2>2, <3>2, <3>4
  <2>3. \/ InTransaction(t) /\ sync'[t].entries = sync[t].entries
              /\ sync'[t].born = sync[t].born
        \/ sync'[t].entries = sync[t].entries /\ sync'[t].born = clock + 1
    <3>1. CASE sync'[t] = sync[t]
      BY <1>4, <3>1 DEF InTransaction
    <3>2. ASSUME NEW c \in Clients, sync' = [sync EXCEPT ![c] = NoSync]
          PROVE  sync'[t] = sync[t]
      BY <1>1, <1>4, <3>2, SyncTypes DEF InTransaction
    <3>3. ASSUME NEW c \in Clients, Sends(c) PROVE sync'[t] = sync[t]
      BY <1>1, <1>4, <3>3 DEF Sends, InTransaction
    <3>4. ASSUME NEW c \in Clients, Proceeds(c), c # t PROVE sync'[t] = sync[t]
      BY <1>1, <3>4, ProceedsIs
    <3>5. CASE Proceeds(t)
      BY <1>1, <1>4, <3>5, ProceedsIs
    <3> QED BY <3>1, <3>2, <3>3, <3>4, <3>5
            DEF IsAKnownStep, Rests, Displays, Drops, Writes
  <2> QED BY <2>1, <2>2, <2>3
<1> QED BY <1>3, <1>4 DEF SeenIsStored

\* The queue a call was compared with stays with the call.
LEMMA OfferedStep ==
    ASSUME IInv, CallsAndTabs, IsAKnownStep PROVE Offered' /\ AcceptedWasOffered'
<1>1. sync \in [Clients -> Sync] /\ Offered /\ AcceptedWasOffered
  BY DEF IInv, TypeOK
<1>2. ASSUME sync' = sync PROVE Offered'
  BY <1>1, <1>2 DEF Offered, IsReady
<1>3. ASSUME NEW c \in Clients, \A d \in Clients : d # c => sync'[d] = sync[d],
             sync'[c].at \notin {"valid", "locking", "writing"}
      PROVE  Offered'
  BY <1>1, <1>3 DEF Offered, IsReady
<1>4. ASSUME NEW c \in Clients, sync' = [sync EXCEPT ![c] = NoSync] PROVE Offered'
  <2>1. sync'[c].at = "idle" /\ \A d \in Clients : d # c => sync'[d] = sync[d]
    BY <1>1, <1>4, SyncTypes
  <2> QED BY <1>3, <2>1
<1>5. ASSUME NEW c \in Clients, Sends(c) PROVE Offered'
  BY <1>1, <1>3, <1>5 DEF Sends
<1>6. ASSUME NEW c \in Clients, Proceeds(c) PROVE Offered'
  <2>1. /\ sync'[c].entries = sync[c].entries
        /\ \A d \in Clients : d # c => sync'[d] = sync[d]
        /\ sync'[c].at \in {"valid", "locking", "writing"} =>
              \/ Validates(c) /\ sync'[c].offered = queue
              \/ /\ sync[c].at \in {"valid", "locking"}
                 /\ sync'[c].offered = sync[c].offered
    BY <1>1, <1>6, ProceedsIs
  <2>2. CASE sync'[c].at \notin {"valid", "locking", "writing"}
    BY <1>3, <2>1, <2>2
  <2>3. CASE sync[c].at \in {"valid", "locking"} /\ sync'[c].offered = sync[c].offered
    BY <1>1, <2>1, <2>3 DEF Offered, IsReady
  <2>4. CASE Validates(c) /\ sync'[c].offered = queue
    <3>1. \A e \in sync[c].entries : e.choice = "accepted" =>
             IsReady(e.opp, queue[e.opp]) /\ e.text = TextIn[queue[e.opp]]
      BY <2>4 DEF Validates, IsAcceptable
    <3> QED BY <1>1, <2>1, <2>4, <3>1 DEF Offered, IsReady
  <2> QED BY <2>1, <2>2, <2>3, <2>4
<1>7. ASSUME ledger' = ledger PROVE AcceptedWasOffered'
  BY <1>1, <1>7 DEF AcceptedWasOffered, IsReady
<1>8. ASSUME NEW c \in Clients, Writes(c) PROVE AcceptedWasOffered'
  <2>1. ASSUME NEW e \in sync[c].entries, Stored(c, e).choice = "accepted"
        PROVE  /\ IsReady(Stored(c, e).opp, Stored(c, e).edition)
               /\ Stored(c, e).text = TextIn[Stored(c, e).edition]
    BY <1>1, <1>8, <2>1, StoredIs DEF Writes, Offered
  <2>2. \A r \in ledger' : r \in ledger \/ \E e \in sync[c].entries : r = Stored(c, e)
    BY <1>8, LedgerAfter DEF Writes
  <2> QED BY <1>1, <2>1, <2>2 DEF AcceptedWasOffered, IsReady
<1> QED BY <1>2, <1>4, <1>5, <1>6, <1>7, <1>8, ProceedsIs
        DEF IsAKnownStep, Rests, Displays, Drops, Writes, Sends

VersionType ==
    [by : Users, text : SUBSET Changes,
     print : [decisions : SUBSET Changes, certified : SUBSET LocalIds]]

ReviewInv ==
    /\ review \in [Requests -> Review] /\ versions \in Seq(VersionType)
    /\ VersionsMatch /\ OneHasLock /\ LookupStaysTrue /\ AnsweredAsReviewed

\* A request that has no answer yet goes on, takes the lock that is free, keeps
\* it, or finds no version of its own; the versions stay as they are.
LEMMA GoesOn ==
    ASSUME IInv, NEW r \in Requests, NEW s \in Review, Steps(r, s),
           versions' = versions, s.answer = 0,
           s.at \in {"looking", "inserting"} =>
              HasLock(r) \/ \A q \in Requests : ~HasLock(q),
           s.at = "inserting" => \A i \in DOMAIN versions :
              versions[i].by = s.by =>
                 versions[i].print # Fingerprint(s.applied, s.certified)
    PROVE  ReviewInv'
<1>1. /\ review \in [Requests -> Review] /\ versions \in Seq(VersionType)
      /\ VersionsMatch /\ OneHasLock /\ LookupStaysTrue /\ AnsweredAsReviewed
  BY DEF IInv, TypeOK, VersionType
<1>2. /\ review' \in [Requests -> Review] /\ review'[r] = s
      /\ \A q \in Requests : q # r => review'[q] = review[q]
  BY <1>1 DEF Steps
<1>3. VersionsMatch' /\ AnsweredAsReviewed'
  BY <1>1, <1>2 DEF VersionsMatch, AnsweredAsReviewed
<1>4. OneHasLock'
  BY <1>1, <1>2 DEF OneHasLock, HasLock
<1>5. LookupStaysTrue'
  BY <1>1, <1>2 DEF LookupStaysTrue
<1> QED BY <1>1, <1>2, <1>3, <1>4, <1>5 DEF ReviewInv

\* A request is given a version that is there, or was just made, with its text.
LEMMA GivenIs ==
    ASSUME IInv, NEW r \in Requests, NEW i \in DOMAIN versions', IsGiven(r, i),
           review[r].at \in {"looking", "inserting"},
           versions' \in Seq(VersionType), Len(versions') <= MaxVersions,
           DOMAIN versions \subseteq DOMAIN versions',
           \A j \in DOMAIN versions : versions'[j] = versions[j],
           \A j \in DOMAIN versions' : versions'[j].text = versions'[j].print.decisions,
           versions'[i].text = review[r].applied,
           versions' = versions \/ HasLock(r)
    PROVE  ReviewInv'
<1>1. /\ review \in [Requests -> Review] /\ versions \in Seq(VersionType)
      /\ VersionsMatch /\ OneHasLock /\ LookupStaysTrue /\ AnsweredAsReviewed
  BY DEF IInv, TypeOK, VersionType
<1>2. i \in 0..MaxVersions
  BY ReviewAssumption
<1>3. /\ review' \in [Requests -> Review]
      /\ \A q \in Requests : q # r => review'[q] = review[q]
      /\ review'[r].at = "idle"
      /\ review'[r].answer # 0 => /\ review'[r].answer = i
                                  /\ review'[r].applied = review[r].applied
  <2>1. review[r] \in Review
    BY <1>1
  <2>2. /\ [review[r] EXCEPT !.at = "idle", !.answer = i] \in Review
        /\ [review[r] EXCEPT !.at = "idle", !.answer = i].answer = i
        /\ [review[r] EXCEPT !.at = "idle", !.answer = i].at = "idle"
        /\ [review[r] EXCEPT !.at = "idle", !.answer = i].applied = review[r].applied
    BY <1>2, <2>1 DEF Review
  <2>3. NoReview \in Review /\ NoReview.at = "idle" /\ NoReview.answer = 0
    BY ReviewAssumption DEF NoReview, Review
  <2> QED BY <1>1, <2>2, <2>3 DEF IsGiven, Steps
<1>4. \A q \in Requests : q # r /\ review[q].answer # 0 =>
         review[q].answer \in DOMAIN versions
  BY <1>1 DEF VersionsMatch
<1>5. VersionsMatch'
  BY <1>1, <1>3, <1>4 DEF VersionsMatch
<1>6. AnsweredAsReviewed'
  BY <1>1, <1>3, <1>4 DEF AnsweredAsReviewed
<1>7. OneHasLock'
  BY <1>1, <1>3 DEF OneHasLock, HasLock
<1>8. LookupStaysTrue'
  <2>1. CASE versions' = versions
    BY <1>1, <1>3, <2>1 DEF LookupStaysTrue
  <2>2. CASE HasLock(r)
    BY <1>1, <1>3, <2>2 DEF LookupStaysTrue, OneHasLock, HasLock
  <2> QED BY <2>1, <2>2
<1> QED BY <1>3, <1>5, <1>6, <1>7, <1>8 DEF ReviewInv

\* A version is made by the request that has the lock, and only when no run has
\* its fingerprint.
LEMMA ReviewStep ==
    ASSUME IInv, [Next]_vars PROVE ReviewInv'
<1>1. /\ review \in [Requests -> Review] /\ versions \in Seq(VersionType)
      /\ VersionsMatch /\ OneHasLock /\ LookupStaysTrue /\ AnsweredAsReviewed
      /\ ledger \subseteq Row
  BY DEF IInv, TypeOK, VersionType
<1>2. CASE UNCHANGED <<review, versions>>
  BY <1>1, <1>2 DEF ReviewInv, VersionsMatch, OneHasLock, HasLock, LookupStaysTrue,
                    AnsweredAsReviewed
<1>3. NoReview \in Review /\ NoReview.answer = 0 /\ NoReview.at = "idle"
  BY ReviewAssumption DEF NoReview, Review
<1>4. ASSUME NEW r \in Requests, Steps(r, NoReview), versions' = versions
      PROVE  ReviewInv'
  BY <1>3, <1>4, GoesOn
<1>5. ASSUME NEW r \in Requests, LoadsDecisions(r) PROVE ReviewInv'
  <2>1. Heads \subseteq Row
    BY <1>1 DEF Heads
  <2>2. PICK u \in Users :
           Steps(r, [NoReview EXCEPT !.at = "loaded", !.by = u, !.heads = Heads])
    BY <1>5 DEF LoadsDecisions
  <2> DEFINE s == [NoReview EXCEPT !.at = "loaded", !.by = u, !.heads = Heads]
  <2>3. s \in Review /\ s.answer = 0 /\ s.at = "loaded"
    BY <1>3, <2>1 DEF NoReview, Review
  <2>4. Steps(r, s)
    BY <2>2
  <2> HIDE DEF s
  <2> QED BY <1>5, <2>3, <2>4, GoesOn DEF LoadsDecisions
<1>6. ASSUME NEW r \in Requests, Certifies(r) PROVE ReviewInv'
  <2>1. CASE Steps(r, NoReview)
    BY <1>4, <1>6, <2>1 DEF Certifies
  <2> DEFINE heads == review[r].heads
             applied == {Change(d) : d \in {d \in heads : IsApplicable(d)}}
             certified == {d.id : d \in {h \in heads : h.opp \in ReadyNow}}
             s == [review[r] EXCEPT !.at = "applying", !.heads = {},
                                    !.applied = applied, !.certified = certified]
  <2>2. CASE Steps(r, s)
    <3>1. review[r] \in Review /\ heads \subseteq Row
      BY <1>1 DEF Review
    <3>2. applied \subseteq Changes /\ certified \subseteq LocalIds
      BY <3>1 DEF Change, Changes, Row
    <3>3. review[r].answer = 0
      BY <1>1, <1>6 DEF Certifies, VersionsMatch
    <3> HIDE DEF applied, certified
    <3>4. s \in Review /\ s.answer = 0 /\ s.at = "applying"
      BY <3>1, <3>2, <3>3 DEF Review
    <3> HIDE DEF s
    <3> QED BY <1>6, <2>2, <3>4, GoesOn DEF Certifies
  <2> QED BY <1>6, <2>1, <2>2 DEF Certifies
<1>7. ASSUME NEW r \in Requests, LocksManuscript(r) \/ FindsNone(r) PROVE ReviewInv'
  <2>1. review[r] \in Review /\ review[r].answer = 0
    BY <1>1, <1>7 DEF LocksManuscript, MayLook, FindsNone, VersionsMatch
  <2>2. CASE LocksManuscript(r)
    <3> DEFINE s == [review[r] EXCEPT !.at = "looking"]
    <3>1. s \in Review /\ s.answer = 0 /\ s.at = "looking"
      BY <2>1 DEF Review
    <3>2. Steps(r, s) /\ versions' = versions /\ \A q \in Requests : ~HasLock(q)
      BY <2>2 DEF LocksManuscript, MayLook
    <3> HIDE DEF s
    <3> QED BY <3>1, <3>2, GoesOn
  <2>3. CASE FindsNone(r)
    <3> DEFINE s == [review[r] EXCEPT !.at = "inserting"]
    <3>1. /\ s \in Review /\ s.answer = 0 /\ s.at = "inserting" /\ s.by = review[r].by
          /\ s.applied = review[r].applied /\ s.certified = review[r].certified
      BY <2>1 DEF Review
    <3>2. Steps(r, s) /\ versions' = versions /\ HasLock(r)
      BY <2>3 DEF FindsNone, HasLock
    <3>3. \A i \in DOMAIN versions : versions[i].by = review[r].by =>
             versions[i].print # Fingerprint(review[r].applied, review[r].certified)
      BY <2>3 DEF FindsNone, AppliedBefore
    <3> HIDE DEF s
    <3> QED BY <3>1, <3>2, <3>3, GoesOn
  <2> QED BY <1>7, <2>2, <2>3
<1>8. ASSUME NEW r \in Requests, FindsVersion(r) PROVE ReviewInv'
  <2>1. PICK i \in AppliedBefore(r) : IsGiven(r, i)
    BY <1>8 DEF FindsVersion
  <2>2. versions[i].text = review[r].applied /\ i \in DOMAIN versions
    BY <1>1, <2>1 DEF AppliedBefore, VersionsMatch, Fingerprint
  <2>3. versions' = versions /\ review[r].at = "looking"
    BY <1>8 DEF FindsVersion
  <2>4. \A j \in DOMAIN versions : versions[j].text = versions[j].print.decisions
    BY <1>1 DEF VersionsMatch
  <2> QED BY <1>1, <2>1, <2>2, <2>3, <2>4, GivenIs DEF VersionsMatch
<1>9. ASSUME NEW r \in Requests, InsertsVersion(r) PROVE ReviewInv'
  <2> DEFINE print == Fingerprint(review[r].applied, review[r].certified)
             made == [by |-> review[r].by, text |-> review[r].applied, print |-> print]
  <2>1. /\ review[r] \in Review /\ review[r].by \in Users
        /\ review[r].applied \subseteq Changes /\ review[r].certified \subseteq LocalIds
    BY <1>1 DEF Review
  <2>2. made \in VersionType /\ made.text = review[r].applied
        /\ made.print.decisions = review[r].applied
    BY <2>1 DEF VersionType, Fingerprint
  <2>3. CASE AppliedBefore(r) # {}
    BY <1>4, <1>9, <2>3 DEF InsertsVersion
  <2>4. CASE AppliedBefore(r) = {}
    <3> DEFINE i == Len(versions) + 1
    <3>1. /\ versions' = Append(versions, made) /\ IsGiven(r, i)
          /\ Len(versions) < MaxVersions /\ review[r].at = "inserting"
      BY <1>9, <2>4 DEF InsertsVersion
    <3> HIDE DEF made
    <3>2. /\ versions' \in Seq(VersionType) /\ Len(versions') <= MaxVersions
          /\ DOMAIN versions \subseteq DOMAIN versions'
          /\ \A j \in DOMAIN versions : versions'[j] = versions[j]
          /\ \A j \in DOMAIN versions' : j \in DOMAIN versions \/ versions'[j] = made
          /\ i \in DOMAIN versions' /\ versions'[i] = made
      BY <1>1, <2>2, <3>1, ReviewAssumption
    <3>3. \A j \in DOMAIN versions' : versions'[j].text = versions'[j].print.decisions
      BY <1>1, <2>2, <3>2 DEF VersionsMatch
    <3>4. HasLock(r)
      BY <3>1 DEF HasLock
    <3> HIDE DEF i
    <3> QED BY <2>2, <3>1, <3>2, <3>3, <3>4, GivenIs
  <2> QED BY <2>3, <2>4
<1>10. ASSUME NEW r \in Requests, ApplyFails(r) PROVE ReviewInv'
  BY <1>4, <1>10 DEF ApplyFails
<1>11. CASE \E r \in Requests : ReviewNext(r)
  BY <1>5, <1>6, <1>7, <1>8, <1>9, <1>10, <1>11 DEF ReviewNext
<1> QED BY <1>2, <1>11 DEF Next, vars

LEMMA Initially == Init => IInv
<1> SUFFICES ASSUME Init PROVE IInv
  OBVIOUS
<1> USE DEF Init, LedgerInit, WorkbenchInit
<1>1. /\ ledger = {} /\ clock = 0 /\ versions = <<>> /\ undone = {}
      /\ sync = [c \in Clients |-> NoSync] /\ tab = [t \in Tabs |-> NewTab]
      /\ review = [r \in Requests |-> NoReview] /\ queue \in [Opportunities -> Editions]
  OBVIOUS
<1>2. /\ sync \in [Clients -> Sync]
      /\ \A c \in Clients : /\ sync[c].entries = {} /\ sync[c].locks = {}
                            /\ sync[c].at = "idle"
  <2>1. NoSync \in Sync /\ NoSync.entries = {} /\ NoSync.locks = {} /\ NoSync.at = "idle"
    BY SyncTypes
  <2>2. \A c \in Clients : sync[c] = NoSync
    BY <1>1
  <2>3. sync \in [Clients -> Sync]
    BY <1>1, <2>1
  <2> QED BY <2>1, <2>2, <2>3
<1>3. /\ tab \in [Tabs -> Tab]
      /\ \A t \in Tabs : /\ tab[t].failed = {} /\ tab[t].reloading = FALSE
                         /\ \A o \in Opportunities : tab[t].seen[o] = NoId
  BY <1>1 DEF NewTab, Tab
<1>4. /\ review \in [Requests -> Review]
      /\ \A r \in Requests : review[r].answer = 0 /\ review[r].at = "idle"
  BY <1>1, ReviewAssumption DEF NoReview, Review
<1>5. Tabs \subseteq Clients /\ AutoRuns \subseteq Clients
      /\ \A o, p \in Opportunities : TrustedPathId[o] = TrustedPathId[p] => o = p
  BY WorkbenchAssumption
<1>6. TypeOK
  BY <1>1, <1>2, <1>3, <1>4, LedgerAssumption DEF TypeOK
<1>7. OneOppPerId /\ OneEntryPerOpp /\ OwnIds
  BY <1>1, <1>2, <1>3, <1>5 DEF OneOppPerId, Names, OneEntryPerOpp, OwnIds, TabEntries
<1>8. HasHead /\ Times /\ Locked /\ Checked /\ SentAsSeen /\ SeenIsStored
  BY <1>1, <1>2, <1>3, <1>5
     DEF HasHead, Decided, Times, InTransaction, Locked, Checked, SentAsSeen,
         SeenIsStored
<1>9. Offered /\ AcceptedWasOffered
  BY <1>1, <1>2 DEF Offered, AcceptedWasOffered
<1>10. VersionsMatch /\ OneHasLock /\ LookupStaysTrue /\ AnsweredAsReviewed
  BY <1>1, <1>4, ReviewAssumption
     DEF VersionsMatch, OneHasLock, HasLock, LookupStaysTrue, AnsweredAsReviewed
<1> QED BY <1>6, <1>7, <1>8, <1>9, <1>10 DEF IInv

LEMMA Inductive == IInv /\ [Next]_vars => IInv'
<1> SUFFICES ASSUME IInv, [Next]_vars PROVE IInv'
  OBVIOUS
<1>1. CallsAndTabs /\ IsAKnownStep
  BY StepIs
<1>2. ReviewInv'
  BY ReviewStep
<1>3. TypeOK'
  BY <1>1, <1>2, LedgerTypes DEF CallsAndTabs, ReviewInv, VersionType, TypeOK
<1>4. OneOppPerId' /\ OneEntryPerOpp' /\ OwnIds'
  BY <1>1, OneOppStep, OneEntryStep, OwnIdsStep
<1>5. HasHead' /\ Times' /\ Locked' /\ Checked' /\ SentAsSeen' /\ SeenIsStored'
  BY <1>1, HasHeadStep, TimesStep, LockedStep, CheckedStep, SentStep, SeenStep
<1>6. Offered' /\ AcceptedWasOffered'
  BY <1>1, OfferedStep
<1> QED BY <1>2, <1>3, <1>4, <1>5, <1>6 DEF IInv, ReviewInv

-----------------------------------------------------------------------------
(* Theorems                                                                *)

THEOREM Invariant == Spec => []IInv
  BY Initially, Inductive, PTL DEF Spec

\* Every variable keeps its shape, a local id names one stored decision, and
\* two decisions on an opportunity were made at different times.
THEOREM TypeCorrect == Spec => []TypeOK
<1>1. IInv => TypeOK
  BY DEF IInv
<1> QED BY <1>1, Invariant, PTL

\* An accepted text is stored with the edition that offered it.
THEOREM AcceptedOffered == Spec => []AcceptedWasOffered
<1>1. IInv => AcceptedWasOffered
  BY DEF IInv
<1> QED BY <1>1, Invariant, PTL

\* What a request has looked up is still so when it inserts.
THEOREM LookupHolds == Spec => []LookupStaysTrue
<1>1. IInv => LookupStaysTrue
  BY DEF IInv
<1> QED BY <1>1, Invariant, PTL

\* Whoever is answered has the text that was reviewed.
THEOREM Answered == Spec => []AnsweredAsReviewed
<1>1. IInv => AnsweredAsReviewed
  BY DEF IInv
<1> QED BY <1>1, Invariant, PTL

\* A tab's decision takes the place only of the one the tab had seen.  Its own
\* write is of an entry that was compared and has been locked since; another's
\* write stores no row of its name, and makes no old row the latest.
THEOREM Displaces == Spec => DisplacesWhatItSaw
<1> DEFINE A(t, o) ==
       o \in Opps(t) /\ (\E r \in Heads' \ Heads : r.opp = o /\ r.id # LatestId(o)
                              /\ \E e \in sync[t].entries : e.id = r.id)
       => LatestId(o) = tab[t].seen[o]
<1>1. ASSUME IInv, [Next]_vars, NEW t \in Tabs, NEW o \in Opportunities PROVE A(t, o)
  <2> SUFFICES ASSUME o \in Opps(t), NEW r \in Heads' \ Heads, r.opp = o,
                      NEW e \in sync[t].entries, e.id = r.id
               PROVE  LatestId(o) = tab[t].seen[o]
    OBVIOUS
  <2>1. /\ Tabs \subseteq Clients /\ AutoRuns \subseteq Clients
        /\ Clients = Tabs \cup AutoRuns
    BY WorkbenchAssumption
  <2>2. CASE ledger' = ledger
    BY <2>2 DEF Heads
  <2>3. ASSUME NEW c \in Clients, Writes(c), c = t PROVE LatestId(o) = tab[t].seen[o]
    <3>1. PICK f \in sync[t].entries : f.opp = o
      BY DEF Opps
    <3>2. IsHead(o, f.expected) /\ f.expected = tab[t].seen[o]
      BY <1>1, <2>3, <3>1 DEF Writes, IInv, Checked, SentAsSeen
    <3>3. f.expected \in LocalIds \cup {NoId}
      BY <1>1, <3>2 DEF IInv, TypeOK, Tab
    <3> QED BY <1>1, <3>2, <3>3, LatestIs
  <2>4. ASSUME NEW c \in Clients, Writes(c), c # t PROVE FALSE
    <3>1. r \in ledger' /\ \A s \in ledger' : s.opp = o => s.born <= r.born
      BY DEF Heads
    <3>2. r \notin ledger
      <4>1. ASSUME NEW k \in ledger, k.opp = o PROVE k.born <= r.born
        <5>1. PICK s \in ledger' : s.opp = o /\ s.born = k.born
          BY <1>1, <2>4, <4>1, LedgerAfter DEF Writes
        <5> QED BY <3>1, <5>1
      <4> QED BY <4>1 DEF Heads
    <3>3. PICK f \in sync[c].entries : r = Stored(c, f)
      BY <1>1, <2>4, <3>1, <3>2, LedgerAfter DEF Writes
    <3>4. f.id = e.id
      BY <1>1, <2>4, <3>3, StoredIs DEF Writes
    <3>5. CASE c \in Tabs
      BY <1>1, <2>4, <3>4, <3>5 DEF IInv, OwnIds, TabEntries
    <3>6. CASE c \in AutoRuns
      <4>1. f.id \in AutoIdSet
        BY <1>1, <2>1, <3>6 DEF IInv, OwnIds, TypeOK, Sync, Entry, AutoIdSet
      <4> QED BY <1>1, <3>4, <4>1 DEF IInv, OwnIds, TabEntries
    <3> QED BY <2>1, <3>5, <3>6
  <2>5. IsAKnownStep
    BY <1>1, StepIs
  <2> QED BY <1>1, <2>2, <2>3, <2>4, <2>5, ProceedsIs
          DEF IsAKnownStep, Rests, Displays, Drops, Sends
<1>2. IInv /\ [Next]_vars => [\A t \in Tabs, o \in Opportunities : A(t, o)]_vars
  BY <1>1
<1> QED BY <1>2, Invariant, PTL DEF Spec, DisplacesWhatItSaw
-----------------------------------------------------------------------------
(* The calls are atomic                                                    *)

LEMMA LatestNext ==
    ASSUME IInv', NEW o \in Opportunities, NEW r \in Heads', r.opp = o
    PROVE  LatestId(o)' = r.id
<1>1. ASSUME NEW s \in Heads', s.opp = o, s # r PROVE FALSE
  <2>1. /\ r \in ledger' /\ s \in ledger' /\ r.born \in Nat /\ s.born \in Nat
        /\ r.born # s.born
    BY <1>1 DEF Heads, IInv, TypeOK, Row
  <2>2. r.born <= s.born /\ s.born <= r.born
    BY <1>1 DEF Heads
  <2> QED BY <2>1, <2>2
<1>2. Decided(o)' BY DEF Decided, Heads
<1> QED BY <1>1, <1>2 DEF LatestId

\* The rows of an opportunity after a write: the old ones by id and time, and
\* that of the entry.
LEMMA RowsAfter ==
    ASSUME IInv, NEW c \in Clients, Writes(c), NEW e \in sync[c].entries
    PROVE  /\ Stored(c, e) \in ledger'
           /\ \A r \in ledger' : r.opp = e.opp => r \in ledger \/ r = Stored(c, e)
<1>1. Stored(c, e) \in ledger' BY DEF Writes, Upserts
<1>2. ASSUME NEW f \in sync[c].entries, Stored(c, f).opp = e.opp PROVE f = e
  BY <1>2, StoredIs DEF Writes, IInv, OneEntryPerOpp
<1> QED BY <1>1, <1>2, LedgerAfter DEF Writes

\* A decision that is entered again under its id leaves the order as it was.
LEMMA KnownKeeps ==
    ASSUME IInv, IInv', NEW c \in Clients, Writes(c), NEW e \in sync[c].entries,
           NEW k \in ledger, k.id = e.id
    PROVE  LatestId(e.opp)' = LatestId(e.opp)
<1>1. k.opp = e.opp /\ Stored(c, e).born = k.born /\ e.opp \in Opportunities
  BY StoredIs DEF Writes, IInv, TypeOK, Sync, Entry
<1>2. PICK h \in Heads : h.opp = e.opp
  BY <1>1 DEF IInv, HasHead, Decided
<1>3. h \in ledger /\ \A s \in ledger : s.opp = e.opp => s.born <= h.born
  BY <1>2 DEF Heads
<1>4. PICK g \in ledger' : g.id = h.id /\ g.opp = e.opp /\ g.born = h.born
  BY <1>2, <1>3, LedgerAfter DEF Writes
<1>5. \A s \in ledger' : s.opp = e.opp => s.born <= g.born
  BY <1>1, <1>3, <1>4, RowsAfter
<1>6. g \in Heads' BY <1>4, <1>5 DEF Heads
<1>7. LatestId(e.opp)' = g.id BY <1>1, <1>4, <1>6, LatestNext
<1> QED BY <1>1, <1>2, <1>4, <1>7, LatestIs

\* A decision under a new id is the latest or has come too late.
LEMMA NewLeads ==
    ASSUME IInv, IInv', NEW c \in Clients, Writes(c), NEW e \in sync[c].entries,
           \A k \in ledger : k.id # e.id
    PROVE  \/ LatestId(e.opp)' = e.id
           \/ /\ c \notin Tabs
              /\ LatestId(e.opp)' = LatestId(e.opp)
<1> DEFINE n == Stored(c, e)
<1>1. /\ e.opp \in Opportunities /\ n.id = e.id /\ n.opp = e.opp
      /\ n.born = sync[c].born
  BY StoredIs DEF Writes, IInv, TypeOK, Sync, Entry
<1>2. n \in ledger' /\ \A r \in ledger' : r.opp = e.opp => r \in ledger \/ r = n
  BY RowsAfter
<1> HIDE DEF n
<1>3. PICK h \in Heads' : h.opp = e.opp
  BY <1>1, <1>2 DEF IInv, HasHead, Decided
<1>4. LatestId(e.opp)' = h.id BY <1>1, <1>3, LatestNext
<1>5. h \in ledger' /\ \A s \in ledger' : s.opp = e.opp => s.born <= h.born
  BY <1>3 DEF Heads
<1>6. CASE h = n BY <1>1, <1>4, <1>6
<1>7. ASSUME h \in ledger, c \in Tabs PROVE FALSE
  <2>1. /\ IsHead(e.opp, e.expected)
        /\ e.expected # NoId =>
              \E r \in ledger : r.id = e.expected /\ r.born < sync[c].born
    BY <1>7 DEF Writes, IInv, Checked, SeenIsStored, InTransaction
  <2>2. e.expected # NoId BY <1>3, <1>7, <2>1 DEF IsHead, Decided
  <2>3. PICK g \in Heads : g.opp = e.opp /\ g.id = e.expected
    BY <2>1, <2>2 DEF IsHead
  <2>4. PICK r \in ledger : r.id = e.expected /\ r.born < sync[c].born
    BY <2>1, <2>2
  <2>5. g = r BY <2>3, <2>4 DEF Heads, IInv, TypeOK
  <2>6. h.born <= g.born /\ n.born <= h.born
    BY <1>1, <1>2, <1>3, <1>5, <1>7, <2>3 DEF Heads
  <2>7. h.born \in Nat /\ g.born \in Nat /\ n.born \in Nat
    BY <1>1, <1>7, <2>3, <2>4, <2>5 DEF IInv, TypeOK, Row, Sync
  <2> QED BY <1>1, <2>4, <2>5, <2>6, <2>7
<1>8. CASE h \in ledger
  <2>1. ASSUME NEW s \in ledger, s.opp = e.opp PROVE s.born <= h.born
    <3>1. PICK g \in ledger' : g.opp = e.opp /\ g.born = s.born
      BY <2>1, LedgerAfter DEF Writes
    <3> QED BY <1>5, <3>1
  <2>2. h \in Heads BY <1>3, <1>8, <2>1 DEF Heads
  <2> QED BY <1>1, <1>3, <1>4, <1>7, <1>8, <2>2, LatestIs
<1> QED BY <1>2, <1>3, <1>5, <1>6, <1>8

\* What a write does to the latest decisions.
LEMMA WriteIsEntry ==
    ASSUME IInv, IInv', NEW c \in Clients, Writes(c) PROVE Book!Enters(c)
<1> DEFINE D(r) == [id |-> r.id, opp |-> r.opp, choice |-> r.choice, text |-> r.text]
           E == sync[c].entries
<1>1. /\ sync \in [Clients -> Sync] /\ sync' \in [Clients -> Sync]
      /\ tab \in [Tabs -> Tab] /\ Clients = Tabs \cup AutoRuns
      /\ \A e \in E : e \in Entry /\ e.opp \in Opportunities
  BY WorkbenchAssumption DEF IInv, TypeOK, Sync, Entry
<1>2. ASSUME NEW e \in E PROVE Book!IsNew(e) <=> \A k \in ledger : k.id # e.id
  <2>1. Book!IsNew(e) <=> \A d \in {D(r) : r \in ledger} : d.id # e.id
    BY DEF Book!IsNew
  <2>2. \A r : D(r).id = r.id OBVIOUS
  <2> HIDE DEF D, E
  <2> QED BY <2>1, <2>2
<1>3. \A e \in E : e.expected \in {Unstated, LatestId(e.opp)}
  <2> SUFFICES ASSUME NEW e \in E PROVE e.expected \in {Unstated, LatestId(e.opp)}
    OBVIOUS
  <2>1. CASE c \in AutoRuns BY <2>1 DEF IInv, SentAsSeen
  <2>2. CASE c \in Tabs
    <3>1. IsHead(e.opp, e.expected) BY <2>2 DEF Writes, IInv, Checked
    <3>2. e.expected \in LocalIds \cup {NoId, Unstated} BY <1>1 DEF Entry
    <3> QED BY <1>1, <3>1, <3>2, LatestIs
  <2> QED BY <1>1, <2>1, <2>2
<1>4. ASSUME NEW e \in E, e.expected # Unstated, Book!IsNew(e)
      PROVE  LatestId(e.opp)' = e.id
  <2>1. c \in Tabs BY <1>1, <1>4 DEF IInv, SentAsSeen
  <2> QED BY <1>2, <1>4, <2>1, NewLeads
<1>5. ASSUME NEW o \in Opportunities
      PROVE  \/ LatestId(o)' = LatestId(o)
             \/ \E e \in E : e.opp = o /\ Book!IsNew(e) /\ LatestId(o)' = e.id
  <2>1. CASE o \notin Opps(c)
    <3>1. /\ \A r : r \in Heads' /\ r.opp = o <=> r \in Heads /\ r.opp = o
          /\ Decided(o)' <=> Decided(o)
      BY <2>1, WritesAside
    <3>2. CASE Decided(o)
      <4>1. PICK h \in Heads : h.opp = o BY <3>2 DEF IInv, HasHead
      <4> QED BY <3>1, <4>1, LatestIs, LatestNext
    <3>3. CASE ~Decided(o) BY <3>1, <3>3 DEF LatestId
    <3> QED BY <3>2, <3>3
  <2>2. ASSUME NEW e \in E, e.opp = o
        PROVE  \/ LatestId(o)' = LatestId(o)
               \/ Book!IsNew(e) /\ LatestId(o)' = e.id
    BY <1>2, <2>2, KnownKeeps, NewLeads
  <2> QED BY <2>1, <2>2 DEF Opps
<1>6. {D(r) : r \in ledger'} =
         {d \in {D(r) : r \in ledger} : \A e \in E : e.id # d.id}
            \cup {Book!Decision(e) : e \in E}
  <2>1. \A e \in E : D(Stored(c, e)) = Book!Decision(e)
    BY StoredIs DEF Writes, Book!Decision
  <2>2. ledger' = {r \in ledger : \A e \in E : e.id # r.id} \cup {Stored(c, e) : e \in E}
    BY DEF Writes, Upserts
  <2> HIDE DEF E
  <2>3. {D(r) : r \in ledger'} = {D(r) : r \in {r \in ledger : \A e \in E : e.id # r.id}}
                                    \cup {D(Stored(c, e)) : e \in E}
    BY <2>2
  <2>4. {D(r) : r \in {r \in ledger : \A e \in E : e.id # r.id}} =
           {d \in {D(r) : r \in ledger} : \A e \in E : e.id # d.id}
    OBVIOUS
  <2>5. {D(Stored(c, e)) : e \in E} = {Book!Decision(e) : e \in E}
    BY <2>1
  <2> QED BY <2>3, <2>4, <2>5
<1>7. /\ sync'[c].entries = {}
      /\ \A d \in Clients \ {c} : sync'[d].entries = sync[d].entries
  BY <1>1, SyncTypes DEF Writes
<1> QED BY <1>1, <1>3, <1>4, <1>5, <1>6, <1>7 DEF Book!Enters, Book!OthersWait

\* For any clients and opportunities, the calls are atomic as DecisionBook says.
\* Only the write moves the book: the locks keep what was compared (Checked), a
\* new row of a tab is younger than the one it displaces (SeenIsStored), and a
\* known one keeps its place (KnownKeeps).
THEOREM CallsAreAtomic == Spec => SyncsAreAtomic
<1>1. Init => Book!Init
  <2> SUFFICES ASSUME Init PROVE Book!Init OBVIOUS
  <2>1. ledger = {} /\ \A c \in Clients : sync[c].entries = {}
    BY SyncTypes DEF Init, LedgerInit
  <2>2. \A o \in Opportunities : LatestId(o) = NoId
    BY <2>1 DEF LatestId, Decided
  <2> QED BY <2>1, <2>2 DEF Book!Init
<1>2. IInv /\ [Next]_vars => [Book!Next]_(Book!book)
  <2> SUFFICES ASSUME IInv, [Next]_vars PROVE [Book!Next]_(Book!book) OBVIOUS
  <2>1. CallsAndTabs /\ IsAKnownStep /\ IInv' BY StepIs, Inductive
  <2>2. sync \in [Clients -> Sync] /\ sync' \in [Clients -> Sync]
    BY <2>1 DEF IInv, TypeOK
  <2>3. ledger' = ledger => \A o \in Opportunities : LatestId(o)' = LatestId(o)
    BY DEF LatestId, Decided, Heads
  <2>4. CASE ledger' = ledger /\ sync' = sync
    BY <2>3, <2>4 DEF Book!book
  <2>5. ASSUME NEW c \in Clients, ledger' = ledger,
               \A d \in Clients : d # c => sync'[d] = sync[d]
        PROVE  Book!Asks(c)
    <3>1. sync'[c].entries \subseteq Entry BY <2>2 DEF Sync
    <3> QED BY <2>2, <2>3, <2>5, <3>1 DEF Book!Asks, Book!OthersWait
  <2>6. ASSUME NEW c \in Clients, Drops(c) \/ Sends(c) \/ Proceeds(c)
        PROVE  Book!Asks(c)
    <3>1. ledger' = ledger /\ \A d \in Clients : d # c => sync'[d] = sync[d]
      BY <2>2, <2>6, ProceedsIs DEF Drops, Sends
    <3> QED BY <2>5, <3>1
  <2>7. ASSUME NEW c \in Clients, Writes(c) PROVE Book!Enters(c)
    BY <2>1, <2>7, WriteIsEntry
  <2> QED BY <2>1, <2>4, <2>6, <2>7 DEF Book!Next, IsAKnownStep, Rests, Displays
<1> QED BY <1>1, <1>2, Invariant, PTL DEF Spec, SyncsAreAtomic, Book!Spec
=============================================================================
