------------------------ MODULE ReconstructionWorkers ------------------------
(***************************************************************************)
(* The held-recovery part of a cron tick: the continuation (heldRecovery-  *)
(* ReconstructionProductionCaller.ts) with its reconstruction worker       *)
(* (heldRecoveryReconstructionWorker.ts).  A run looks for completed work  *)
(* to resume; if there is none it claims an item, locates its anchor while *)
(* a heartbeat renews the lease, and completes, fails or supersedes the    *)
(* item.  With completed work it re-admits the opportunity and advances    *)
(* the held item's authority.                                              *)
(*                                                                         *)
(* The initiation comes first in the same tick, and when it throws the     *)
(* continuation is not reached.  It throws for a held item whose version   *)
(* has moved on from the one its authority is bound to, but not when no    *)
(* item is held or more than one: a run may start in any state, and only   *)
(* where the initiation passes (InitiationPasses) is it sure to.           *)
(*                                                                         *)
(* A call whose answer does not come ends the run; the call itself may     *)
(* have reached the database, may reach it later, or never.                *)
(***************************************************************************)
EXTENDS ReconstructionQueue, FiniteSets

CONSTANTS
    Workers,
    MaxAdrift        \* bound: calls without a run under way at once

ASSUME WorkersAssumption ==
    /\ Attempts # {}
    /\ MaxAdrift \in Nat

VARIABLES
    run,             \* what the current or last run of a worker remembers
    adrift           \* calls sent by runs that are no more

vars == <<version, handoff, earlier, item, authority, run, adrift>>

Calls == {"completing", "failing", "superseding"}

\* A run that may still speak for its claim.
Holding == {"working"} \cup Calls

Stages == {"done", "claiming", "readmitting"} \cup Holding

\* What a run reported of its item; a lost lease, a contract error and an
\* answer that did not come say nothing of it.
Results == {"none", "completed", "already_completed", "superseded",
            "failed_terminal"}

\* early: the lease had not run out when the pending call was sent.
RunState ==
    [at : Stages, item : Attempts, token : 0..MaxClaims,
     lost : BOOLEAN, early : BOOLEAN, result : Results]

Call == [at : Calls, item : Attempts, token : 0..MaxClaims, early : BOOLEAN]

NoRun == [at |-> "done", item |-> CHOOSE a \in Attempts : TRUE, token |-> 0,
          lost |-> FALSE, early |-> FALSE, result |-> "none"]

WorkersInit ==
    /\ run = [w \in Workers |-> NoRun]
    /\ adrift = {}

Init == QueueInit /\ WorkersInit

Becomes(w, r) == run' = [run EXCEPT ![w] = r]

\* Of a run that is over nothing is left but what it reported of its item.
Ends(w, result) ==
    Becomes(w, [NoRun EXCEPT !.item = run[w].item, !.result = result])

EndsWithout(w) == Becomes(w, NoRun)

Row(w) == item[run[w].item]

Pending(w) == [at |-> run[w].at, item |-> run[w].item, token |-> run[w].token,
               early |-> run[w].early]

SentCalls == {Pending(w) : w \in {v \in Workers : run[v].at \in Calls}} \cup adrift

MayBeLocked == {c.item : c \in SentCalls}

\* A call begins some time after it is sent.
InLease(a, early) == {early, item[a].lease = "live"}

-----------------------------------------------------------------------------
(* A run                                                                   *)

\* With two or more completed items the look-up throws, and nothing changes.
LooksUp(w) ==
    /\ run[w].at = "done"
    /\ \/ /\ Resumable = {}
          /\ Becomes(w, [NoRun EXCEPT !.at = "claiming"])
       \/ \E a \in Attempts :
             /\ Resumable = {a}
             /\ Becomes(w, [NoRun EXCEPT !.at = "readmitting", !.item = a,
                                        !.result = "already_completed"])
    /\ UNCHANGED <<queueVars, adrift>>

\* Nothing is due that another transaction may not have locked.
FindsNone(w) ==
    /\ run[w].at = "claiming"
    /\ {a \in Attempts : Due(a)} \subseteq MayBeLocked
    /\ EndsWithout(w)
    /\ UNCHANGED <<queueVars, adrift>>

Claim(w) ==
    /\ run[w].at = "claiming"
    /\ \E a \in Candidates(MayBeLocked), answered \in BOOLEAN :
          /\ Store(a, Claimed(item[a]))
          /\ Becomes(w, IF answered
                        THEN [NoRun EXCEPT !.at = "working", !.item = a,
                                           !.token = item[a].claims + 1]
                        ELSE NoRun)
    /\ UNCHANGED <<version, handoff, earlier, authority, adrift>>

\* A renewal that began before the lease ran out puts it back.
Renews(w) ==
    /\ run[w].at = "working" /\ ~run[w].lost
    /\ Holds(run[w].item, run[w].token, TRUE)
    /\ item' = [item EXCEPT ![run[w].item].lease = "live"]
    /\ UNCHANGED <<version, handoff, earlier, authority, run, adrift>>

\* The renewal is refused, or it throws.
LosesOwnership(w) ==
    /\ run[w].at = "working" /\ ~run[w].lost
    /\ Becomes(w, [run[w] EXCEPT !.lost = TRUE])
    /\ UNCHANGED <<queueVars, adrift>>

Sends(w, call) ==
    Becomes(w, [run[w] EXCEPT !.at = call,
                             !.early = call # "superseding" /\ Row(w).lease = "live"])

\* The reconstruction returns or throws, or says itself that the lease is lost.
Reconstructs(w) ==
    /\ run[w].at = "working"
    /\ \/ EndsWithout(w)
       \/ ~run[w].lost /\ (Sends(w, "completing") \/ Sends(w, "failing"))
    /\ UNCHANGED <<queueVars, adrift>>

CompleteAnswered(w) ==
    /\ run[w].at = "completing"
    /\ \E inLease \in InLease(run[w].item, run[w].early) :
          LET reply == CompleteReply(run[w].item, run[w].token, inLease)
          IN /\ Complete(run[w].item, run[w].token, inLease)
             /\ CASE reply = "completed" ->
                       Becomes(w, [NoRun EXCEPT !.at = "readmitting",
                                                !.item = run[w].item,
                                                !.result = "completed"])
                  [] reply = "rejected_stale"    -> Sends(w, "superseding")
                  [] reply = "already_completed" -> Ends(w, reply)
                  [] OTHER                       -> EndsWithout(w)
    /\ UNCHANGED <<version, handoff, earlier, authority, adrift>>

FailAnswered(w) ==
    /\ run[w].at = "failing"
    /\ \E inLease \in InLease(run[w].item, run[w].early) :
          LET reply == FailReply(run[w].item, run[w].token, inLease)
          IN /\ Fail(run[w].item, run[w].token, inLease)
             /\ IF reply = "lease_lost" THEN EndsWithout(w)
                                        ELSE Ends(w, "failed_terminal")
    /\ UNCHANGED <<version, handoff, earlier, authority, adrift>>

SupersedeAnswered(w) ==
    /\ run[w].at = "superseding"
    /\ Supersede(run[w].item)
    /\ IF SupersedeReply(run[w].item) = "rejected_terminal"
       THEN EndsWithout(w)
       ELSE Ends(w, "superseded")
    /\ UNCHANGED <<version, handoff, earlier, authority, adrift>>

\* The anchor is persisted and the opportunity re-admitted, neither of which
\* touches the queue, and the authority takes its first step, unless another run
\* has seen to it.
Recovers(w) ==
    /\ run[w].at = "readmitting"
    /\ LET h == HeldItemOf[run[w].item]
       IN /\ authority[h].state = "running"
          /\ authority' = [authority EXCEPT ![h].state = "recovered"]
    /\ UNCHANGED <<version, handoff, earlier, item, run, adrift>>

\* The workbench shows the opportunity's final card, and the authority is done.
Reclassifies(w) ==
    /\ run[w].at = "readmitting"
    /\ LET h == HeldItemOf[run[w].item]
       IN /\ authority[h].state \in {"recovered", "reclassified"}
          /\ authority' = [authority EXCEPT ![h].state = "reclassified"]
    /\ Ends(w, run[w].result)
    /\ UNCHANGED <<version, handoff, earlier, item, adrift>>

\* The function is killed, a call throws, or a check before a step of the
\* authority refuses.
Dies(w) ==
    /\ run[w].at # "done"
    /\ EndsWithout(w)
    /\ \/ adrift' = adrift
       \/ /\ run[w].at \in Calls /\ Cardinality(adrift) < MaxAdrift
          /\ adrift' = adrift \cup {Pending(w)}
    /\ UNCHANGED queueVars

Arrives(c) ==
    /\ adrift' = adrift \ {c}
    /\ \E inLease \in InLease(c.item, c.early) :
          \/ c.at = "completing"  /\ Complete(c.item, c.token, inLease)
          \/ c.at = "failing"     /\ Fail(c.item, c.token, inLease)
          \/ c.at = "superseding" /\ Supersede(c.item)
    /\ UNCHANGED <<version, handoff, earlier, authority, run>>

-----------------------------------------------------------------------------

\* What a run does by itself until it is over.
Proceeds(w) ==
    \/ Claim(w) \/ FindsNone(w)
    \/ Reconstructs(w)
    \/ CompleteAnswered(w) \/ FailAnswered(w) \/ SupersedeAnswered(w)
    \/ Recovers(w) \/ Reclassifies(w)
    \/ Dies(w)

WorkerNext(w) == LooksUp(w) \/ Renews(w) \/ LosesOwnership(w) \/ Proceeds(w)

InitiationNext ==
    \/ \E h \in HeldItems : VersionMoves(h) \/ LoadHeldItem(h)
    \/ \E a \in Attempts : BeginRecording(a) \/ RecordAttempt(a) \/ Initialize(a)

Next ==
    \/ InitiationNext /\ UNCHANGED <<run, adrift>>
    \/ \E a \in Attempts : LeaseExpires(a) /\ UNCHANGED <<run, adrift>>
    \/ \E w \in Workers : WorkerNext(w)
    \/ \E c \in adrift : Arrives(c)

Spec == Init /\ [][Next]_vars

\* No run is going that could renew the lease of a's item.
Unattended(a) ==
    \A w \in Workers : run[w].at = "working" => run[w].item # a

\* Cron starts a tick every few minutes, and where the initiation passes the
\* tick gets to the continuation; a run comes to its end within its function's
\* time limit; not every run that comes to its claim is killed before it or
\* finds what is due locked; and a lease nobody renews expires.
Fairness ==
    /\ \A w \in Workers :
          /\ WF_vars(InitiationPasses /\ LooksUp(w))
          /\ WF_vars(Proceeds(w))
          /\ SF_vars(Claim(w))
    /\ \A a \in Attempts :
          WF_vars(Unattended(a) /\ LeaseExpires(a) /\ UNCHANGED <<run, adrift>>)

FairSpec == Spec /\ Fairness

-----------------------------------------------------------------------------
(* Properties                                                              *)

\* Every variable keeps its shape, and an item has a token and a lease exactly
\* while it is running (the table's running_lease_consistency).
TypeOK ==
    /\ version \in [HeldItems -> Attempts]
    /\ handoff \in [Attempts -> {"none", "loaded", "begun", "recorded"}]
    /\ earlier \in [Attempts -> SUBSET Attempts]
    /\ item \in [Attempts -> WorkItem]
    /\ \A a \in Attempts : /\ item[a].status = "running" <=> item[a].token # 0
                           /\ item[a].status = "running" <=> item[a].lease # "none"
    /\ authority \in [HeldItems -> Authority]
    /\ \A h \in HeldItems :
          authority[h].state = "none" <=> authority[h].bound = {}
    /\ run \in [Workers -> RunState]
    /\ adrift \subseteq Call

\* An item that has been claimed again is not completed or failed by a call of
\* an earlier claim, however late that call arrives.
EndedByItsHolder ==
    [][\A a \in Attempts :
          /\ item[a].status \notin {"completed", "failed_terminal"}
          /\ item'[a].status \in {"completed", "failed_terminal"}
          => \E c \in SentCalls : c.item = a /\ c.token = item[a].claims]_vars

\* What a run reported stays true of the item: it is what the caller goes on
\* with, after other runs and late calls have had their say.
ReportIsTrue ==
    \A w \in Workers :
        /\ run[w].result \in {"completed", "already_completed"}
              => Row(w).status = "completed"
        /\ run[w].result \in {"failed_terminal", "superseded"}
              => Row(w).status = run[w].result

\* Only one run of an item is told "completed".  (A later run may find the item
\* completed and resume: the anchor is then persisted again, which its insert
\* answers with already_applied.)
CompletedOnce ==
    \A v, w \in Workers :
        /\ v # w
        /\ run[v].result = "completed" /\ run[w].result = "completed"
        => run[v].item # run[w].item

\* Once a newer version's reconstruction has completed, an older one of the
\* same held item no longer does.
NewestCompletesLast ==
    [][\A a, b \in Attempts :
          /\ HeldItemOf[a] = HeldItemOf[b] /\ a \in earlier[b]
          /\ item[b].status = "completed" /\ item[a].status # "completed"
          => item'[a].status # "completed"]_vars

\* The claims the bound allows are used up.
Exhausted ==
    \E a \in Attempts : item[a].claims = MaxClaims /\ item[a].lease = "expired"

\* Whatever runs are killed and whatever answers are lost, the queue is worked
\* off, as far as claims are left within the bound, if from some time on the
\* held items stay in the versions their authority is bound to and no completed
\* work comes first.
EveryItemEnds ==
    <>[](InitiationPasses /\ Resumable = {}) =>
        []<>(\/ \A a \in Attempts : item[a].status \notin {"pending", "running"}
             \/ Exhausted)

\* Completed work whose run was killed, or failed, before the held item was
\* reclassified is taken up by another run, again and again, if from some time
\* on the held items stay in their versions and one alone has such work.
CompletionIsTakenUp ==
    <>[](InitiationPasses /\ Cardinality(Resumable) <= 1) =>
        []<>(\A a \in Attempts :
                /\ item[a].status = "completed"
                /\ authority[HeldItemOf[a]].bound = {a}
                => \/ authority[HeldItemOf[a]].state = "reclassified"
                   \/ \E w \in Workers :
                         run[w].at = "readmitting" /\ run[w].item = a)

\* Whoever may still speak for some claim: runs, and calls they left behind.
Tickets ==
    {<<run[w].item, run[w].token>> : w \in {v \in Workers : run[v].at \in Holding}}
    \cup {<<c.item, c.token>> : c \in adrift}

Queue == INSTANCE WorkQueue WITH
    Tasks   <- Attempts,
    state   <- [a \in Attempts |-> item[a].status],
    taken   <- [a \in Attempts |-> item[a].claims],
    tickets <- Tickets,
    barred  <- {a \in Attempts : LaterAttempt(a)}

\* The work items, with their leases, takeovers, killed runs and late calls,
\* are a queue in which the last taking alone decides the end of an item.
IsAWorkQueue == Queue!Spec

\* The initiation hands over "deferred attempt + reconstruction work (atomic)":
\* once its transaction is over, the attempt has a work item.
HandedOver ==
    [][\A a \in Attempts :
          handoff[a] = "begun" /\ handoff'[a] # "begun"
          => item'[a].status # "none"]_vars
=============================================================================
