------------------------- MODULE ReconstructionQueue -------------------------
(***************************************************************************)
(* Held-recovery attempts, the work items their deferred ones leave behind *)
(* (20260719120000_create_held_recovery_reconstruction_work.sql), and the  *)
(* authority a held item is recovered under (20260719233000_create_held_   *)
(* recovery_initial_queue_authority.sql).                                  *)
(*                                                                         *)
(* An attempt is named by its idempotency key, which hashes the version of *)
(* the held item it was made for: an attempt is a version of a held item,  *)
(* and its work item goes by the same name.  All held items belong to the  *)
(* evaluation job whose opportunities the claims are restricted to.        *)
(*                                                                         *)
(* now() in a transaction is the time it began, so created_at orders the   *)
(* attempts by the beginning of their transactions, not by their commits,  *)
(* and a lease is compared with the beginning of the call: "inLease" says  *)
(* whether the lease had not run out by then.                              *)
(***************************************************************************)
EXTENDS Naturals

CONSTANTS
    Attempts,        \* deferred held_recovery_attempts, by idempotency key
    HeldItems,       \* held items
    HeldItemOf,      \* the held item an attempt was made for
    ExecutorResult,  \* executor_result of a deferred attempt, as it is sent
    MaxClaims        \* bound: claims of one work item

ASSUME QueueAssumption ==
    /\ HeldItemOf \in [Attempts -> HeldItems]
    /\ MaxClaims \in Nat \ {0}

VARIABLES
    version,         \* the version each held item is in now
    handoff,         \* how far the recording of each attempt has come
    earlier,         \* attempts with an older created_at
    item,            \* work items
    authority        \* held_recovery_queue_items, by held item

queueVars == <<version, handoff, earlier, item, authority>>

Ended == {"completed", "failed_terminal", "superseded"}

\* claim_token is a fresh uuid per claim: the number of the claim.
WorkItem ==
    [status : {"none", "pending", "running"} \cup Ended,
     token  : 0..MaxClaims,
     lease  : {"none", "live", "expired"},
     claims : 0..MaxClaims]

\* The attempt (at most one) the authority was created for, and queue_state.
Authority ==
    [bound : SUBSET Attempts,
     state : {"none", "running", "recovered", "reclassified"}]

NoItem == [status |-> "none", token |-> 0, lease |-> "none", claims |-> 0]

QueueInit ==
    /\ version \in {v \in [HeldItems -> Attempts] :
                        \A h \in HeldItems : HeldItemOf[v[h]] = h}
    /\ handoff = [a \in Attempts |-> "none"]
    /\ earlier = [a \in Attempts |-> {}]
    /\ item = [a \in Attempts |-> NoItem]
    /\ authority = [h \in HeldItems |-> [bound |-> {}, state |-> "none"]]

\* The guard trigger: an ended item does not go back to pending or running.
Store(a, row) ==
    item' = IF item[a].status \in Ended /\ row.status \in {"pending", "running"}
            THEN item
            ELSE [item EXCEPT ![a] = row]

\* Mutant: the lease of an ended item is not cleared.
EndedLeased(row, status) == [row EXCEPT !.status = status, !.token = 0]

EndedAs(row, status) ==
    [row EXCEPT !.status = status, !.token = 0, !.lease = "none"]

-----------------------------------------------------------------------------
(* Attempts                                                                *)

\* The ledger or the manuscript changes, and with it the held item's version.
VersionMoves(h) ==
    /\ \E a \in Attempts \ {version[h]} :
          HeldItemOf[a] = h /\ version' = [version EXCEPT ![h] = a]
    /\ UNCHANGED <<handoff, earlier, item, authority>>

\* runHeldRecoveryProductionInitiation works on the version it loads.
LoadHeldItem(h) ==
    /\ handoff[version[h]] = "none"
    /\ handoff' = [handoff EXCEPT ![version[h]] = "loaded"]
    /\ UNCHANGED <<version, earlier, item, authority>>

BeginRecording(a) ==
    /\ handoff[a] = "loaded"
    /\ handoff' = [handoff EXCEPT ![a] = "begun"]
    /\ earlier' = [earlier EXCEPT
                      ![a] = {b \in Attempts : handoff[b] \in {"begun", "recorded"}}]
    /\ UNCHANGED <<version, item, authority>>

\* The executor's result of a deferred anchor, which the recorder copies and
\* the initiation sends as it is; its code is that of the held reason.
RecordedResult ==
    [outcome |-> "deferred_work", code |-> "truncated_anchor",
     error |-> "ANCHOR_RECONSTRUCTION_REQUIRED"]

\* The result the transaction takes, the one its contract test sends.
PermittedResult ==
    [kind |-> "deferred_work", code |-> "ANCHOR_RECONSTRUCTION_REQUIRED"]

IsPermitted(result) ==
    /\ {"kind", "code"} \subseteq DOMAIN result
    /\ result.kind = PermittedResult.kind
    /\ result.code = PermittedResult.code

\* The attempt and its work item are written in one transaction.  A refusal
\* makes the initiation throw: the next tick begins anew.
RecordAttempt(a) ==
    /\ handoff[a] = "begun"
    /\ IF IsPermitted(ExecutorResult)
       THEN /\ handoff' = [handoff EXCEPT ![a] = "recorded"]
            /\ item' = [item EXCEPT ![a].status = "pending"]
       ELSE /\ handoff' = [handoff EXCEPT ![a] = "none"]
            /\ item' = item
    /\ UNCHANGED <<version, earlier, authority>>

\* The tick that recorded an attempt creates the held item's authority for it.
\* Later calls for the attempt find it created; a call for another version is
\* refused (existing_queue_authority_identity_mismatch) and throws.
Initialize(a) ==
    /\ handoff[a] = "recorded"
    /\ authority[HeldItemOf[a]].state = "none"
    /\ authority' = [authority EXCEPT
                        ![HeldItemOf[a]] = [bound |-> {a}, state |-> "running"]]
    /\ UNCHANGED <<version, handoff, earlier, item>>

\* The initiation of a tick throws for no held item: one that is held is still
\* in the version its authority was created for.
InitiationPasses == \A h \in HeldItems : authority[h].bound = {version[h]}

\* Mutant: later attempts that have ended are overlooked.
LaterOpenAttempt(a) ==
    \E b \in Attempts : /\ HeldItemOf[b] = HeldItemOf[a]
                        /\ handoff[b] = "recorded"
                        /\ item[b].status \notin Ended
                        /\ a \in earlier[b]

\* The SQL counts later attempts of any outcome.  What records attempts in the
\* program is the initiation, which throws at any outcome but a deferred one.
LaterAttempt(a) ==
    \E b \in Attempts : /\ HeldItemOf[b] = HeldItemOf[a]
                        /\ handoff[b] = "recorded"
                        /\ a \in earlier[b]

-----------------------------------------------------------------------------
(* Work items                                                              *)

\* Mutant: an expired claim is not taken over.
PendingOnly(a) == item[a].status = "pending" /\ item[a].claims < MaxClaims

Due(a) ==
    /\ \/ item[a].status = "pending"
       \/ item[a].status = "running" /\ item[a].lease = "expired"
    /\ item[a].claims < MaxClaims

\* The oldest item due, passing over rows that another transaction may hold
\* (FOR UPDATE SKIP LOCKED).
Candidates(locked) ==
    LET due == {a \in Attempts : Due(a)}
    IN {a \in due : \A b \in due \cap earlier[a] : b \in locked}

Claimed(row) ==
    [status |-> "running", token |-> row.claims + 1, lease |-> "live",
     claims |-> row.claims + 1]

\* Mutant: the claim token is not compared.
HoldsAnyClaim(a, token, inLease) == item[a].status = "running" /\ inLease

Holds(a, token, inLease) ==
    item[a].status = "running" /\ item[a].token = token /\ inLease

\* Mutant: a replayed completion is answered like the first.
CompleteReplyAgain(a, token, inLease) ==
    CASE item[a].status = "completed"                         -> "completed"
      [] item[a].status \in {"failed_terminal", "superseded"} -> "rejected_terminal"
      [] item[a].status \notin Ended /\ ~Holds(a, token, inLease) -> "lease_lost"
      [] Holds(a, token, inLease) /\ LaterAttempt(a)          -> "rejected_stale"
      [] OTHER                                                -> "completed"

\* The versions a worker presents are those of its claim, which the trigger
\* keeps on the row, so the comparison of versions never fails.
CompleteReply(a, token, inLease) ==
    CASE item[a].status = "completed"                         -> "already_completed"
      [] item[a].status \in {"failed_terminal", "superseded"} -> "rejected_terminal"
      [] item[a].status \notin Ended /\ ~Holds(a, token, inLease) -> "lease_lost"
      [] Holds(a, token, inLease) /\ LaterAttempt(a)          -> "rejected_stale"
      [] OTHER                                                -> "completed"

Complete(a, token, inLease) ==
    IF CompleteReply(a, token, inLease) = "completed"
    THEN Store(a, EndedAs(item[a], "completed"))
    ELSE item' = item

FailReply(a, token, inLease) ==
    CASE item[a].status = "failed_terminal" -> "already_failed_terminal"
      [] Holds(a, token, inLease)           -> "failed_terminal"
      [] OTHER                              -> "lease_lost"

Fail(a, token, inLease) ==
    IF FailReply(a, token, inLease) = "failed_terminal"
    THEN Store(a, EndedAs(item[a], "failed_terminal"))
    ELSE item' = item

\* Mutant: supersession looks at no status but its own.
SupersedeAny(a) ==
    IF item[a].status = "superseded" THEN "already_superseded" ELSE "superseded"

\* Supersession asks for no token.
SupersedeReply(a) ==
    CASE item[a].status = "superseded"                       -> "already_superseded"
      [] item[a].status \in {"completed", "failed_terminal"} -> "rejected_terminal"
      [] OTHER                                               -> "superseded"

Supersede(a) ==
    IF SupersedeReply(a) = "superseded"
    THEN Store(a, EndedAs(item[a], "superseded"))
    ELSE item' = item

\* Mutant: work whose authority has moved on is not looked up any more.
ResumableRunning ==
    {a \in Attempts : /\ item[a].status = "completed"
                      /\ authority[HeldItemOf[a]].bound = {a}
                      /\ authority[HeldItemOf[a]].state = "running"}

\* Completed work of the version the authority is bound to, which has not been
\* brought to its end (get_completed_held_recovery_reconstruction_...).
Resumable ==
    {a \in Attempts : /\ item[a].status = "completed"
                      /\ authority[HeldItemOf[a]].bound = {a}
                      /\ authority[HeldItemOf[a]].state # "reclassified"}

LeaseExpires(a) ==
    /\ item[a].lease = "live"
    /\ item' = [item EXCEPT ![a].lease = "expired"]
    /\ UNCHANGED <<version, handoff, earlier, authority>>
=============================================================================
