--------------------- MODULE ReconstructionWorkers_proofs ---------------------
(***************************************************************************)
(* Theorems about ReconstructionWorkers, for any attempts, held items and  *)
(* workers and any bounds.                                                 *)
(*                                                                         *)
(* A step changes at most one work item, in one of four ways (Moves).  The *)
(* theorems look at these and not at the actions.                          *)
(***************************************************************************)
EXTENDS ReconstructionWorkers, TLAPS

-----------------------------------------------------------------------------
(* The inductive invariant                                                 *)

\* A work item is there only when its attempt is.
ItemsAreRecorded ==
    \A a \in Attempts : item[a].status # "none" => handoff[a] = "recorded"

\* A running item has the token of its last claim.
TokenIsLatest ==
    \A a \in Attempts : item[a].status = "running" => item[a].token = item[a].claims

\* Runs that hold a claim and late calls are about items that exist.
WorkExists ==
    /\ \A w \in Workers : run[w].at \in Holding => Row(w).status # "none"
    /\ \A c \in adrift : item[c.item].status # "none"

IInv ==
    /\ TypeOK
    /\ ItemsAreRecorded
    /\ TokenIsLatest
    /\ WorkExists
    /\ ReportIsTrue
    /\ CompletedOnce

-----------------------------------------------------------------------------
(* What a step does to a work item                                         *)

Records(a, row) ==
    /\ handoff[a] = "begun"
    /\ handoff' = [handoff EXCEPT ![a] = "recorded"]
    /\ row = [item[a] EXCEPT !.status = "pending"]

Leases(a, row) ==
    /\ item[a].status = "running"
    /\ \E l \in {"live", "expired"} : row = [item[a] EXCEPT !.lease = l]

Claims(a, row) == Due(a) /\ row = Claimed(item[a])

ItsHolder(a) == \E c \in SentCalls : c.item = a /\ c.token = item[a].token

EndsAs(a, row, status) ==
    /\ item[a].status \notin Ended \cup {"none"}
    /\ row = EndedAs(item[a], status)
    /\ status # "superseded" => item[a].status = "running" /\ ItsHolder(a)
    /\ status = "completed" => ~LaterAttempt(a)

Moves(a, row) ==
    \/ Records(a, row)
    \/ handoff' = handoff /\ Leases(a, row)
    \/ handoff' = handoff /\ Claims(a, row)
    \/ handoff' = handoff /\ \E status \in Ended : EndsAs(a, row, status)

\* No item changes, and no attempt is taken back.
Kept ==
    /\ item' = item
    /\ \A a \in Attempts : handoff[a] = "recorded" => handoff'[a] = "recorded"

\* One item changes.
ItemStep ==
    \E a \in Attempts, row \in WorkItem :
        item' = [item EXCEPT ![a] = row] /\ Moves(a, row)

\* An ended row is a work item.
LEMMA EndedAsType ==
    ASSUME NEW row \in WorkItem, NEW status \in Ended
    PROVE  EndedAs(row, status) \in WorkItem
<1>1. 0 \in 0..MaxClaims
  BY QueueAssumption
<1> QED BY <1>1 DEF EndedAs, WorkItem, Ended

\* Completion answers "completed" exactly when it may complete, and
\* "already_completed" when that has been done.
LEMMA CompleteReplies ==
    ASSUME TypeOK, NEW a \in Attempts, NEW token, NEW inLease
    PROVE  /\ CompleteReply(a, token, inLease) \in
                 {"completed", "already_completed", "rejected_terminal",
                  "lease_lost", "rejected_stale"}
           /\ CompleteReply(a, token, inLease) = "completed" =>
                 Holds(a, token, inLease) /\ ~LaterAttempt(a)
           /\ CompleteReply(a, token, inLease) = "already_completed" =>
                 item[a].status = "completed"
<1> DEFINE ended == item[a].status \in {"failed_terminal", "superseded"}
           held  == Holds(a, token, inLease)
           later == LaterAttempt(a)
<1>1. item[a].status = "completed" => ~ended /\ item[a].status \in Ended /\ ~held
  BY DEF Holds, Ended
<1>2. ended => item[a].status \in Ended /\ ~held
  BY DEF Holds, Ended
<1>3. held => item[a].status \notin Ended
  BY DEF Holds, Ended
<1>4. item[a].status \in Ended => item[a].status = "completed" \/ ended
  BY DEF Ended
<1> QED BY <1>1, <1>2, <1>3, <1>4 DEF CompleteReply

\* The same of the failing call.
LEMMA FailReplies ==
    ASSUME NEW a \in Attempts, NEW token, NEW inLease
    PROVE  /\ FailReply(a, token, inLease) \in
                 {"failed_terminal", "already_failed_terminal", "lease_lost"}
           /\ FailReply(a, token, inLease) = "failed_terminal" =>
                 Holds(a, token, inLease)
           /\ FailReply(a, token, inLease) = "already_failed_terminal" =>
                 item[a].status = "failed_terminal"
BY DEF FailReply, Holds

\* And of the superseding call.
LEMMA SupersedeReplies ==
    ASSUME NEW a \in Attempts
    PROVE  /\ SupersedeReply(a) \in
                 {"already_superseded", "rejected_terminal", "superseded"}
           /\ SupersedeReply(a) = "superseded" => item[a].status \notin Ended
           /\ SupersedeReply(a) = "already_superseded" =>
                 item[a].status = "superseded"
BY DEF SupersedeReply, Ended

\* Each of the three calls leaves the items alone or ends the one it names.
LEMMA CallsMove ==
    ASSUME TypeOK, NEW c \in SentCalls, NEW inLease, c.item \in Attempts,
           item[c.item].status # "none", handoff' = handoff,
           \/ Complete(c.item, c.token, inLease)
           \/ Fail(c.item, c.token, inLease)
           \/ Supersede(c.item)
    PROVE  Kept \/ ItemStep
<1> DEFINE a == c.item
           row(status) == EndedAs(item[a], status)
<1>1. item[a] \in WorkItem
  BY DEF TypeOK
<1>2. \A status \in Ended :
         Store(a, row(status)) => item' = [item EXCEPT ![a] = row(status)]
  BY <1>1 DEF Store, EndedAs, WorkItem, Ended
<1>3. Holds(a, c.token, inLease) => item[a].status = "running" /\ ItsHolder(a)
  BY DEF Holds, ItsHolder
<1>4. item[a].status = "running" => item[a].status \notin Ended \cup {"none"}
  BY DEF Ended
<1>5. ASSUME NEW status \in Ended, EndsAs(a, row(status), status),
             Store(a, row(status))
      PROVE  ItemStep
  BY <1>1, <1>2, <1>5, EndedAsType DEF ItemStep, Moves
<1>6. CASE Complete(a, c.token, inLease)
  <2>1. CASE CompleteReply(a, c.token, inLease) = "completed"
    <3>1. Holds(a, c.token, inLease) /\ ~LaterAttempt(a)
      BY <2>1, CompleteReplies
    <3>2. EndsAs(a, row("completed"), "completed")
      BY <1>3, <1>4, <3>1 DEF EndsAs
    <3> QED BY <1>5, <1>6, <2>1, <3>2 DEF Complete, Ended
  <2> QED BY <1>6, <2>1 DEF Complete, Kept
<1>7. CASE Fail(a, c.token, inLease)
  <2>1. CASE FailReply(a, c.token, inLease) = "failed_terminal"
    <3>1. EndsAs(a, row("failed_terminal"), "failed_terminal")
      BY <1>3, <1>4, <2>1, FailReplies DEF EndsAs
    <3> QED BY <1>5, <1>7, <2>1, <3>1 DEF Fail, Ended
  <2> QED BY <1>7, <2>1 DEF Fail, Kept
<1>8. CASE Supersede(a)
  <2>1. CASE SupersedeReply(a) = "superseded"
    <3>1. EndsAs(a, row("superseded"), "superseded")
      BY <2>1, SupersedeReplies DEF EndsAs
    <3> QED BY <1>5, <1>8, <2>1, <3>1 DEF Supersede, Ended
  <2> QED BY <1>8, <2>1 DEF Supersede, Kept
<1> QED BY <1>6, <1>7, <1>8

\* What a run sends, and what has been sent by runs that are no more.
LEMMA SentByRun ==
    ASSUME IInv
    PROVE  /\ \A w \in Workers : run[w].at \in Calls =>
                 /\ Pending(w) \in SentCalls /\ Pending(w) \in Call
                 /\ Pending(w).item = run[w].item
                 /\ Pending(w).token = run[w].token
           /\ adrift \subseteq SentCalls
<1>1. \A w \in Workers : run[w] \in RunState
  BY DEF IInv, TypeOK
<1> QED BY <1>1 DEF SentCalls, Pending, RunState, Call

-----------------------------------------------------------------------------
(* Every step leaves the items alone or moves one                          *)

\* Recording, claiming, renewing and the passing of time.
LEMMA QueueMoves ==
    ASSUME IInv
    PROVE  /\ InitiationNext => Kept \/ ItemStep
           /\ \A a \in Attempts : LeaseExpires(a) => ItemStep
           /\ \A w \in Workers : Claim(w) \/ Renews(w) => ItemStep
<1>1. /\ \A a \in Attempts : item[a] \in WorkItem
      /\ \A w \in Workers : run[w].item \in Attempts
      /\ \A a \in Attempts : item[a].status = "running" <=> item[a].lease # "none"
  BY DEF IInv, TypeOK, RunState
<1>2. ASSUME InitiationNext PROVE Kept \/ ItemStep
  <2>1. handoff \in [Attempts -> {"none", "loaded", "begun", "recorded"}]
    BY DEF IInv, TypeOK
  <2>2. ASSUME NEW a \in Attempts, RecordAttempt(a) PROVE Kept \/ ItemStep
    <3>1. [item[a] EXCEPT !.status = "pending"] \in WorkItem
      BY <1>1 DEF WorkItem
    <3>2. CASE IsPermitted(ExecutorResult)
      BY <2>2, <3>1, <3>2 DEF RecordAttempt, ItemStep, Moves, Records
    <3>3. CASE ~IsPermitted(ExecutorResult)
      BY <2>1, <2>2, <3>3 DEF RecordAttempt, Kept
    <3> QED BY <3>2, <3>3
  <2>3. ASSUME NEW h \in HeldItems, VersionMoves(h) PROVE Kept
    BY <2>3 DEF VersionMoves, Kept
  <2>4. ASSUME NEW h \in HeldItems, LoadHeldItem(h) PROVE Kept
    BY <2>1, <2>4 DEF LoadHeldItem, Kept
  <2>5. ASSUME NEW a \in Attempts, BeginRecording(a) PROVE Kept
    BY <2>1, <2>5 DEF BeginRecording, Kept
  <2>6. ASSUME NEW a \in Attempts, Initialize(a) PROVE Kept
    BY <2>1, <2>6 DEF Initialize, Kept
  <2> QED BY <1>2, <2>2, <2>3, <2>4, <2>5, <2>6 DEF InitiationNext
<1>3. ASSUME NEW a \in Attempts, LeaseExpires(a) PROVE ItemStep
  <2>1. [item[a] EXCEPT !.lease = "expired"] \in WorkItem
    BY <1>1 DEF WorkItem
  <2> QED BY <1>1, <1>3, <2>1 DEF LeaseExpires, ItemStep, Moves, Leases
<1>4. ASSUME NEW w \in Workers, Claim(w) PROVE ItemStep
  <2>1. PICK a \in Candidates(MayBeLocked) : Store(a, Claimed(item[a]))
    BY <1>4 DEF Claim
  <2>2. a \in Attempts /\ Due(a)
    BY <2>1 DEF Candidates
  <2>3. Claimed(item[a]) \in WorkItem
    BY <1>1, <2>2, QueueAssumption DEF Claimed, Due, WorkItem
  <2>4. item' = [item EXCEPT ![a] = Claimed(item[a])]
    BY <2>1, <2>2 DEF Store, Due, Ended
  <2>5. handoff' = handoff
    BY <1>4 DEF Claim
  <2> QED BY <2>2, <2>3, <2>4, <2>5 DEF ItemStep, Moves, Claims
<1>5. ASSUME NEW w \in Workers, Renews(w) PROVE ItemStep
  <2> DEFINE a   == run[w].item
             row == [item[a] EXCEPT !.lease = "live"]
  <2>1. a \in Attempts /\ row \in WorkItem
    BY <1>1 DEF WorkItem
  <2>2. item' = [item EXCEPT ![a] = row]
    BY <1>5 DEF Renews
  <2>3. handoff' = handoff /\ Leases(a, row)
    BY <1>5 DEF Renews, Holds, Leases
  <2> QED BY <2>1, <2>2, <2>3 DEF ItemStep, Moves
<1> QED BY <1>2, <1>3, <1>4, <1>5

\* Every step of the system is of one of the two kinds.
LEMMA StepMoves ==
    ASSUME IInv, [Next]_vars
    PROVE  Kept \/ ItemStep
<1>1. TypeOK /\ WorkExists
  BY DEF IInv
<1>2. \A w \in Workers : run[w] \in RunState
  BY <1>1 DEF TypeOK
<1>3. ASSUME NEW w \in Workers, run[w].at \in Calls, handoff' = handoff,
             NEW inLease,
             \/ Complete(run[w].item, run[w].token, inLease)
             \/ Fail(run[w].item, run[w].token, inLease)
             \/ Supersede(run[w].item)
      PROVE  Kept \/ ItemStep
  <2> DEFINE c == Pending(w)
  <2>1. /\ c \in SentCalls /\ c.item = run[w].item /\ c.token = run[w].token
        /\ c.item \in Attempts
    BY <1>2, <1>3, SentByRun DEF RunState
  <2>2. item[c.item].status # "none"
    BY <1>1, <1>3, <2>1 DEF WorkExists, Row, Holding
  <2> HIDE DEF c
  <2> QED BY <1>1, <1>3, <2>1, <2>2, CallsMove
<1>4. ASSUME NEW w \in Workers, WorkerNext(w) PROVE Kept \/ ItemStep
  <2>1. CASE Claim(w) \/ Renews(w) BY <2>1, QueueMoves
  <2>2. CASE LooksUp(w) \/ FindsNone(w) \/ LosesOwnership(w)
    BY <2>2 DEF LooksUp, FindsNone, LosesOwnership, queueVars, Kept
  <2>3. CASE Reconstructs(w) \/ Recovers(w) \/ Reclassifies(w)
    BY <2>3 DEF Reconstructs, Recovers, Reclassifies, queueVars, Kept
  <2>4. CASE CompleteAnswered(w)
    <3>1. PICK inLease \in InLease(run[w].item, run[w].early) :
             Complete(run[w].item, run[w].token, inLease)
      BY <2>4 DEF CompleteAnswered
    <3>2. run[w].at \in Calls /\ handoff' = handoff
      BY <2>4 DEF CompleteAnswered, Calls
    <3> QED BY <1>3, <3>1, <3>2
  <2>5. CASE FailAnswered(w)
    <3>1. PICK inLease \in InLease(run[w].item, run[w].early) :
             Fail(run[w].item, run[w].token, inLease)
      BY <2>5 DEF FailAnswered
    <3>2. run[w].at \in Calls /\ handoff' = handoff
      BY <2>5 DEF FailAnswered, Calls
    <3> QED BY <1>3, <3>1, <3>2
  <2>6. CASE SupersedeAnswered(w)
    <3>1. run[w].at \in Calls /\ handoff' = handoff /\ Supersede(run[w].item)
      BY <2>6 DEF SupersedeAnswered, Calls
    <3> QED BY <1>3, <3>1
  <2>7. CASE Dies(w) BY <2>7 DEF Dies, queueVars, Kept
  <2> QED BY <1>4, <2>1, <2>2, <2>3, <2>4, <2>5, <2>6, <2>7
          DEF WorkerNext, Proceeds
<1>5. ASSUME NEW c \in adrift, Arrives(c) PROVE Kept \/ ItemStep
  <2>1. c \in SentCalls /\ c.item \in Attempts /\ item[c.item].status # "none"
    BY <1>1, SentByRun DEF TypeOK, Call, WorkExists
  <2>2. PICK inLease \in InLease(c.item, c.early) :
           \/ Complete(c.item, c.token, inLease)
           \/ Fail(c.item, c.token, inLease)
           \/ Supersede(c.item)
    BY <1>5 DEF Arrives
  <2>3. handoff' = handoff
    BY <1>5 DEF Arrives
  <2> QED BY <1>1, <2>1, <2>2, <2>3, CallsMove
<1>6. CASE UNCHANGED vars BY <1>6 DEF vars, Kept
<1> QED BY <1>4, <1>5, <1>6, QueueMoves DEF Next

\* What that means for every item.
LEMMA ItemsAfter ==
    ASSUME IInv, [Next]_vars
    PROVE  /\ item' \in [Attempts -> WorkItem]
           /\ \A a \in Attempts :
                 /\ item'[a].status = "running" <=> item'[a].token # 0
                 /\ item'[a].status = "running" <=> item'[a].lease # "none"
                 /\ item[a].status \in Ended => item'[a].status = item[a].status
                 /\ item[a].status # "none" => item'[a].status # "none"
           /\ ItemsAreRecorded' /\ TokenIsLatest'
<1>1. /\ item \in [Attempts -> WorkItem]
      /\ handoff \in [Attempts -> {"none", "loaded", "begun", "recorded"}]
      /\ \A a \in Attempts : /\ item[a].status = "running" <=> item[a].token # 0
                             /\ item[a].status = "running" <=> item[a].lease # "none"
                             /\ item[a].status # "none" => handoff[a] = "recorded"
                             /\ item[a].status = "running" => item[a].token = item[a].claims
  BY DEF IInv, TypeOK, ItemsAreRecorded, TokenIsLatest
<1>2. CASE Kept
  BY <1>1, <1>2 DEF Kept, ItemsAreRecorded, TokenIsLatest
<1>3. CASE ItemStep
  <2>1. PICK a \in Attempts, row \in WorkItem :
           item' = [item EXCEPT ![a] = row] /\ Moves(a, row)
    BY <1>3 DEF ItemStep
  <2>2. item[a] \in WorkItem /\ row \in WorkItem
    BY <1>1
  <2>3. /\ row.status = "running" <=> row.token # 0
        /\ row.status = "running" <=> row.lease # "none"
        /\ row.status = "running" => row.token = row.claims
        /\ row.status # "none"
        /\ item[a].status \in Ended => row.status = item[a].status
        /\ handoff'[a] = "recorded"
        /\ \A b \in Attempts \ {a} : handoff'[b] = handoff[b]
    <3>1. CASE Records(a, row)
      BY <1>1, <2>2, <3>1 DEF Records, WorkItem, Ended
    <3>2. CASE handoff' = handoff /\ Leases(a, row)
      BY <1>1, <2>2, <3>2 DEF Leases, WorkItem, Ended
    <3>3. CASE handoff' = handoff /\ Claims(a, row)
      <4>1. /\ row = [status |-> "running", token |-> item[a].claims + 1,
                      lease |-> "live", claims |-> item[a].claims + 1]
            /\ item[a].status \in {"pending", "running"}
        BY <3>3 DEF Claims, Claimed, Due
      <4>2. item[a].claims \in Nat
        BY <2>2, QueueAssumption DEF WorkItem
      <4> QED BY <1>1, <3>3, <4>1, <4>2 DEF Ended
    <3>4. CASE handoff' = handoff /\ \E status \in Ended : EndsAs(a, row, status)
      <4>1. PICK status \in Ended : EndsAs(a, row, status)
        BY <3>4
      <4>2. row.status = status /\ row.token = 0 /\ row.lease = "none"
        BY <2>2, <4>1 DEF EndsAs, EndedAs, WorkItem
      <4>3. item[a].status \notin Ended \cup {"none"}
        BY <4>1 DEF EndsAs
      <4> QED BY <1>1, <3>4, <4>2, <4>3 DEF Ended
    <3> QED BY <2>1, <3>1, <3>2, <3>3, <3>4 DEF Moves
  <2>4. /\ item' \in [Attempts -> WorkItem]
        /\ item'[a] = row
        /\ \A b \in Attempts \ {a} : item'[b] = item[b]
    BY <1>1, <2>1, <2>2
  <2>5. \A b \in Attempts : b = a \/ b \in Attempts \ {a}
    OBVIOUS
  <2> QED BY <1>1, <2>3, <2>4, <2>5 DEF ItemsAreRecorded, TokenIsLatest
<1> QED BY <1>2, <1>3, StepMoves

-----------------------------------------------------------------------------
(* What a step does to the runs                                            *)

\* The run of w after a step: it goes on about its item, takes one that is
\* there, has nothing to say, or reports what is true of its item.
GoesOn(w, r) ==
    /\ r.item = run[w].item /\ r.result = run[w].result
    /\ r.at \in Holding => run[w].at \in Holding

Takes(r) == r.result = "none" /\ item'[r.item].status # "none"

Forgets(r) == r.at \notin Holding /\ r.result = "none"

Reports(r) ==
    /\ r.at \notin Holding
    /\ r.result \in {"completed", "already_completed"} =>
          item'[r.item].status = "completed"
    /\ r.result \in {"failed_terminal", "superseded"} =>
          item'[r.item].status = r.result
    /\ r.result = "completed" => item[r.item].status # "completed"

RunStep(w, r) ==
    /\ r \in RunState
    /\ run' = [run EXCEPT ![w] = r]
    /\ GoesOn(w, r) \/ Takes(r) \/ Forgets(r) \/ Reports(r)

\* Nobody's run changes, or one does, and no call is invented.
RunMoves ==
    /\ run' = run \/ \E w \in Workers, r \in RunState : RunStep(w, r)
    /\ adrift' \subseteq SentCalls

\* The run nobody has begun is a run.
LEMMA NoRunType ==
    /\ NoRun \in RunState
    /\ NoRun.at = "done" /\ NoRun.at \notin Holding /\ NoRun.result = "none"
<1>1. (CHOOSE a \in Attempts : TRUE) \in Attempts
  BY WorkersAssumption
<1>2. 0 \in 0..MaxClaims
  BY QueueAssumption
<1> QED BY <1>1, <1>2 DEF NoRun, RunState, Stages, Holding, Calls, Results

\* A run that ends is over, and reports what it is said to.
LEMMA EndsIs ==
    ASSUME TypeOK, NEW w \in Workers, NEW result \in Results, Ends(w, result)
    PROVE  \E r \in RunState :
              /\ run' = [run EXCEPT ![w] = r]
              /\ r.at \notin Holding /\ r.item = run[w].item /\ r.result = result
<1> DEFINE r == [NoRun EXCEPT !.item = run[w].item, !.result = result]
<1>1. run[w].item \in Attempts
  BY DEF TypeOK, RunState
<1>2. r \in RunState /\ r.at \notin Holding /\ r.item = run[w].item
      /\ r.result = result
  BY <1>1, NoRunType DEF RunState
<1> QED BY <1>2 DEF Ends, Becomes

\* One that ends without a report has nothing to say.
LEMMA EndsWithoutIs ==
    ASSUME NEW w \in Workers, EndsWithout(w), adrift' \subseteq SentCalls
    PROVE  RunMoves
BY NoRunType DEF EndsWithout, Becomes, RunMoves, RunStep, Forgets

\* One that sends a call goes on.
LEMMA SendsIs ==
    ASSUME TypeOK, NEW w \in Workers, NEW call \in Calls, Sends(w, call)
    PROVE  \E r \in RunState :
              /\ run' = [run EXCEPT ![w] = r]
              /\ r.item = run[w].item /\ r.token = run[w].token
              /\ r.result = run[w].result
<1> DEFINE early == call # "superseding" /\ Row(w).lease = "live"
           r == [run[w] EXCEPT !.at = call, !.early = early]
<1>1. run[w] \in RunState /\ early \in BOOLEAN /\ call \in Stages
  BY DEF TypeOK, Stages, Holding
<1> HIDE DEF early
<1>2. /\ r \in RunState /\ r.item = run[w].item /\ r.token = run[w].token
      /\ r.result = run[w].result
  BY <1>1 DEF RunState
<1>3. run' = [run EXCEPT ![w] = r]
  BY DEF Sends, Becomes, early
<1> QED BY <1>2, <1>3

\* A completing call is answered truly.
LEMMA CompletionReports ==
    ASSUME IInv, NEW w \in Workers, CompleteAnswered(w)
    PROVE  RunMoves
<1>1. TypeOK /\ run[w] \in RunState
  BY DEF IInv, TypeOK
<1> DEFINE a == run[w].item
           Readmits == [NoRun EXCEPT !.at = "readmitting", !.item = a,
                                     !.result = "completed"]
<1>2. PICK inLease \in InLease(a, run[w].early) :
         LET reply == CompleteReply(a, run[w].token, inLease)
         IN /\ Complete(a, run[w].token, inLease)
            /\ CASE reply = "completed"         -> Becomes(w, Readmits)
                 [] reply = "rejected_stale"    -> Sends(w, "superseding")
                 [] reply = "already_completed" -> Ends(w, reply)
                 [] OTHER                       -> EndsWithout(w)
  BY DEF CompleteAnswered
<1> DEFINE reply == CompleteReply(a, run[w].token, inLease)
<1>3. a \in Attempts /\ item[a] \in WorkItem
  BY <1>1 DEF TypeOK, RunState
<1>4. adrift' = adrift /\ adrift \subseteq SentCalls
  BY SentByRun DEF CompleteAnswered
<1>5. CASE reply = "rejected_stale"
  <2>1. Sends(w, "superseding") /\ "superseding" \in Calls
    BY <1>2, <1>5 DEF Calls
  <2>2. PICK r \in RunState :
           /\ run' = [run EXCEPT ![w] = r]
           /\ r.item = run[w].item /\ r.token = run[w].token
           /\ r.result = run[w].result
    BY <1>1, <2>1, SendsIs
  <2>3. run[w].at \in Holding
    BY DEF CompleteAnswered, Holding, Calls
  <2> QED BY <1>4, <2>2, <2>3 DEF RunMoves, RunStep, GoesOn
<1>6. CASE reply \in {"rejected_terminal", "lease_lost"}
  BY <1>2, <1>4, <1>6, EndsWithoutIs
<1>7. CASE reply = "completed"
  <2>1. run' = [run EXCEPT ![w] = Readmits]
    BY <1>2, <1>7 DEF Becomes
  <2>2. /\ Readmits \in RunState /\ Readmits.at \notin Holding
        /\ Readmits.item = a /\ Readmits.result = "completed"
    BY <1>3, NoRunType DEF RunState, Stages, Holding, Calls, Results
  <2>3. item'[a].status = "completed" /\ item[a].status # "completed"
    <3>1. Store(a, EndedAs(item[a], "completed")) /\ item[a].status = "running"
      BY <1>1, <1>2, <1>3, <1>7, CompleteReplies DEF Complete, Holds
    <3> QED BY <1>1, <1>3, <3>1 DEF Store, EndedAs, Ended, TypeOK, WorkItem
  <2> HIDE DEF Readmits
  <2> QED BY <1>4, <2>1, <2>2, <2>3 DEF RunMoves, RunStep, Reports
<1>8. CASE reply = "already_completed"
  <2>1. Ends(w, reply) /\ reply \in Results
    BY <1>2, <1>8 DEF Results
  <2>2. PICK r \in RunState :
           /\ run' = [run EXCEPT ![w] = r]
           /\ r.at \notin Holding /\ r.item = a /\ r.result = reply
    BY <1>1, <2>1, EndsIs
  <2>3. item'[a].status = "completed"
    BY <1>1, <1>2, <1>3, <1>8, CompleteReplies DEF Complete
  <2> QED BY <1>4, <1>8, <2>2, <2>3 DEF RunMoves, RunStep, Reports
<1> QED BY <1>1, <1>3, <1>5, <1>6, <1>7, <1>8, CompleteReplies

\* So are a failing and a superseding one.
LEMMA EndingReports ==
    ASSUME IInv, NEW w \in Workers, FailAnswered(w) \/ SupersedeAnswered(w)
    PROVE  RunMoves
<1>1. TypeOK /\ run[w] \in RunState
  BY DEF IInv, TypeOK
<1> DEFINE a == run[w].item
<1>2. a \in Attempts /\ item[a] \in WorkItem
  BY <1>1 DEF TypeOK, RunState
<1>3. adrift' = adrift /\ adrift \subseteq SentCalls
  BY SentByRun DEF FailAnswered, SupersedeAnswered
<1>4. CASE FailAnswered(w)
  <2>1. PICK inLease \in InLease(a, run[w].early) :
           LET reply == FailReply(a, run[w].token, inLease)
           IN /\ Fail(a, run[w].token, inLease)
              /\ IF reply = "lease_lost" THEN EndsWithout(w)
                                         ELSE Ends(w, "failed_terminal")
    BY <1>4 DEF FailAnswered
  <2> DEFINE reply == FailReply(a, run[w].token, inLease)
  <2>2. CASE reply = "lease_lost"
    BY <1>3, <2>1, <2>2, EndsWithoutIs
  <2>3. CASE reply # "lease_lost"
    <3>1. PICK r \in RunState :
             /\ run' = [run EXCEPT ![w] = r]
             /\ r.at \notin Holding /\ r.item = a /\ r.result = "failed_terminal"
      BY <1>1, <2>1, <2>3, EndsIs DEF Results
    <3>2. item'[a].status = "failed_terminal"
      <4>1. CASE reply = "failed_terminal"
        <5>1. Store(a, EndedAs(item[a], "failed_terminal"))
          BY <2>1, <4>1 DEF Fail
        <5> QED BY <1>1, <1>2, <5>1 DEF Store, EndedAs, Ended, TypeOK, WorkItem
      <4>2. CASE reply = "already_failed_terminal"
        BY <1>2, <2>1, <4>2, FailReplies DEF Fail
      <4> QED BY <1>2, <2>3, <4>1, <4>2, FailReplies
    <3> QED BY <1>3, <3>1, <3>2 DEF RunMoves, RunStep, Reports
  <2> QED BY <2>2, <2>3
<1>5. CASE SupersedeAnswered(w)
  <2> DEFINE reply == SupersedeReply(a)
  <2>1. /\ Supersede(a)
        /\ IF reply = "rejected_terminal" THEN EndsWithout(w)
                                          ELSE Ends(w, "superseded")
    BY <1>5 DEF SupersedeAnswered
  <2>2. CASE reply = "rejected_terminal"
    BY <1>3, <2>1, <2>2, EndsWithoutIs
  <2>3. CASE reply # "rejected_terminal"
    <3>1. PICK r \in RunState :
             /\ run' = [run EXCEPT ![w] = r]
             /\ r.at \notin Holding /\ r.item = a /\ r.result = "superseded"
      BY <1>1, <2>1, <2>3, EndsIs DEF Results
    <3>2. item'[a].status = "superseded"
      <4>1. CASE reply = "superseded"
        <5>1. Store(a, EndedAs(item[a], "superseded"))
          BY <2>1, <4>1 DEF Supersede
        <5> QED BY <1>1, <1>2, <5>1 DEF Store, EndedAs, Ended, TypeOK, WorkItem
      <4>2. CASE reply = "already_superseded"
        BY <1>2, <2>1, <4>2, SupersedeReplies DEF Supersede
      <4> QED BY <1>2, <2>3, <4>1, <4>2, SupersedeReplies
    <3> QED BY <1>3, <3>1, <3>2 DEF RunMoves, RunStep, Reports
  <2> QED BY <2>2, <2>3
<1> QED BY <1>4, <1>5

\* The same holds of every other step.
LEMMA StepRuns ==
    ASSUME IInv, [Next]_vars
    PROVE  RunMoves
<1>1. TypeOK /\ WorkExists
  BY DEF IInv
<1>2. \A w \in Workers : run[w] \in RunState
  BY <1>1 DEF TypeOK
<1>3. adrift \subseteq SentCalls
  BY SentByRun
<1>4. ASSUME NEW w \in Workers, Claim(w) PROVE RunMoves
  <2>1. PICK a \in Candidates(MayBeLocked), answered \in BOOLEAN :
           Becomes(w, IF answered
                      THEN [NoRun EXCEPT !.at = "working", !.item = a,
                                         !.token = item[a].claims + 1]
                      ELSE NoRun)
    BY <1>4 DEF Claim
  <2>2. a \in Attempts /\ Due(a) /\ item[a] \in WorkItem
    BY <1>1, <2>1 DEF Candidates, TypeOK
  <2>3. item[a].claims + 1 \in 0..MaxClaims /\ item[a].status # "none"
    BY <2>2, QueueAssumption DEF Due, WorkItem
  <2>4. adrift' = adrift
    BY <1>4 DEF Claim
  <2>5. CASE answered
    <3> DEFINE r == [NoRun EXCEPT !.at = "working", !.item = a,
                                  !.token = item[a].claims + 1]
    <3>1. r \in RunState /\ r.item = a /\ r.result = "none"
      BY <2>2, <2>3, NoRunType DEF RunState, Stages, Holding
    <3>2. item'[a].status # "none"
      BY <2>2, <2>3, ItemsAfter
    <3>3. run' = [run EXCEPT ![w] = r]
      BY <2>1, <2>5 DEF Becomes
    <3> QED BY <1>3, <2>4, <3>1, <3>2, <3>3 DEF RunMoves, RunStep, Takes
  <2>6. CASE ~answered
    BY <1>3, <2>1, <2>4, <2>6, EndsWithoutIs DEF EndsWithout
  <2> QED BY <2>5, <2>6
<1>5. ASSUME NEW w \in Workers, LosesOwnership(w) PROVE RunMoves
  <2> DEFINE r == [run[w] EXCEPT !.lost = TRUE]
  <2>1. /\ r \in RunState /\ r.item = run[w].item /\ r.result = run[w].result
        /\ r.at = run[w].at
    BY <1>2 DEF RunState
  <2>2. run' = [run EXCEPT ![w] = r] /\ adrift' = adrift
    BY <1>5 DEF LosesOwnership, Becomes
  <2> QED BY <1>3, <2>1, <2>2 DEF RunMoves, RunStep, GoesOn
<1>6. ASSUME NEW w \in Workers, Reconstructs(w) PROVE RunMoves
  <2>1. adrift' = adrift /\ run[w].at \in Holding
    BY <1>6 DEF Reconstructs, Holding
  <2>2. CASE EndsWithout(w)
    BY <1>3, <2>1, <2>2, EndsWithoutIs
  <2>3. ASSUME NEW call \in Calls, Sends(w, call) PROVE RunMoves
    <3>1. PICK r \in RunState :
             /\ run' = [run EXCEPT ![w] = r]
             /\ r.item = run[w].item /\ r.token = run[w].token
             /\ r.result = run[w].result
      BY <1>1, <2>3, SendsIs
    <3> QED BY <1>3, <2>1, <3>1 DEF RunMoves, RunStep, GoesOn
  <2> QED BY <1>6, <2>2, <2>3 DEF Reconstructs, Calls
<1>7. ASSUME NEW w \in Workers, Dies(w) \/ FindsNone(w) PROVE RunMoves
  <2>1. adrift' \subseteq SentCalls
    BY <1>3, <1>7, SentByRun DEF Dies, FindsNone
  <2> QED BY <1>7, <2>1, EndsWithoutIs DEF Dies, FindsNone
<1>8. ASSUME NEW w \in Workers, LooksUp(w) PROVE RunMoves
  <2>1. adrift' = adrift /\ item' = item
    BY <1>8 DEF LooksUp, queueVars
  <2>2. CASE Becomes(w, [NoRun EXCEPT !.at = "claiming"])
    <3> DEFINE r == [NoRun EXCEPT !.at = "claiming"]
    <3>1. r \in RunState /\ r.at \notin Holding /\ r.result = "none"
      BY NoRunType DEF RunState, Stages, Holding, Calls
    <3>2. run' = [run EXCEPT ![w] = r]
      BY <2>2 DEF Becomes
    <3> HIDE DEF r
    <3> QED BY <1>3, <2>1, <3>1, <3>2 DEF RunMoves, RunStep, Forgets
  <2>3. ASSUME NEW a \in Attempts, Resumable = {a},
               Becomes(w, [NoRun EXCEPT !.at = "readmitting", !.item = a,
                                       !.result = "already_completed"])
        PROVE  RunMoves
    <3> DEFINE r == [NoRun EXCEPT !.at = "readmitting", !.item = a,
                                  !.result = "already_completed"]
    <3>1. /\ r \in RunState /\ r.at \notin Holding
          /\ r.item = a /\ r.result = "already_completed"
      BY NoRunType DEF RunState, Stages, Holding, Calls, Results
    <3>2. item'[a].status = "completed"
      <4>1. a \in Resumable
        BY <2>3
      <4> QED BY <2>1, <4>1 DEF Resumable
    <3>3. run' = [run EXCEPT ![w] = r]
      BY <2>3 DEF Becomes
    <3> HIDE DEF r
    <3> QED BY <1>3, <2>1, <3>1, <3>2, <3>3 DEF RunMoves, RunStep, Reports
  <2> QED BY <1>8, <2>2, <2>3 DEF LooksUp
<1>9. ASSUME NEW w \in Workers, Reclassifies(w) PROVE RunMoves
  <2>1. run[w].result \in Results
    BY <1>2 DEF RunState
  <2>2. PICK r \in RunState :
           /\ run' = [run EXCEPT ![w] = r]
           /\ r.at \notin Holding /\ r.item = run[w].item
           /\ r.result = run[w].result
    BY <1>1, <1>9, <2>1, EndsIs DEF Reclassifies
  <2> QED BY <1>3, <1>9, <2>2 DEF Reclassifies, RunMoves, RunStep, GoesOn
<1>10. ASSUME NEW w \in Workers, WorkerNext(w) PROVE RunMoves
  <2>1. CASE Renews(w) \/ Recovers(w)
    BY <1>3, <2>1 DEF Renews, Recovers, RunMoves
  <2> QED BY <1>4, <1>5, <1>6, <1>7, <1>10, <1>8, <1>9, <2>1, CompletionReports,
             EndingReports
          DEF WorkerNext, Proceeds
<1>11. ASSUME NEW c \in adrift, Arrives(c) PROVE RunMoves
  BY <1>3, <1>11 DEF Arrives, RunMoves
<1>12. CASE UNCHANGED vars BY <1>3, <1>12 DEF vars, RunMoves
<1>13. CASE UNCHANGED <<run, adrift>> BY <1>3, <1>13 DEF RunMoves
<1> QED BY <1>10, <1>11, <1>12, <1>13 DEF Next

-----------------------------------------------------------------------------
(* The invariant                                                           *)

\* The initial states satisfy the invariant.
LEMMA Initially == ASSUME Init PROVE IInv
<1>1. 0 \in 0..MaxClaims
  BY QueueAssumption
<1>2. NoItem \in WorkItem
  BY <1>1 DEF NoItem, WorkItem
<1>3. TypeOK
  BY <1>2, NoRunType
     DEF Init, QueueInit, WorkersInit, TypeOK, NoItem, Authority
<1> QED BY <1>3, NoRunType
        DEF Init, QueueInit, WorkersInit, NoItem, IInv, ItemsAreRecorded,
            TokenIsLatest, WorkExists, ReportIsTrue, CompletedOnce

\* Versions, hand-offs and the order of attempts keep their types.
LEMMA AttemptTypes ==
    ASSUME IInv, [Next]_vars
    PROVE  /\ version' \in [HeldItems -> Attempts]
           /\ handoff' \in [Attempts -> {"none", "loaded", "begun", "recorded"}]
           /\ earlier' \in [Attempts -> SUBSET Attempts]
<1>1. /\ version \in [HeldItems -> Attempts]
      /\ handoff \in [Attempts -> {"none", "loaded", "begun", "recorded"}]
      /\ earlier \in [Attempts -> SUBSET Attempts]
  BY DEF IInv, TypeOK
<1>2. ASSUME NEW h \in HeldItems, VersionMoves(h)
      PROVE  version' \in [HeldItems -> Attempts]
  BY <1>1, <1>2 DEF VersionMoves
<1>3. ASSUME NEW h \in HeldItems, VersionMoves(h) \/ LoadHeldItem(h)
      PROVE  /\ version' \in [HeldItems -> Attempts]
             /\ handoff' \in [Attempts -> {"none", "loaded", "begun", "recorded"}]
             /\ earlier' = earlier
  BY <1>1, <1>2, <1>3 DEF VersionMoves, LoadHeldItem
<1>4. ASSUME NEW a \in Attempts, BeginRecording(a) \/ RecordAttempt(a)
      PROVE  /\ version' = version
             /\ handoff' \in [Attempts -> {"none", "loaded", "begun", "recorded"}]
             /\ earlier' \in [Attempts -> SUBSET Attempts]
  BY <1>1, <1>4 DEF BeginRecording, RecordAttempt
<1>5. CASE UNCHANGED <<version, handoff, earlier>>
  BY <1>1, <1>5
<1>6. ASSUME NEW w \in Workers, WorkerNext(w)
      PROVE  UNCHANGED <<version, handoff, earlier>>
  BY <1>6 DEF WorkerNext, Proceeds, LooksUp, FindsNone, Claim, Renews,
              LosesOwnership, Reconstructs, CompleteAnswered, FailAnswered,
              SupersedeAnswered, Recovers, Reclassifies, Dies, queueVars
<1>7. ASSUME NEW c \in adrift, Arrives(c)
      PROVE  UNCHANGED <<version, handoff, earlier>>
  BY <1>7 DEF Arrives
<1>8. ASSUME NEW a \in Attempts, LeaseExpires(a)
      PROVE  UNCHANGED <<version, handoff, earlier>>
  BY <1>8 DEF LeaseExpires
<1>9. ASSUME NEW a \in Attempts, Initialize(a)
      PROVE  UNCHANGED <<version, handoff, earlier>>
  BY <1>9 DEF Initialize
<1>10. CASE UNCHANGED vars BY <1>1, <1>10 DEF vars
<1> QED BY <1>1, <1>3, <1>4, <1>5, <1>6, <1>7, <1>8, <1>9, <1>10
        DEF Next, InitiationNext

\* So does the authority.
LEMMA AuthorityTypes ==
    ASSUME IInv, [Next]_vars
    PROVE  /\ authority' \in [HeldItems -> Authority]
           /\ \A h \in HeldItems :
                 authority'[h].state = "none" <=> authority'[h].bound = {}
<1>1. /\ authority \in [HeldItems -> Authority]
      /\ \A h \in HeldItems :
            authority[h].state = "none" <=> authority[h].bound = {}
      /\ \A w \in Workers : run[w].item \in Attempts
  BY DEF IInv, TypeOK, RunState
<1>2. \A a \in Attempts : HeldItemOf[a] \in HeldItems
  BY QueueAssumption
<1>3. CASE authority' = authority
  BY <1>1, <1>3
<1>4. ASSUME NEW a \in Attempts, Initialize(a)
      PROVE  /\ authority' \in [HeldItems -> Authority]
             /\ \A h \in HeldItems :
                   authority'[h].state = "none" <=> authority'[h].bound = {}
  <2> DEFINE new == [bound |-> {a}, state |-> "running"]
  <2>1. new \in Authority /\ new.state # "none" /\ new.bound # {}
    BY DEF Authority
  <2>2. authority' = [authority EXCEPT ![HeldItemOf[a]] = new]
    BY <1>4 DEF Initialize
  <2> HIDE DEF new
  <2> QED BY <1>1, <1>2, <2>1, <2>2
<1>5. ASSUME NEW w \in Workers, Recovers(w) \/ Reclassifies(w)
      PROVE  /\ authority' \in [HeldItems -> Authority]
             /\ \A h \in HeldItems :
                   authority'[h].state = "none" <=> authority'[h].bound = {}
  <2> DEFINE h == HeldItemOf[run[w].item]
  <2>1. h \in HeldItems /\ authority[h] \in Authority /\ authority[h].state # "none"
    BY <1>1, <1>2, <1>5 DEF Recovers, Reclassifies
  <2>2. PICK state \in {"recovered", "reclassified"} :
           authority' = [authority EXCEPT ![h].state = state]
    BY <1>5 DEF Recovers, Reclassifies
  <2>3. /\ [authority[h] EXCEPT !.state = state] \in Authority
        /\ [authority[h] EXCEPT !.state = state].state = state
        /\ [authority[h] EXCEPT !.state = state].bound = authority[h].bound
    BY <2>1 DEF Authority
  <2> HIDE DEF h
  <2> QED BY <1>1, <2>1, <2>2, <2>3
<1>6. ASSUME NEW w \in Workers, WorkerNext(w), ~Recovers(w), ~Reclassifies(w)
      PROVE  authority' = authority
  BY <1>6 DEF WorkerNext, Proceeds, LooksUp, FindsNone, Claim, Renews,
              LosesOwnership, Reconstructs, CompleteAnswered, FailAnswered,
              SupersedeAnswered, Dies, queueVars
<1>7. ASSUME NEW c \in adrift, Arrives(c) PROVE authority' = authority
  BY <1>7 DEF Arrives
<1>8. ASSUME NEW a \in Attempts, LeaseExpires(a) PROVE authority' = authority
  BY <1>8 DEF LeaseExpires
<1>9. ASSUME InitiationNext, \A a \in Attempts : ~Initialize(a)
      PROVE  authority' = authority
  BY <1>9 DEF InitiationNext, VersionMoves, LoadHeldItem, BeginRecording, RecordAttempt
<1>10. CASE UNCHANGED vars BY <1>3, <1>10 DEF vars
<1> QED BY <1>3, <1>4, <1>5, <1>6, <1>7, <1>8, <1>9, <1>10 DEF Next

\* Every step preserves it.
LEMMA Inductive == ASSUME IInv, [Next]_vars PROVE IInv'
<1>1. RunMoves
  BY StepRuns
<1>2. /\ run \in [Workers -> RunState]
      /\ item \in [Attempts -> WorkItem]
      /\ adrift \subseteq Call
  BY DEF IInv, TypeOK
<1>3. run' \in [Workers -> RunState]
  BY <1>1, <1>2 DEF RunMoves, RunStep
<1>4. SentCalls \subseteq Call
  BY <1>2, SentByRun DEF SentCalls
<1>5. TypeOK'
  BY <1>1, <1>3, <1>4, AttemptTypes, AuthorityTypes, ItemsAfter DEF TypeOK, RunMoves
<1>6. \A a \in Attempts :
         /\ item[a].status \in Ended => item'[a].status = item[a].status
         /\ item[a].status # "none" => item'[a].status # "none"
  BY ItemsAfter
<1>7. \A v \in Workers : run[v] \in RunState /\ run[v].item \in Attempts
  BY <1>2 DEF RunState
<1>8. WorkExists'
  <2>1. ASSUME NEW v \in Workers, run'[v].at \in Holding
        PROVE  item'[run'[v].item].status # "none"
    <3>1. CASE run'[v] = run[v]
      BY <1>6, <1>7, <2>1, <3>1 DEF IInv, WorkExists, Row
    <3>2. ASSUME NEW r \in RunState, RunStep(v, r) PROVE run'[v] = r
      BY <1>2, <3>2 DEF RunStep
    <3>3. ASSUME NEW r \in RunState, RunStep(v, r)
          PROVE  item'[run'[v].item].status # "none"
      BY <1>6, <1>7, <2>1, <3>2, <3>3
         DEF RunStep, GoesOn, Takes, Forgets, Reports, IInv, WorkExists, Row
    <3>4. \A w \in Workers \ {v} : \A r : RunStep(w, r) => run'[v] = run[v]
      BY <1>2 DEF RunStep
    <3> QED BY <1>1, <3>1, <3>3, <3>4 DEF RunMoves
  <2>2. ASSUME NEW c \in adrift' PROVE item'[c.item].status # "none"
    <3>1. c \in SentCalls
      BY <1>1, <2>2 DEF RunMoves
    <3>2. c.item \in Attempts
      BY <1>4, <3>1 DEF Call
    <3>3. item[c.item].status # "none"
      BY <3>1 DEF SentCalls, Pending, IInv, WorkExists, Row, Holding
    <3> QED BY <1>6, <3>2, <3>3
  <2> QED BY <2>1, <2>2 DEF WorkExists, Row
<1>9. ReportIsTrue'
  <2>1. ASSUME NEW v \in Workers
        PROVE  /\ run'[v].result \in {"completed", "already_completed"} =>
                     item'[run'[v].item].status = "completed"
               /\ run'[v].result \in {"failed_terminal", "superseded"} =>
                     item'[run'[v].item].status = run'[v].result
    <3>1. /\ run[v].result \in {"completed", "already_completed"} =>
                item'[run[v].item].status = "completed"
          /\ run[v].result \in {"failed_terminal", "superseded"} =>
                item'[run[v].item].status = run[v].result
      BY <1>6, <1>7 DEF IInv, ReportIsTrue, Row, Ended
    <3>2. ASSUME NEW r \in RunState, RunStep(v, r) PROVE run'[v] = r
      BY <1>2, <3>2 DEF RunStep
    <3>3. \A w \in Workers \ {v} : \A r : RunStep(w, r) => run'[v] = run[v]
      BY <1>2 DEF RunStep
    <3>4. CASE run'[v] = run[v] BY <3>1, <3>4
    <3>5. ASSUME NEW r \in RunState, RunStep(v, r)
          PROVE  /\ r.result \in {"completed", "already_completed"} =>
                       item'[r.item].status = "completed"
                 /\ r.result \in {"failed_terminal", "superseded"} =>
                       item'[r.item].status = r.result
      BY <3>1, <3>5 DEF RunStep, GoesOn, Takes, Forgets, Reports
    <3> QED BY <1>1, <3>2, <3>3, <3>4, <3>5 DEF RunMoves
  <2> QED BY <2>1 DEF ReportIsTrue, Row
<1>10. CompletedOnce'
  <2>1. CASE run' = run BY <2>1 DEF IInv, CompletedOnce
  <2>2. ASSUME NEW w \in Workers, NEW r \in RunState, RunStep(w, r)
        PROVE  CompletedOnce'
    <3>1. /\ run'[w] = r
          /\ \A v \in Workers \ {w} : run'[v] = run[v]
      BY <1>2, <2>2 DEF RunStep
    <3>2. ASSUME r.result = "completed", NEW v \in Workers \ {w},
                 run[v].result = "completed"
          PROVE  run[v].item # r.item
      <4>1. CASE GoesOn(w, r)
        BY <3>2, <4>1 DEF GoesOn, IInv, CompletedOnce
      <4>2. CASE Reports(r)
        <5>1. item[run[v].item].status = "completed"
          BY <3>2 DEF IInv, ReportIsTrue, Row
        <5> QED BY <3>2, <4>2, <5>1 DEF Reports
      <4> QED BY <2>2, <3>2, <4>1, <4>2 DEF RunStep, Takes, Forgets
    <3> QED BY <3>1, <3>2 DEF CompletedOnce, IInv
  <2> QED BY <1>1, <2>1, <2>2 DEF RunMoves
<1> QED BY <1>5, <1>8, <1>9, <1>10, ItemsAfter DEF IInv

-----------------------------------------------------------------------------
(* Theorems                                                                *)

\* The inductive invariant holds in every reachable state.
THEOREM Invariance == Spec => []IInv
<1>1. Init => IInv BY Initially
<1>2. IInv /\ [Next]_vars => IInv' BY Inductive
<1> QED BY <1>1, <1>2, PTL DEF Spec

\* Queue, attempts and runs keep their shape, and an item has a token and a
\* lease exactly while it is running.
THEOREM TypeCorrect == Spec => []TypeOK
<1>1. IInv => TypeOK BY DEF IInv
<1> QED BY <1>1, Invariance, PTL

\* What a run reported of its item stays true.
THEOREM ReportsHold == Spec => []ReportIsTrue
<1>1. IInv => ReportIsTrue BY DEF IInv
<1> QED BY <1>1, Invariance, PTL

\* At most one run of an item is told "completed".
THEOREM OneCompletion == Spec => []CompletedOnce
<1>1. IInv => CompletedOnce BY DEF IInv
<1> QED BY <1>1, Invariance, PTL

\* Only a call of the last claim completes or fails an item.
THEOREM HolderEnds == Spec => EndedByItsHolder
<1>1. ASSUME IInv, [Next]_vars, NEW a \in Attempts,
             item[a].status \notin {"completed", "failed_terminal"},
             item'[a].status \in {"completed", "failed_terminal"}
      PROVE  \E c \in SentCalls : c.item = a /\ c.token = item[a].claims
  <2>1. item \in [Attempts -> WorkItem]
    BY <1>1 DEF IInv, TypeOK
  <2>2. ItemStep
    BY <1>1, StepMoves DEF Kept
  <2>3. PICK b \in Attempts, row \in WorkItem :
           item' = [item EXCEPT ![b] = row] /\ Moves(b, row)
    BY <2>2 DEF ItemStep
  <2>4. b = a /\ row.status \in {"completed", "failed_terminal"}
    BY <1>1, <2>1, <2>3
  <2>5. PICK status \in Ended : EndsAs(a, row, status)
    BY <1>1, <2>1, <2>3, <2>4
       DEF Moves, Records, Leases, Claims, Claimed, WorkItem
  <2>6. row.status = status
    BY <2>1, <2>5 DEF EndsAs, EndedAs, WorkItem
  <2>7. item[a].status = "running" /\ ItsHolder(a)
    BY <2>4, <2>5, <2>6 DEF EndsAs
  <2> QED BY <1>1, <2>7 DEF ItsHolder, IInv, TokenIsLatest
<1>2. IInv /\ [Next]_vars =>
        [\A a \in Attempts :
            /\ item[a].status \notin {"completed", "failed_terminal"}
            /\ item'[a].status \in {"completed", "failed_terminal"}
            => \E c \in SentCalls : c.item = a /\ c.token = item[a].claims]_vars
  BY <1>1
<1> QED BY <1>2, Invariance, PTL DEF Spec, EndedByItsHolder

\* After a newer version's completion no older one completes.
THEOREM NewestLast == Spec => NewestCompletesLast
<1>1. ASSUME IInv, [Next]_vars, NEW a \in Attempts, NEW b \in Attempts,
             HeldItemOf[a] = HeldItemOf[b], a \in earlier[b],
             item[b].status = "completed", item[a].status # "completed",
             item'[a].status = "completed"
      PROVE  FALSE
  <2>1. item \in [Attempts -> WorkItem] /\ handoff[b] = "recorded"
    BY <1>1 DEF IInv, TypeOK, ItemsAreRecorded
  <2>2. LaterAttempt(a)
    BY <1>1, <2>1 DEF LaterAttempt
  <2>3. PICK c \in Attempts, row \in WorkItem :
           item' = [item EXCEPT ![c] = row] /\ Moves(c, row)
    BY <1>1, StepMoves DEF Kept, ItemStep
  <2>4. c = a /\ row.status = "completed"
    BY <1>1, <2>1, <2>3
  <2>5. PICK status \in Ended : EndsAs(a, row, status)
    BY <1>1, <2>1, <2>3, <2>4
       DEF Moves, Records, Leases, Claims, Claimed, WorkItem
  <2>6. row.status = status
    BY <2>1, <2>5 DEF EndsAs, EndedAs, WorkItem
  <2> QED BY <2>2, <2>4, <2>5, <2>6 DEF EndsAs
<1>2. IInv /\ [Next]_vars =>
        [\A a, b \in Attempts :
            /\ HeldItemOf[a] = HeldItemOf[b] /\ a \in earlier[b]
            /\ item[b].status = "completed" /\ item[a].status # "completed"
            => item'[a].status # "completed"]_vars
  BY <1>1
<1> QED BY <1>2, Invariance, PTL DEF Spec, NewestCompletesLast
=============================================================================
