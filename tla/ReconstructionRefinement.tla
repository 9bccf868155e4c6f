----------------------- MODULE ReconstructionRefinement -----------------------
(***************************************************************************)
(* ReconstructionWorkers implements WorkQueue, for any attempts, held      *)
(* items and workers and any bounds.                                       *)
(***************************************************************************)
EXTENDS ReconstructionWorkers_proofs

\* The mapped variables.
State == [a \in Attempts |-> item[a].status]
Taken == [a \in Attempts |-> item[a].claims]
Barred == {a \in Attempts : LaterAttempt(a)}

\* What a step of a run does to the tickets: it keeps or gives up its own.
KeepsItsTicket(w) ==
    /\ \E r \in RunState :
          /\ run' = [run EXCEPT ![w] = r]
          /\ r.at \in Holding => /\ run[w].at \in Holding
                                 /\ r.item = run[w].item /\ r.token = run[w].token
    /\ \/ adrift' = adrift
       \/ run[w].at \in Holding /\ adrift' = adrift \cup {Pending(w)}

\* A run that keeps its ticket adds none.
LEMMA NoNewTicket ==
    ASSUME NEW w \in Workers, run \in [Workers -> RunState], KeepsItsTicket(w)
    PROVE  Tickets' \subseteq Tickets
<1>1. PICK r \in RunState :
         /\ run' = [run EXCEPT ![w] = r]
         /\ r.at \in Holding => /\ run[w].at \in Holding
                                /\ r.item = run[w].item /\ r.token = run[w].token
  BY DEF KeepsItsTicket
<1>2. ASSUME NEW v \in Workers, run'[v].at \in Holding
      PROVE  <<run'[v].item, run'[v].token>> \in Tickets
  <2>1. CASE v = w BY <1>1, <1>2, <2>1 DEF Tickets
  <2>2. CASE v # w BY <1>1, <1>2, <2>2 DEF Tickets
  <2> QED BY <2>1, <2>2
<1>3. ASSUME NEW c \in adrift' PROVE <<c.item, c.token>> \in Tickets
  <2>1. CASE c \in adrift BY <2>1 DEF Tickets
  <2>2. CASE run[w].at \in Holding /\ c = Pending(w)
    BY <2>2 DEF Pending, Tickets
  <2> QED BY <1>3, <2>1, <2>2 DEF KeepsItsTicket
<1> QED BY <1>2, <1>3 DEF Tickets

\* A run that ends gives up its ticket, and one that sends a call keeps it.
LEMMA RunKeepsTicket ==
    ASSUME TypeOK, NEW w \in Workers, adrift' = adrift,
           \/ \E result \in Results : Ends(w, result)
           \/ EndsWithout(w)
           \/ run[w].at \in Holding /\ \E call \in Calls : Sends(w, call)
    PROVE  KeepsItsTicket(w)
<1>1. ASSUME NEW result \in Results, Ends(w, result) PROVE KeepsItsTicket(w)
  BY <1>1, EndsIs DEF KeepsItsTicket
<1>2. CASE EndsWithout(w)
  BY <1>2, NoRunType DEF EndsWithout, Becomes, KeepsItsTicket
<1>3. ASSUME run[w].at \in Holding, NEW call \in Calls, Sends(w, call)
      PROVE  KeepsItsTicket(w)
  BY <1>3, SendsIs DEF KeepsItsTicket
<1> QED BY <1>1, <1>2, <1>3

\* So does one that comes to where it speaks for no claim.
LEMMA RunWithoutTicket ==
    ASSUME NEW w \in Workers, adrift' = adrift, NEW r \in RunState,
           r.at \notin Holding, Becomes(w, r)
    PROVE  KeepsItsTicket(w)
BY DEF Becomes, KeepsItsTicket

\* Only a claim makes a ticket.
LEMMA TicketsKept ==
    ASSUME IInv, [Next]_vars, ~\E w \in Workers : Claim(w)
    PROVE  Tickets' \subseteq Tickets
<1>1. /\ TypeOK /\ run \in [Workers -> RunState]
      /\ \A w \in Workers : run[w] \in RunState
  BY DEF IInv, TypeOK
<1>2. CASE UNCHANGED <<run, adrift>>
  BY <1>2 DEF Tickets
<1>3. ASSUME NEW c \in adrift, Arrives(c) PROVE Tickets' \subseteq Tickets
  BY <1>3 DEF Arrives, Tickets
<1>4. ASSUME NEW w \in Workers, Renews(w) \/ Recovers(w) \/ LosesOwnership(w)
      PROVE  Tickets' \subseteq Tickets
  <2>1. CASE Renews(w) \/ Recovers(w) BY <1>2, <2>1 DEF Renews, Recovers
  <2>2. CASE LosesOwnership(w)
    <3> DEFINE r == [run[w] EXCEPT !.lost = TRUE]
    <3>1. r \in RunState /\ r.at = run[w].at /\ r.item = run[w].item
          /\ r.token = run[w].token
      BY <1>1 DEF RunState
    <3>2. run' = [run EXCEPT ![w] = r] /\ adrift' = adrift
      BY <2>2 DEF LosesOwnership, Becomes
    <3> QED BY <1>1, <3>1, <3>2, NoNewTicket DEF KeepsItsTicket
  <2> QED BY <1>4, <2>1, <2>2
<1>5. ASSUME NEW w \in Workers, Reconstructs(w) PROVE KeepsItsTicket(w)
  BY <1>1, <1>5, RunKeepsTicket DEF Reconstructs, Calls, Holding
<1>6. ASSUME NEW w \in Workers, CompleteAnswered(w) PROVE KeepsItsTicket(w)
  <2> DEFINE r == [NoRun EXCEPT !.at = "readmitting", !.item = run[w].item,
                                !.result = "completed"]
  <2>1. \/ Becomes(w, r) \/ Sends(w, "superseding")
        \/ Ends(w, "already_completed") \/ EndsWithout(w)
    <3>1. PICK inLease \in InLease(run[w].item, run[w].early) :
             LET reply == CompleteReply(run[w].item, run[w].token, inLease)
             IN CASE reply = "completed"         -> Becomes(w, r)
                  [] reply = "rejected_stale"    -> Sends(w, "superseding")
                  [] reply = "already_completed" -> Ends(w, reply)
                  [] OTHER                       -> EndsWithout(w)
      BY <1>6 DEF CompleteAnswered
    <3> DEFINE reply == CompleteReply(run[w].item, run[w].token, inLease)
    <3>2. reply \in {"completed", "already_completed", "rejected_terminal",
                     "lease_lost", "rejected_stale"}
      BY <1>1, CompleteReplies DEF RunState
    <3> HIDE DEF r
    <3> QED BY <3>1, <3>2
  <2>2. adrift' = adrift /\ run[w].at \in Holding
    BY <1>6 DEF CompleteAnswered, Holding, Calls
  <2>3. r \in RunState /\ r.at \notin Holding
    BY <1>1, NoRunType DEF RunState, Stages, Holding, Calls, Results
  <2> QED BY <1>1, <2>1, <2>2, <2>3, RunKeepsTicket, RunWithoutTicket
          DEF Calls, Results
<1>7. ASSUME NEW w \in Workers, FailAnswered(w) PROVE KeepsItsTicket(w)
  BY <1>1, <1>7, RunKeepsTicket DEF FailAnswered, Results
<1>8. ASSUME NEW w \in Workers, SupersedeAnswered(w) PROVE KeepsItsTicket(w)
  BY <1>1, <1>8, RunKeepsTicket DEF SupersedeAnswered, Results
<1>9. ASSUME NEW w \in Workers, FindsNone(w) \/ Reclassifies(w)
      PROVE  KeepsItsTicket(w)
  BY <1>1, <1>9, RunKeepsTicket DEF FindsNone, Reclassifies, RunState
<1>10. ASSUME NEW w \in Workers, LooksUp(w) PROVE KeepsItsTicket(w)
  <2>1. PICK r \in RunState : r.at \notin Holding /\ Becomes(w, r)
    <3>1. [NoRun EXCEPT !.at = "claiming"] \in RunState
      BY NoRunType DEF RunState, Stages
    <3>2. \A a \in Attempts :
             [NoRun EXCEPT !.at = "readmitting", !.item = a,
                           !.result = "already_completed"] \in RunState
      BY NoRunType DEF RunState, Stages, Results
    <3> QED BY <1>10, <3>1, <3>2, NoRunType
            DEF LooksUp, RunState, Holding, Calls
  <2> QED BY <1>10, <2>1, RunWithoutTicket DEF LooksUp
<1>11. ASSUME NEW w \in Workers, Dies(w) PROVE KeepsItsTicket(w)
  BY <1>11, NoRunType DEF Dies, EndsWithout, Becomes, Holding, KeepsItsTicket
<1>12. ASSUME NEW w \in Workers, WorkerNext(w) PROVE Tickets' \subseteq Tickets
  BY <1>1, <1>4, <1>5, <1>6, <1>7, <1>8, <1>9, <1>10, <1>11, <1>12, NoNewTicket
     DEF WorkerNext, Proceeds
<1>13. UNCHANGED vars => UNCHANGED <<run, adrift>>
  BY DEF vars
<1> QED BY <1>2, <1>3, <1>12, <1>13 DEF Next

\* A claim makes the ticket of the taking.
LEMMA ClaimTakes ==
    ASSUME IInv, NEW w \in Workers, Claim(w)
    PROVE  \E a \in Attempts : Queue!Take(a)
<1>1. /\ run \in [Workers -> RunState]
      /\ item \in [Attempts -> WorkItem]
  BY DEF IInv, TypeOK
<1>2. PICK a \in Candidates(MayBeLocked), answered \in BOOLEAN :
         /\ Store(a, Claimed(item[a]))
         /\ Becomes(w, IF answered
                       THEN [NoRun EXCEPT !.at = "working", !.item = a,
                                          !.token = item[a].claims + 1]
                       ELSE NoRun)
  BY DEF Claim
<1>3. a \in Attempts /\ Due(a) /\ item[a] \in WorkItem
  BY <1>1, <1>2 DEF Candidates
<1>4. item' = [item EXCEPT ![a] = Claimed(item[a])]
  BY <1>2, <1>3 DEF Store, Due, Ended
<1>5. /\ State[a] \in {"pending", "running"}
      /\ State' = [State EXCEPT ![a] = "running"]
      /\ Taken' = [Taken EXCEPT ![a] = @ + 1]
      /\ Taken'[a] = item[a].claims + 1
  BY <1>1, <1>3, <1>4 DEF State, Taken, Due, Claimed
<1>6. Tickets' \subseteq Tickets \cup {<<a, item[a].claims + 1>>}
  <2> DEFINE r == IF answered
                  THEN [NoRun EXCEPT !.at = "working", !.item = a,
                                     !.token = item[a].claims + 1]
                  ELSE NoRun
  <2>1. r.at \in Holding => r.item = a /\ r.token = item[a].claims + 1
    BY NoRunType DEF NoRun
  <2>2. run' = [run EXCEPT ![w] = r] /\ adrift' = adrift
    BY <1>2 DEF Becomes, Claim
  <2> HIDE DEF r
  <2>3. ASSUME NEW v \in Workers, run'[v].at \in Holding
        PROVE  <<run'[v].item, run'[v].token>> \in
                  Tickets \cup {<<a, item[a].claims + 1>>}
    <3>1. CASE v = w BY <1>1, <2>1, <2>2, <2>3, <3>1
    <3>2. CASE v # w BY <1>1, <2>2, <2>3, <3>2 DEF Tickets
    <3> QED BY <3>1, <3>2
  <2> QED BY <2>2, <2>3 DEF Tickets
<1>7. Barred' = Barred
  BY <1>3, <1>4 DEF Barred, LaterAttempt, Claim
<1> QED BY <1>3, <1>5, <1>6, <1>7
        DEF Queue!Take, Queue!Moves, State, Taken, Barred

\* Recording an attempt bars the older ones of its held item, and nothing
\* else changes what is barred.
LEMMA BarredAfter ==
    ASSUME IInv, [Next]_vars
    PROVE  /\ Barred \subseteq Barred' /\ Barred' \subseteq Attempts
           /\ handoff' = handoff => Barred' = Barred
           /\ item' = item => Barred' = Barred
<1>1. handoff \in [Attempts -> {"none", "loaded", "begun", "recorded"}]
  BY DEF IInv, TypeOK
<1>2. earlier \in [Attempts -> SUBSET Attempts]
  BY DEF IInv, TypeOK
<1>3. CASE UNCHANGED <<handoff, earlier>>
  BY <1>3 DEF Barred, LaterAttempt
<1>4. ASSUME NEW h \in HeldItems, LoadHeldItem(h) PROVE Barred' = Barred
  BY <1>1, <1>4 DEF LoadHeldItem, Barred, LaterAttempt
<1>5. ASSUME NEW a \in Attempts, BeginRecording(a) PROVE Barred' = Barred
  BY <1>1, <1>2, <1>5 DEF BeginRecording, Barred, LaterAttempt
<1>6. ASSUME NEW a \in Attempts, RecordAttempt(a)
      PROVE  \/ Barred' = Barred
             \/ Barred \subseteq Barred' /\ item' # item /\ handoff' # handoff
  <2>1. CASE IsPermitted(ExecutorResult)
    <3>1. item[a] \in WorkItem /\ item \in [Attempts -> WorkItem]
      BY DEF IInv, TypeOK
    <3>2. item[a].status = "none" /\ item'[a].status = "pending"
      BY <1>6, <2>1, <3>1 DEF RecordAttempt, IInv, ItemsAreRecorded, WorkItem
    <3>3. handoff[a] = "begun" /\ handoff'[a] = "recorded"
      BY <1>1, <1>6, <2>1 DEF RecordAttempt
    <3>4. Barred \subseteq Barred'
      BY <1>1, <1>6, <2>1 DEF RecordAttempt, Barred, LaterAttempt
    <3> QED BY <3>2, <3>3, <3>4
  <2>2. CASE ~IsPermitted(ExecutorResult)
    <3>1. /\ item' = item /\ earlier' = earlier
          /\ \A b \in Attempts : handoff[b] = "recorded" <=> handoff'[b] = "recorded"
      BY <1>1, <1>6, <2>2 DEF RecordAttempt
    <3> QED BY <3>1 DEF Barred, LaterAttempt
  <2> QED BY <2>1, <2>2
<1>7. ASSUME ~ UNCHANGED <<handoff, earlier>>
      PROVE  \/ \E h \in HeldItems : LoadHeldItem(h)
             \/ \E a \in Attempts : BeginRecording(a) \/ RecordAttempt(a)
  BY <1>7 DEF Next, InitiationNext, VersionMoves, Initialize, LeaseExpires,
              WorkerNext, LooksUp, FindsNone, Claim, Renews, LosesOwnership,
              Proceeds, Reconstructs, CompleteAnswered, FailAnswered,
              SupersedeAnswered, Recovers, Reclassifies, Dies, Arrives,
              queueVars, vars
<1>8. Barred' \subseteq Attempts
  BY DEF Barred
<1> QED BY <1>3, <1>4, <1>5, <1>6, <1>7, <1>8

\* The initial states are those of an empty queue.
LEMMA InitMaps == ASSUME Init PROVE Queue!Init
<1>1. Barred = {}
  BY DEF Init, QueueInit, Barred, LaterAttempt
<1>2. Tickets = {}
  BY NoRunType DEF Init, WorkersInit, Tickets
<1> QED BY <1>1, <1>2 DEF Init, QueueInit, NoItem, Queue!Init, Barred

\* What StepMoves knows of a step that is no claim maps to a step of the queue.
LEMMA MoveMaps ==
    ASSUME IInv, [Next]_vars, ~\E w \in Workers : Claim(w), ItemStep
    PROVE  [Queue!Next]_(Queue!queue)
<1>1. /\ item \in [Attempts -> WorkItem]
      /\ \A a \in Attempts : item[a].status = "running" => item[a].token = item[a].claims
  BY DEF IInv, TypeOK, TokenIsLatest
<1>2. PICK a \in Attempts, row \in WorkItem :
         item' = [item EXCEPT ![a] = row] /\ Moves(a, row)
  BY DEF ItemStep
<1>3. item[a] \in WorkItem
  BY <1>1
<1>4. Tickets' \subseteq Tickets
  BY TicketsKept
<1>5. /\ State' = [State EXCEPT ![a] = row.status]
      /\ Taken' = [Taken EXCEPT ![a] = row.claims]
  BY <1>1, <1>2 DEF State, Taken
<1>6. CASE Records(a, row)
  <2>1. State[a] = "none" /\ row.status = "pending" /\ row.claims = item[a].claims
    BY <1>3, <1>6 DEF Records, IInv, ItemsAreRecorded, WorkItem, State
  <2>2. Taken' = Taken
    BY <1>1, <1>2, <2>1 DEF Taken
  <2>3. Barred \subseteq Barred' /\ Barred' \subseteq Attempts
    BY BarredAfter
  <2>4. Queue!Offer(a)
    BY <1>4, <1>5, <2>1, <2>2, <2>3
       DEF Queue!Offer, Queue!Moves, State, Taken, Barred
  <2> QED BY <2>4 DEF Queue!Next
<1>7. CASE handoff' = handoff /\ Leases(a, row)
  <2>1. row.status = item[a].status /\ row.claims = item[a].claims
    BY <1>3, <1>7 DEF Leases, WorkItem
  <2>2. State' = State /\ Taken' = Taken
    BY <1>1, <1>2, <2>1 DEF State, Taken
  <2>3. Barred' = Barred
    BY <1>7, BarredAfter
  <2>4. Queue!Forget
    BY <1>4, <2>2, <2>3 DEF Queue!Forget, State, Taken, Barred
  <2> QED BY <2>4 DEF Queue!Next
<1>8. CASE handoff' = handoff /\ Claims(a, row)
  <2>1. /\ State[a] \in {"pending", "running"}
        /\ row.status = "running" /\ row.claims = Taken[a] + 1
    BY <1>3, <1>8 DEF Claims, Claimed, Due, State, Taken
  <2>2. Barred' = Barred
    BY <1>8, BarredAfter
  <2>3. Queue!Take(a)
    BY <1>4, <1>5, <2>1, <2>2 DEF Queue!Take, Queue!Moves, State, Taken, Barred
  <2> QED BY <2>3 DEF Queue!Next
<1>9. ASSUME handoff' = handoff, NEW status \in Ended, EndsAs(a, row, status)
      PROVE  Queue!Next
  <2>1. /\ item[a].status \notin Ended \cup {"none"}
        /\ row.status = status /\ row.claims = item[a].claims
    BY <1>3, <1>9 DEF EndsAs, EndedAs, WorkItem
  <2>2. Taken' = Taken /\ Barred' = Barred
    BY <1>1, <1>2, <1>9, <2>1, BarredAfter DEF Taken
  <2>3. State[a] \in {"pending", "running"}
    BY <1>3, <2>1 DEF WorkItem, State
  <2>4. CASE status = "superseded"
    <3>1. Queue!Withdraw(a)
      BY <1>4, <1>5, <2>1, <2>2, <2>3, <2>4
         DEF Queue!Withdraw, Queue!Moves, State, Taken, Barred
    <3> QED BY <3>1 DEF Queue!Next
  <2>5. CASE status \in {"completed", "failed_terminal"}
    <3>1. PICK c \in SentCalls : c.item = a /\ c.token = item[a].token
      BY <1>9, <2>5 DEF EndsAs, ItsHolder
    <3>2. State[a] = "running" /\ item[a].token = Taken[a]
      BY <1>1, <1>9, <2>5 DEF EndsAs, State, Taken
    <3>3. <<a, Taken[a]>> \in Tickets
      BY <3>1, <3>2 DEF SentCalls, Tickets, Pending, Holding
    <3>4. status = "completed" => a \notin Barred
      BY <1>9 DEF EndsAs, Barred
    <3>5. Queue!Finish(a, status)
      BY <1>4, <1>5, <2>1, <2>2, <3>2, <3>3, <3>4
         DEF Queue!Finish, Queue!Moves, State, Taken, Barred
    <3> QED BY <2>5, <3>5 DEF Queue!Next
  <2> QED BY <2>4, <2>5 DEF Ended
<1> QED BY <1>2, <1>6, <1>7, <1>8, <1>9 DEF Moves

\* Every step of the workers is a step of the queue or leaves it alone.
LEMMA StepMaps ==
    ASSUME IInv, [Next]_vars
    PROVE  [Queue!Next]_(Queue!queue)
<1>1. CASE \E w \in Workers : Claim(w)
  BY <1>1, ClaimTakes DEF Queue!Next
<1>2. CASE (~\E w \in Workers : Claim(w)) /\ Kept
  <2>1. Tickets' \subseteq Tickets /\ item' = item /\ Barred' = Barred
    BY <1>2, TicketsKept, BarredAfter DEF Kept
  <2>2. Queue!Forget
    BY <2>1 DEF Queue!Forget, Barred
  <2> QED BY <2>2 DEF Queue!Next
<1>3. CASE (~\E w \in Workers : Claim(w)) /\ ItemStep
  BY <1>3, MoveMaps
<1> QED BY <1>1, <1>2, <1>3, StepMoves

\* The claim, renewal, completion, failure and supersession of work items, by
\* runs that are killed and calls that come late, implement the work queue.
THEOREM Implements == Spec => IsAWorkQueue
<1>1. Init => Queue!Init
  BY InitMaps
<1>2. IInv /\ [Next]_vars => [Queue!Next]_(Queue!queue)
  BY StepMaps
<1> QED BY <1>1, <1>2, Invariance, PTL DEF Spec, IsAWorkQueue, Queue!Spec
=============================================================================
