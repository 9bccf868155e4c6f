------------------------------ MODULE WorkQueue ------------------------------
(***************************************************************************)
(* What a queue of leased work items promises, without leases, clocks,     *)
(* transactions or calls that get lost: an item may be taken any number of *)
(* times, and only the ticket of the last taking decides how it ends; an   *)
(* item may be withdrawn until it has ended; an item that newer work has   *)
(* barred is not completed.  Nothing is said of when anything happens.     *)
(***************************************************************************)
EXTENDS Naturals

CONSTANT Tasks

VARIABLES
    state,           \* where each task is
    taken,           \* how often it has been taken
    tickets,         \* takings for which somebody may still speak
    barred           \* tasks that newer work has made pointless

queue == <<state, taken, tickets, barred>>

Init ==
    /\ state = [t \in Tasks |-> "none"]
    /\ taken = [t \in Tasks |-> 0]
    /\ tickets = {}
    /\ barred = {}

Moves(t, from, to) == state[t] \in from /\ state' = [state EXCEPT ![t] = to]

\* A task comes in and may make others pointless.
Offer(t) ==
    /\ Moves(t, {"none"}, "pending")
    /\ barred \subseteq barred' /\ barred' \subseteq Tasks
    /\ tickets' \subseteq tickets
    /\ taken' = taken

\* A task is taken, or taken over; the ticket may not reach anybody.
Take(t) ==
    /\ Moves(t, {"pending", "running"}, "running")
    /\ taken' = [taken EXCEPT ![t] = @ + 1]
    /\ tickets' \subseteq tickets \cup {<<t, taken'[t]>>}
    /\ barred' = barred

\* The ticket of the last taking decides.
Finish(t, outcome) ==
    /\ Moves(t, {"running"}, outcome)
    /\ <<t, taken[t]>> \in tickets
    /\ outcome = "completed" => t \notin barred
    /\ tickets' \subseteq tickets
    /\ UNCHANGED <<taken, barred>>

Withdraw(t) ==
    /\ Moves(t, {"pending", "running"}, "superseded")
    /\ tickets' \subseteq tickets
    /\ UNCHANGED <<taken, barred>>

\* Tickets are given up.
Forget ==
    /\ tickets' \subseteq tickets
    /\ UNCHANGED <<state, taken, barred>>

Next ==
    \/ \E t \in Tasks :
          \/ Offer(t) \/ Take(t) \/ Withdraw(t)
          \/ \E outcome \in {"completed", "failed_terminal"} : Finish(t, outcome)
    \/ Forget

Spec == Init /\ [][Next]_queue
=============================================================================
