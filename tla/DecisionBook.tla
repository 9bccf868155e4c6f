---------------------------- MODULE DecisionBook ----------------------------
(***************************************************************************)
(* What the ledger of decisions is to those who write in it, without       *)
(* locks, times or statements: a book that holds a decision under each     *)
(* name and, of every opportunity, the decision in force.  A request names *)
(* one decision each for some opportunities, and may say which decision it *)
(* expects in force.  All of it is entered at once, or nothing.            *)
(*                                                                         *)
(* FinalReview implements this module.                                     *)
(***************************************************************************)
CONSTANTS Opportunity, Client,
          Entry,         \* what a request may ask for one opportunity
          NoId,          \* no decision
          Unstated       \* nothing is expected

VARIABLES
    inForce,         \* the name of the decision in force, or NoId
    entered,         \* the decisions entered, one under a name
    asked            \* the entries of the request each client has under way

book == <<inForce, entered, asked>>

Init ==
    /\ inForce = [o \in Opportunity |-> NoId]
    /\ entered = {}
    /\ asked = [c \in Client |-> {}]

OthersWait(c) == \A d \in Client \ {c} : asked'[d] = asked[d]

\* A request is made, or given up.
Asks(c) ==
    /\ asked'[c] \subseteq Entry /\ OthersWait(c)
    /\ UNCHANGED <<inForce, entered>>

Decision(e) == [id |-> e.id, opp |-> e.opp, choice |-> e.choice, text |-> e.text]

IsNew(e) == \A d \in entered : d.id # e.id

\* A new decision that was made knowing the one in force takes its place.  One
\* made without saying so may have come too late, and one that is entered again
\* under its name changes nothing about what is in force.
Enters(c) ==
    /\ \A e \in asked[c] : e.expected \in {Unstated, inForce[e.opp]}
    /\ entered' = {d \in entered : \A e \in asked[c] : e.id # d.id}
                      \cup {Decision(e) : e \in asked[c]}
    /\ \A o \in Opportunity :
          \/ inForce'[o] = inForce[o]
          \/ \E e \in asked[c] : e.opp = o /\ IsNew(e) /\ inForce'[o] = e.id
    /\ \A e \in asked[c] :
          IsNew(e) /\ e.expected # Unstated => inForce'[e.opp] = e.id
    /\ asked'[c] = {} /\ OthersWait(c)

Next == \E c \in Client : Asks(c) \/ Enters(c)

Spec == Init /\ [][Next]_book
=============================================================================
