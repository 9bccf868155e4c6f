---------------------------- MODULE MCFinalReview ----------------------------
(* An instance of FinalReview for TLC.                                     *)
EXTENDS FinalReview, TLC

CONSTANTS o1, o2, e1, e2, d1, d2, d3, a1, a2, p1, p2, r1, r2

Swaps == Permutations({p1, p2}) \cup Permutations({r1, r2})

\* Every edition is copy-paste ready, or only the first is.
AllReady == [o \in Opportunities |-> Editions]
FirstReady == [o \in Opportunities |-> {e1}]

\* Each edition has a text of its own.
OwnTexts == [e \in Editions |-> e]

Ranks == [o \in Opportunities |-> IF o = o1 THEN 1 ELSE 2]
AutoIds == [o \in Opportunities |-> IF o = o1 THEN a1 ELSE a2]
=============================================================================
