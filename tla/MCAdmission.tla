----------------------------- MODULE MCAdmission -----------------------------
(***************************************************************************)
(* Admission for TLC: clicks c1, c2 and c3, on the item decision d1 of     *)
(* proposal p1, the item decision d2 of p2 or the cohort decision d3.      *)
(***************************************************************************)
EXTENDS Admission, FiniteSets, TLC

CONSTANTS c1, c2, c3, d1, d2, d3, p1, p2, g1, g2, g3

On(f) == [c \in Calls |-> f[c]]

\* Two clicks on one proposal, one on another.
RetryDecisions == On(c1 :> d1 @@ c2 :> d1 @@ c3 :> d2)

\* A cohort of both proposals decided twice, and one of them on its own.
CohortDecisions == On(c1 :> d3 @@ c2 :> d3 @@ c3 :> d1)

OwnGestures   == On(c1 :> g1 @@ c2 :> g2 @@ c3 :> g3)
SharedGesture == On(c1 :> g1 @@ c2 :> g2 @@ c3 :> g1)

Covers == d1 :> {p1} @@ d2 :> {p2} @@ d3 :> {p1, p2}

=============================================================================
