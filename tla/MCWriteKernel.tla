---------------------------- MODULE MCWriteKernel ----------------------------
(***************************************************************************)
(* WriteKernel for TLC: a keyed request c1, its retry c2, and in some runs *)
(* a third call c3.                                                        *)
(***************************************************************************)
EXTENDS WriteKernel, FiniteSets, TLC

CONSTANTS c1, c2, c3, k1, k2, w1, w2

\* A request and its retry alone.
PairKeys == c1 :> k1 @@ c2 :> k1
PairReqs == c1 :> w1 @@ c2 :> w1

\* The same with a third call, under a key of its own.
TrioKeys == c1 :> k1 @@ c2 :> k1 @@ c3 :> k2
TrioReqs == c1 :> w1 @@ c2 :> w1 @@ c3 :> w2

\* The request and its retry are interchangeable.
RetrySymmetry == Permutations({c1, c2})

\* Bound: the queue abandons at most one call.
OneTimeout == Cardinality({c \in Ops : answer[c] = "timeout"}) <= 1

\* Bounds: the third call runs alone, only before the window passes, and beside one
\* abandoned call at most, which it is not itself.
InFlight == {c \in Ops : via[c] # None /\ ~Finalized(c)}
ThirdAlone ==
  \/ via[c3] = None
  \/ /\ c3 \in InFlight => InFlight = {c3}
     /\ OneTimeout
     /\ answer[c3] # "timeout"
     /\ windows = 0

=============================================================================
