------------------------ MODULE MCReviewObligation ------------------------
(* Instances of ReviewObligation for TLC. *)
EXTENDS ReviewObligation, TLC

CONSTANTS tvna, fork, t1, t2, h1, h2

TvnaOne == [repo |-> tvna, num |-> 1]
ForkOne == [repo |-> fork, num |-> 1]
TvnaTwo == [repo |-> tvna, num |-> 2]

\* Two PRs of one number in two repositories: their bare keys collide.
SameNumber == {TvnaOne, ForkOne}
TwoPrs     == {TvnaOne, TvnaTwo}
OnePr      == {TvnaOne}
OnlyFork   == {ForkOne}

AllButPush == Kinds \ {"push"}

Symmetry == Permutations({t1, t2}) \cup Permutations({h1, h2})
=============================================================================
