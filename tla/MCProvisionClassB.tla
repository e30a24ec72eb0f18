-------------------------- MODULE MCProvisionClassB --------------------------
(* Instances of ProvisionClassB for TLC. *)
EXTENDS ProvisionClassB

Commit(apm, rtk, lock) == [pins |-> [t \in Tools |-> IF t = Apm THEN apm ELSE rtk], lock |-> lock]

\* A commit, one that bumps both pins, and one that bumps the lockfile.
MCCommits == {Commit(1, 1, 3), Commit(2, 1, 3), Commit(1, 1, 4)}
=============================================================================
