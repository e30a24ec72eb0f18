-------------------------- MODULE MCVisualCompanion --------------------------
(***************************************************************************)
(* Instances of VisualCompanion for TLC.                                    *)
(***************************************************************************)
EXTENDS VisualCompanion, TLC

\* A port is compared with another port and nothing else.  Not for the run
\* that checks liveness.
PortSymmetry == Permutations(Ports)
=============================================================================
