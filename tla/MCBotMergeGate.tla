--------------------------- MODULE MCBotMergeGate ---------------------------
(* Instances of BotMergeGate for TLC. *)
EXTENDS BotMergeGate, TLC

CONSTANTS gate, pytest, ruff

\* A GET answers at once or takes all its attempts and sleeps.
Extremes == {0, LongestGet}

Symmetry == Permutations({pytest, ruff})
=============================================================================
