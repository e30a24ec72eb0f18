---------------------------- MODULE MCRulesetApply ----------------------------
(* An instance of RulesetApply for TLC. *)
EXTENDS RulesetApply

CONSTANTS main, other, ruff

Is(checks, bypass, defaults) == [checks |-> checks, bypass |-> bypass, defaults |-> defaults]

\* A commit adds a check, and another renames the ruleset and spells out what
\* GitHub would add.
ThreeFiles == {[name |-> main,  is |-> Is({}, FALSE, FALSE)],
               [name |-> main,  is |-> Is({ruff}, FALSE, FALSE)],
               [name |-> other, is |-> Is({ruff}, FALSE, TRUE)]}

\* By hand: no checks; the checks, with GitHub's defaults; the checks, with a
\* way round them.
ThreeSettings == {Is({}, FALSE, FALSE), Is({ruff}, FALSE, TRUE), Is({ruff}, TRUE, FALSE)}
=============================================================================
