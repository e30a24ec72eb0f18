------------------------------ MODULE TurnGate ------------------------------
(***************************************************************************)
(* What the review obligation promises, without hooks, files or keys: a    *)
(* push binds the turn to two duties, looking at the review threads        *)
(* (first listing, then resolving them) and checking mergeable_state; one  *)
(* tool call discharges at most one of them; a bound turn is over only     *)
(* when nothing is due.                                                    *)
(***************************************************************************)
VARIABLES
    phase,  \* is the turn bound by a push?
    due,    \* the steps still due
    over    \* has the turn ended?

vars == <<phase, due, over>>

Duties == {{"comments", "resolve"}, {"mergeable"}}

\* The duties some step of which is in S.
Open(S) == {d \in Duties : d \cap S # {}}

Bounded(S) == S \subseteq UNION Duties /\ ~({"comments", "resolve"} \subseteq S)

Init == phase = "free" /\ due = {} /\ over = FALSE

Work == over' = FALSE

\* A push binds the turn anew, whatever was discharged before.
Bind == Work /\ phase' = "bound" /\ due' = {"comments", "mergeable"}

\* A push with no pull request to review.
Free == Work /\ phase' = "free" /\ due' = {}

\* A call about the pull request under review, or about another one: duties
\* may come back, but at most one is discharged.
Discharge ==
    /\ Work
    /\ phase = "bound"
    /\ UNCHANGED phase
    /\ Bounded(due')
    /\ \A d, e \in Open(due) \ Open(due') : d = e

Spoil == UNCHANGED over /\ phase' = "unreadable" /\ due' = {}

\* A call that began before the record was spoilt puts its own view back.
Restore ==
    /\ UNCHANGED over
    /\ phase = "unreadable"
    /\ phase' = "bound"
    /\ Bounded(due')

Finish ==
    /\ ~over
    /\ phase # "unreadable"
    /\ due = {}
    /\ over' = TRUE
    /\ phase' \in {"free", phase}
    /\ UNCHANGED due

Next == Bind \/ Free \/ Discharge \/ Spoil \/ Restore \/ Finish \/ (Work /\ UNCHANGED <<phase, due>>)

Spec == Init /\ [][Next]_vars
=============================================================================
