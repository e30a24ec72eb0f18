---------------------- MODULE MCIndependentReviewGate ----------------------
(* Instances of IndependentReviewGate for TLC. *)
EXTENDS IndependentReviewGate

Verdict(c) == [live |-> TRUE, status |-> "CLEAN", commit |-> c, capped |-> FALSE, owner |-> FALSE]

Findings(c) == [Verdict(c) EXCEPT !.status = "FINDINGS"]
Quoted(c)   == [Verdict(c) EXCEPT !.live = FALSE]
AtCap(c)    == [Verdict(c) EXCEPT !.capped = TRUE]

\* No verdict, a clean one on either head, one that was superseded below, one
\* that is only quoted below findings, one at the round cap, and one without
\* its commit line.
MCBodies == {<<>>, <<Verdict(1)>>, <<Verdict(2)>>, <<Verdict(2), Findings(2)>>,
             <<Findings(2), Quoted(2)>>, <<AtCap(2)>>,
             <<[Verdict(1) EXCEPT !.commit = 0]>>}

FewBodies == {<<>>, <<Verdict(1)>>, <<Verdict(2)>>}
=============================================================================
