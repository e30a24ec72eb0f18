---------------------------- MODULE AcmIssueGate ----------------------------
(***************************************************************************)
(* The workflow that flags an issue without an Acceptance Criteria Map      *)
(* (.github/scripts/gitapex_gate_acm_issue_disclosure.py): one run per      *)
(* opened or edited event, on the body the event carried, a newer event     *)
(* cancelling the run in progress (.github/workflows/acm-issue-gate.yml).   *)
(* A run is a sequence of GitHub calls any of which may fail or be carried  *)
(* out with its answer lost.                                                *)
(***************************************************************************)
EXTENDS Naturals, Sequences, FiniteSets, GithubHttp

CONSTANTS
    MaxEdits    \* bound: edits of the issue after it was opened

ASSUME AcmAssumption == MaxEdits \in Nat

VARIABLES
    body,       \* the issue's body: "bare" or "disclosed"
    defined,    \* the repository has the needs-acm label
    label,      \* the issue carries it
    markers,    \* comments on the issue that carry _MARKER
    events,     \* bodies of the events not yet delivered, oldest first
    pc,         \* the run's next call ("idle": no run)
    payload,    \* the body the run judges
    failed,     \* the last run to end ended on a GitHubApiError
    edits       \* bound's counter

issue == <<defined, label, markers>>
vars  == <<body, defined, label, markers, events, pc, payload, failed, edits>>

Bodies == {"bare", "disclosed"}

Init ==
    /\ body \in Bodies
    /\ defined \in BOOLEAN
    /\ label = FALSE
    /\ markers = 0
    /\ events = <<body>>
    /\ pc = "idle"
    /\ payload = body
    /\ failed = FALSE
    /\ edits = 0

-----------------------------------------------------------------------------
Edit(b) ==
    /\ edits < MaxEdits
    /\ edits' = edits + 1
    /\ body' = b
    /\ events' = Append(events, b)
    /\ UNCHANGED <<issue, pc, payload, failed>>

\* cancel-in-progress: the new run takes over wherever the old one was.
Deliver ==
    /\ events # <<>>
    /\ payload' = Head(events)
    /\ events' = Tail(events)
    /\ pc' = "judge"
    /\ UNCHANGED <<body, issue, failed, edits>>

-----------------------------------------------------------------------------
(* The run.                                                                 *)

Env == <<body, events, payload, edits>>

GoTo(next) == pc' = next /\ UNCHANGED failed
End(fault) == pc' = "idle" /\ failed' = fault

\* Mutant: an issue that was flagged before keeps its flag.
Judged_KeepsFlag(b) == IF b = "disclosed" THEN "none" ELSE "ensure"

\* has_acm_disclosure: the first call the verdict leads to.
Judged(b) == IF b = "disclosed" THEN "remove" ELSE "ensure"

Judge ==
    /\ pc = "judge"
    /\ IF Judged(payload) = "none" THEN End(FALSE) ELSE GoTo(Judged(payload))
    /\ UNCHANGED <<Env, issue>>

\* remove_label: one attempt; 404, the label was not on the issue, is success.
remove_label ==
    /\ pc = "remove"
    /\ \E o \in Outcomes(1) :
         /\ label' = (label /\ o.applied = 0)
         /\ End(o.code = "transient" \/ (o.code = "client" /\ label))
    /\ UNCHANGED <<Env, defined, markers>>

\* Mutant: every refusal is taken for a name that is taken.
Exists_Any4xx(o) == o.code # "transient"

\* A 422, the name is taken, is success.
Exists(o) == o.code = "ok" \/ (o.code = "client" /\ defined)

\* ensure_label_exists: one attempt.
ensure_label_exists ==
    /\ pc = "ensure"
    /\ \E o \in Outcomes(1) :
         /\ defined' = (defined \/ o.applied > 0)
         /\ IF Exists(o) THEN GoTo("add") ELSE End(TRUE)
    /\ UNCHANGED <<Env, label, markers>>

add_label ==
    /\ pc = "add"
    /\ \E o \in Outcomes(3) :
         /\ label' = (label \/ o.applied > 0)
         /\ IF o.code = "ok" THEN GoTo("look") ELSE End(TRUE)
    /\ UNCHANGED <<Env, defined, markers>>

\* Mutant: the marker check looks at nothing.
Found_Never == FALSE

Found == markers > 0

\* has_marker_comment walks every page of comments.
has_marker_comment ==
    /\ pc = "look"
    /\ \E o \in Outcomes(3) :
         IF o.code # "ok" THEN End(TRUE)
         ELSE IF Found THEN End(FALSE) ELSE GoTo("post")
    /\ UNCHANGED <<Env, issue>>

\* post_comment: three attempts, as call_json's default has it.
post_comment ==
    /\ pc = "post"
    /\ \E o \in Outcomes(3) :
         /\ markers' = markers + o.applied
         /\ End(o.code # "ok")
    /\ UNCHANGED <<Env, defined, label>>

RunStep ==
    \/ Judge \/ remove_label \/ ensure_label_exists \/ add_label
    \/ has_marker_comment \/ post_comment

Next ==
    \/ \E b \in Bodies : Edit(b)
    \/ Deliver
    \/ RunStep

Spec == Init /\ [][Next]_vars

-----------------------------------------------------------------------------
\* Types; the label is put on the issue only once it exists, and the issue is
\* told only once it carries the label.
TypeOK ==
    /\ {body, payload} \subseteq Bodies
    /\ {defined, label, failed} \subseteq BOOLEAN
    /\ markers \in Nat
    /\ events \in Seq(Bodies)
    /\ pc \in {"idle", "judge", "remove", "ensure", "add", "look", "post"}
    /\ pc = "add" => defined
    /\ pc \in {"look", "post"} => label
    /\ edits \in 0..MaxEdits

Settled == events = <<>> /\ pc = "idle" /\ ~failed

\* When every event has been dealt with and the last run did not fail, the
\* issue is flagged exactly when its present body discloses nothing: a run
\* cancelled halfway, or a flag an earlier run left, never has the last word.
FlagMatchesBody ==
    Settled => /\ label = (body = "bare")
               /\ body = "bare" => markers > 0

\* Only one call ever tells the issue: however often it is edited, wherever its
\* runs are cancelled or fail, and although the answer to that call may be lost,
\* no later run tells it again.
ToldByOneCall == [][markers' # markers => markers = 0]_vars

-----------------------------------------------------------------------------
(* A statement of the code's docs that the code does not keep.             *)

\* "Post the disclosure-gate comment on the issue, once": the three attempts
\* of the call that tells the issue leave one comment.
ToldOnce == markers <= 1
=============================================================================
