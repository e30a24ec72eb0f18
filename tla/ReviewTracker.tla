--------------------------- MODULE ReviewTracker ---------------------------
(***************************************************************************)
(* The pure half of the review obligation: what one tool call does to the  *)
(* marker file's JSON object                                               *)
(* (hooks/gitapex_check_post_review_obligation_tracker.py) and what the    *)
(* Stop hook reads out of it                                               *)
(* (hooks/gitapex_check_stop_review_obligation.py).                        *)
(***************************************************************************)
EXTENDS Naturals

CONSTANTS
    Repos,      \* "owner/repo" pairs a call may name
    Numbers,    \* pull request numbers
    NoRepo,     \* owner/repo absent from the call: the key is a bare "#7"
    NoKey,      \* Python's None for a PR key
    Unseen      \* Python's None for open_review_threads

ASSUME TrackerAssumption ==
    /\ NoRepo \notin Repos
    /\ Unseen \notin Nat
    /\ NoKey \notin [repo : Repos \cup {NoRepo}, num : Numbers]

PullRequest == [repo : Repos, num : Numbers]
PrKey       == [repo : Repos \cup {NoRepo}, num : Numbers]

\* The keys a call about pull request p can carry: owner and repo may or may
\* not be among tool_input, and a pullNumber that is not an int gives None.
KeysOf(p) == {p, [repo |-> NoRepo, num |-> p.num], NoKey}

\* Mutant: plain string equality, the bug _same_pr was written to close.
SamePr_Strict(call_pr, target_pr) == call_pr = target_pr

\* Two keys name the same PR unless their numbers differ or both are
\* qualified and disagree.  Not transitive: a bare key agrees with every
\* qualified one of its number.
SamePr(call_pr, target_pr) ==
    /\ call_pr.num = target_pr.num
    /\ \/ call_pr.repo = NoRepo
       \/ target_pr.repo = NoRepo
       \/ call_pr.repo = target_pr.repo

State == [push_detected       : BOOLEAN,
          target_pr           : PrKey \cup {NoKey},
          open_review_threads : Nat \cup {Unseen},
          resolve_calls       : Nat,
          mergeable_checked   : BOOLEAN]

DefaultState == [push_detected       |-> FALSE,
                 target_pr           |-> NoKey,
                 open_review_threads |-> Unseen,
                 resolve_calls       |-> 0,
                 mergeable_checked   |-> FALSE]

ArmedState == [DefaultState EXCEPT !.push_detected = TRUE]

-----------------------------------------------------------------------------
(* The three handlers.  A call is the payload of one PostToolUse event: its
   kind, the key its arguments give, whether the response is a success, and
   the number of unresolved threads found in the response.                 *)

ReadKinds == {"comments", "get", "other"}
Kinds     == ReadKinds \cup {"push", "resolve"}

\* A classified push: only a confirmed absence of an open PR leaves the
\* obligation unarmed; "unknown" (no token, no remote, API failure) arms it.
handle_bash(has_open_pr) ==
    IF has_open_pr = "none" THEN DefaultState ELSE ArmedState

handle_resolve_review_thread(state, call) ==
    IF state.push_detected /\ state.target_pr # NoKey /\ call.ok
    THEN [state EXCEPT !.resolve_calls = @ + 1]
    ELSE state

\* Mutant: a switch changes the target and keeps the progress.
Retarget_KeepsProgress(state, call_pr) ==
    IF call_pr # NoKey THEN [state EXCEPT !.target_pr = call_pr] ELSE state

\* Naming a PR other than the tracked one drops all progress.
Retarget(state, call_pr) ==
    IF /\ call_pr # NoKey
       /\ state.target_pr = NoKey \/ ~SamePr(call_pr, state.target_pr)
    THEN [ArmedState EXCEPT !.target_pr = call_pr]
    ELSE state

\* Mutant: a read before any push is recorded.
handle_pull_request_read_Unarmed(state, call) ==
    LET tracked == IF call.key = NoKey THEN state ELSE [state EXCEPT !.target_pr = call.key]
    IN  [tracked EXCEPT !.mergeable_checked = @ \/ call.kind = "get"]

\* Mutant: any response carrying mergeable_state counts, a listing included.
handle_pull_request_read_AnyMethod(state, call) ==
    LET tracked == Retarget(state, call.key)
    IN  IF ~state.push_detected \/ tracked.target_pr = NoKey
        THEN state
        ELSE [tracked EXCEPT
                !.open_review_threads = IF call.kind = "comments" THEN call.count ELSE @,
                !.mergeable_checked   = @ \/ call.ok]

handle_pull_request_read(state, call) ==
    LET tracked == Retarget(state, call.key)
    IN  IF ~state.push_detected \/ tracked.target_pr = NoKey
        THEN state
        ELSE [tracked EXCEPT
                !.open_review_threads = IF call.kind = "comments" THEN call.count ELSE @,
                !.mergeable_checked   = @ \/ (call.kind = "get" /\ call.ok)]

\* process(): the dispatch on the tool's name, the network answer given.
Handled(state, call, has_open_pr) ==
    CASE call.kind = "push"    -> handle_bash(has_open_pr)
      [] call.kind = "resolve" -> handle_resolve_review_thread(state, call)
      [] OTHER                 -> handle_pull_request_read(state, call)

-----------------------------------------------------------------------------
(* evaluate(): the steps the Stop hook still asks for.                     *)

\* Mutant: None read as "nothing to check", the gap the None case closes.
Missing_NoneIsZero(state) ==
    IF ~state.push_detected \/ state.mergeable_checked THEN {} ELSE {"mergeable"}

Missing(state) ==
    IF ~state.push_detected THEN {}
    ELSE {s \in {"comments", "resolve", "mergeable"} :
            \/ s = "comments"  /\ state.open_review_threads = Unseen
            \/ s = "resolve"   /\ state.open_review_threads # Unseen
                               /\ state.resolve_calls < state.open_review_threads
            \/ s = "mergeable" /\ ~state.mergeable_checked}
=============================================================================
