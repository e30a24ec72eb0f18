----------------------------- MODULE RetroStub -----------------------------
(***************************************************************************)
(* The retrospective issues of one merged pull request: the workflow that   *)
(* opens a stub unless a search finds one                                   *)
(* (.github/scripts/gitapex_post_merge_retro.py), the daily sweep that      *)
(* closes stubs nobody filled in                                            *)
(* (.github/scripts/gitapex_stale_retro_stub_autoclose.py), the agent       *)
(* session that files or fills in a retrospective, and the people who close *)
(* and reopen issues.  They share nothing but GitHub.                       *)
(***************************************************************************)
EXTENDS Naturals, FiniteSets, GithubHttp

CONSTANTS
    Issues,     \* issues there can be: 1..n, in the order of creation
    Poisoned,   \* those GitHub refuses to close (locked, transferred, ...)
    Sessions,   \* bound: agent sessions that look for a retrospective
    Openings,   \* bound: runs of the opener, its re-runs included
    Reopenings, \* bound: issues reopened by hand
    Faults      \* bound: calls that fail or lose their answer, sweeps that die

ASSUME RetroAssumption ==
    /\ IsFiniteSet(Issues) /\ Issues = 1..Cardinality(Issues)
    /\ Poisoned \subseteq Issues
    /\ {Sessions, Openings, Reopenings, Faults} \subseteq Nat

VARIABLES
    state,      \* state[i]: "none" (not created), "open", "closed"
    body,       \* body[i]: "stub" while it carries _STUB_MARKER, else "real"
    stale,      \* the issues created at least --stale-hours ago
    comments,   \* comments[i]: comments that carry _CLOSE_COMMENT_MARKER
    indexed,    \* the issues the search endpoint knows
    opener,     \* the opener's run: "idle", "search", "create"
    session,    \* the agent session: pc, and the stub it fills in
    sweep,      \* the sweep: pc, the stubs still to close, the current one
    \* history
    told,       \* the issues with a close comment since they were last opened
    silent,     \* the issues the sweep closed without telling
    reopened,   \* the issues a person reopened
    opened,     \* the issues the opener created
    lagged,     \* a search of the opener ran while the index missed an issue
    budget      \* bounds' counters

github  == <<state, body, stale, comments, indexed>>
sweeps  == <<told, silent, reopened>>
search  == <<opened, lagged>>
history == <<sweeps, search>>
vars    == <<github, opener, session, sweep, history, budget>>

Created == {i \in Issues : state[i] # "none"}

Spend(b) == budget[b] > 0 /\ budget' = [budget EXCEPT ![b] = @ - 1]

\* A step that goes as it should, or one that costs a fault.
Smooth(ok) == (ok /\ UNCHANGED budget) \/ (~ok /\ Spend("faults"))

\* What a call of max attempts on issue i can come to.
Calls(max, i) ==
    IF i \in Poisoned THEN {[code |-> "client", applied |-> 0]} ELSE Outcomes(max)

\* The outcome that is no fault.
Plain(o, i) == i \in Poisoned \/ o = [code |-> "ok", applied |-> 1]

IdleSession == [pc |-> "idle", stub |-> 0]

IdleSweep == [pc |-> "idle", todo |-> {}, cur |-> 0]

Init ==
    /\ state = [i \in Issues |-> "none"]
    /\ body = [i \in Issues |-> "stub"]
    /\ stale = {}
    /\ comments = [i \in Issues |-> 0]
    /\ indexed = {}
    /\ opener = "idle"
    /\ session = IdleSession
    /\ sweep = IdleSweep
    /\ told = {}
    /\ silent = {}
    /\ reopened = {}
    /\ opened = {}
    /\ lagged = FALSE
    /\ budget = [sessions |-> Sessions, openings |-> Openings, reopenings |-> Reopenings,
                 faults |-> Faults]

-----------------------------------------------------------------------------
(* GitHub.  Create(n, text): a creation request carried out n times.        *)

Create(n, text) ==
    LET new == {i \in Issues \ Created : Cardinality({j \in Issues \ Created : j < i}) < n}
    IN  /\ Cardinality(new) = n
        /\ state' = [i \in Issues |-> IF i \in new THEN "open" ELSE state[i]]
        /\ body' = [i \in Issues |-> IF i \in new THEN text ELSE body[i]]
        /\ UNCHANGED <<stale, comments, indexed>>

Index(i) ==
    /\ i \in Created \ indexed
    /\ indexed' = indexed \cup {i}
    /\ UNCHANGED <<state, body, stale, comments, opener, session, sweep, history, budget>>

Ages(i) ==
    /\ i \in Created \ stale
    /\ stale' = stale \cup {i}
    /\ UNCHANGED <<state, body, comments, indexed, opener, session, sweep, history, budget>>

\* A person reopens a closed issue, as the close comment offers, or closes one.
Reopen(i) ==
    /\ state[i] = "closed"
    /\ Spend("reopenings")
    /\ state' = [state EXCEPT ![i] = "open"]
    /\ told' = told \ {i}
    /\ silent' = silent \ {i}
    /\ reopened' = reopened \cup {i}
    /\ UNCHANGED <<body, stale, comments, indexed, opener, session, sweep, search>>

CloseByHand(i) ==
    /\ state[i] = "open"
    /\ state' = [state EXCEPT ![i] = "closed"]
    /\ UNCHANGED <<body, stale, comments, indexed, opener, session, sweep, history, budget>>

-----------------------------------------------------------------------------
(* The opener.  One run at a time (concurrency per pull request).           *)

StartOpener ==
    /\ opener = "idle"
    /\ Spend("openings")
    /\ opener' = "search"
    /\ UNCHANGED <<github, session, sweep, history>>

\* Mutant: the search is limited to open issues.
find_existing_retro_issue_OpenOnly == {i \in indexed : state[i] = "open"}

\* The dedup search: by title and label, whatever the issue's state.
find_existing_retro_issue == indexed

Search ==
    /\ opener = "search"
    /\ \E ok \in BOOLEAN :
         /\ Smooth(ok)
         /\ opener' = IF ok /\ find_existing_retro_issue = {} THEN "create" ELSE "idle"
    /\ lagged' = (lagged \/ indexed # Created)
    /\ UNCHANGED <<github, session, sweep, sweeps, opened>>

\* max_attempts=1: issue creation is not idempotent.
CreateAttempts == 1

open_retro_issue ==
    /\ opener = "create"
    /\ \E o \in Calls(CreateAttempts, 0) :
         /\ Smooth(Plain(o, 0))
         /\ IF o.applied = 0 THEN UNCHANGED github ELSE Create(o.applied, "stub")
    /\ opened' = opened \cup {i \in Issues : state[i] # state'[i]}
    /\ opener' = "idle"
    /\ UNCHANGED <<session, sweep, sweeps, lagged>>

-----------------------------------------------------------------------------
(* The agent session: lists the retrospectives by label, then files a new   *)
(* one, fills in the stub it found, or leaves a filled-in one alone.        *)

SessionLooks ==
    /\ session.pc = "idle"
    /\ Spend("sessions")
    /\ \/ Created = {} /\ session' = [IdleSession EXCEPT !.pc = "create"]
       \/ \E i \in Created :
            session' = IF body[i] = "stub" THEN [pc |-> "fill", stub |-> i] ELSE IdleSession
    /\ UNCHANGED <<github, opener, sweep, history>>

SessionFiles ==
    /\ \/ session.pc = "create" /\ Create(1, "real")
       \/ /\ session.pc = "fill"
          /\ body' = [body EXCEPT ![session.stub] = "real"]
          /\ UNCHANGED <<state, stale, comments, indexed>>
    /\ session' = IdleSession
    /\ UNCHANGED <<opener, sweep, history, budget>>

-----------------------------------------------------------------------------
(* The sweep.  One run at a time (concurrency per workflow).                *)

is_unenriched_stub(i) == body[i] = "stub"

\* list_open_retro_issues and find_stale_stub_issues.
StaleStubs == {i \in stale : state[i] = "open" /\ is_unenriched_stub(i)}

List ==
    /\ sweep.pc = "idle"
    /\ StaleStubs # {}
    /\ sweep' = [pc |-> "next", todo |-> StaleStubs, cur |-> 0]
    /\ UNCHANGED <<github, opener, session, history, budget>>

\* Mutant: the first issue that fails ends the sweep.
AfterFailure_Stops == IdleSweep

\* Mutant: the close is tried although the comment was not confirmed.
AfterFailure_GoesOn ==
    [sweep EXCEPT !.pc = IF @ = "comment" THEN "patch" ELSE "next"]

\* One issue's failure neither undoes nor skips the others.
AfterFailure == [sweep EXCEPT !.pc = "next"]

Take ==
    /\ sweep.pc = "next"
    /\ \/ sweep.todo = {} /\ sweep' = IdleSweep
       \/ \E i \in sweep.todo :
            sweep' = [pc |-> "look", todo |-> sweep.todo \ {i}, cur |-> i]
    /\ UNCHANGED <<github, opener, session, history, budget>>

\* Mutant: any comment is taken for the closing one.
Has_close_comment_Any(i) == TRUE

\* _has_close_comment: a comment of an earlier run, among the issue's first
\* 100; an issue here never has more.
Has_close_comment(i) == comments[i] > 0

Look ==
    /\ sweep.pc = "look"
    /\ \E ok \in BOOLEAN :
         /\ Smooth(ok)
         /\ sweep' = IF ~ok THEN AfterFailure
                     ELSE [sweep EXCEPT !.pc = IF Has_close_comment(sweep.cur)
                                               THEN "patch" ELSE "comment"]
    /\ UNCHANGED <<github, opener, session, history>>

\* Mutant: call_json's default number of attempts.
CommentAttempts_Default == 3

CommentAttempts == 1

Comment ==
    /\ sweep.pc = "comment"
    /\ LET i == sweep.cur
       IN  \E o \in Calls(CommentAttempts, i) :
             /\ Smooth(Plain(o, i))
             /\ comments' = [comments EXCEPT ![i] = @ + o.applied]
             /\ told' = IF o.applied > 0 THEN told \cup {i} ELSE told
             /\ sweep' = IF o.code = "ok" THEN [sweep EXCEPT !.pc = "patch"] ELSE AfterFailure
    /\ UNCHANGED <<state, body, stale, indexed, opener, session, silent, reopened, search>>

\* PATCH state=closed, tried three times; closing twice is closing once.
Patch ==
    /\ sweep.pc = "patch"
    /\ LET i == sweep.cur
       IN  \E o \in Calls(3, i) :
             /\ Smooth(Plain(o, i))
             /\ state' = [state EXCEPT ![i] = IF o.applied > 0 THEN "closed" ELSE @]
             /\ silent' = IF o.applied > 0 /\ state[i] = "open" /\ i \notin told
                          THEN silent \cup {i} ELSE silent
             /\ sweep' = IF o.code = "ok" THEN [sweep EXCEPT !.pc = "next"] ELSE AfterFailure
    /\ UNCHANGED <<body, stale, comments, indexed, opener, session, told, reopened, search>>

\* The job is cancelled or runs into its time-out.
SweepDies ==
    /\ sweep.pc # "idle"
    /\ Spend("faults")
    /\ sweep' = IdleSweep
    /\ UNCHANGED <<github, opener, session, history>>

\* main, over what find_stale_stub_issues returned.
SweepStep == List \/ Take \/ Look \/ Comment \/ Patch

Next ==
    \/ \E i \in Issues : Index(i) \/ Ages(i) \/ Reopen(i) \/ CloseByHand(i)
    \/ StartOpener \/ Search \/ open_retro_issue
    \/ SessionLooks \/ SessionFiles
    \/ SweepStep \/ SweepDies

Spec == Init /\ [][Next]_vars

\* The sweep is scheduled every day and picks every listed issue up.
FairSpec == Spec /\ WF_vars(SweepStep)

-----------------------------------------------------------------------------
\* Types; and the sweep closes only what carries its comment.
TypeOK ==
    /\ state \in [Issues -> {"none", "open", "closed"}]
    /\ body \in [Issues -> {"stub", "real"}]
    /\ comments \in [Issues -> Nat]
    /\ stale \subseteq Created /\ indexed \subseteq Created
    /\ opener \in {"idle", "search", "create"}
    /\ session \in [pc : {"idle", "create", "fill"}, stub : Issues \cup {0}]
    /\ sweep \in [pc : {"idle", "next", "look", "comment", "patch"},
                  todo : SUBSET Issues, cur : Issues \cup {0}]
    /\ sweep.pc \in {"look", "comment", "patch"} => sweep.cur # 0
    /\ sweep.pc = "patch" => comments[sweep.cur] > 0
    /\ told \cup silent \cup reopened \subseteq Issues
    /\ opened \subseteq Created /\ lagged \in BOOLEAN

\* However often the sweep is run, dies or loses an answer, an issue is told
\* of its closing once.
ToldOnce == \A i \in Issues : comments[i] <= 1

\* "auto-close never happens silently ... every close carries this comment":
\* whatever fails or dies between the comment and the close.  Only an issue
\* that a person reopened may be closed without a word, because its old
\* comment is taken for the new one.
EveryCloseTold == silent \subseteq reopened

\* As long as its searches see every issue there is, the opener opens at most
\* one, although it is run again after a lost answer, or after the first one
\* was filled in or closed.
OneRetrospective == lagged \/ Cardinality(opened) <= 1

\* A stale stub is closed or filled in in the end, although GitHub refuses
\* to close another one.
StubsAreCleared ==
    \A i \in Issues \ Poisoned :
        (i \in stale /\ state[i] = "open" /\ body[i] = "stub")
            ~> (state[i] = "closed" \/ body[i] = "real")

=============================================================================
