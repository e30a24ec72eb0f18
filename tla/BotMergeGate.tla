---------------------------- MODULE BotMergeGate ----------------------------
(***************************************************************************)
(* One job of the independent-review gate on the trusted-bot path           *)
(* (.github/scripts/gitapex_gate_independent_review_pending.py, main,       *)
(* evaluate_bot_path and poll_bot_required_checks), against a clock in      *)
(* seconds and against CI, which starts, finishes and re-runs the other     *)
(* required checks of the head commit meanwhile.                            *)
(***************************************************************************)
EXTENDS Naturals, Sequences, GithubHttp

CONSTANTS
    Contexts,       \* check names the ruleset may require
    Self,           \* this gate's own (_SELF_CHECK_CONTEXT)
    PollTimeout,    \* DEFAULT_POLL_TIMEOUT_SECONDS
    PollInterval,   \* DEFAULT_POLL_INTERVAL_SECONDS
    SocketTimeout,  \* _HTTP_TIMEOUT_SECONDS
    JobTimeout,     \* the workflow's timeout-minutes, in seconds
    FetchSeconds,   \* how long a GET of the client may take
    MaxRuns,        \* bound: check runs of one context
    QueuedHasStart  \* TRUE iff a queued check run carries started_at

LongestGet == LongestCall(3, SocketTimeout)

ASSUME BotGateAssumption ==
    /\ Self \in Contexts
    /\ {PollTimeout, PollInterval, SocketTimeout, JobTimeout, MaxRuns} \subseteq Nat
    /\ PollInterval > 0
    /\ FetchSeconds \subseteq 0..LongestGet
    /\ QueuedHasStart \in BOOLEAN

VARIABLES
    clock,      \* seconds since the job began
    pc,         \* the job's next step
    facts,      \* about the PR: base is the default branch, opener and head commit are the bot's
    required,   \* the contexts the ruleset at the base commit requires
    runs,       \* GitHub: runs[c], the check runs of c on the head, by id
    snap,       \* the check runs of the last successful read
    lastError,  \* the last read failed
    readAt,     \* when the last read came back
    deadline,   \* of the poll
    result      \* "none", "human" (fall through), "pass", "fail", "timeout", "killed"

vars == <<clock, pc, facts, required, runs, snap, lastError, readAt, deadline, result>>

Passing   == {"success"}    \* stands for each of _PASSING_CONCLUSIONS
Completed == Passing \cup {"failure"}
Statuses  == Completed \cup {"queued", "in_progress"}

NoRuns == [c \in Contexts |-> <<>>]

Init ==
    /\ clock = 0
    /\ pc = "bots"
    /\ facts \in [defaultBase : BOOLEAN, trustedOpener : BOOLEAN, botCommit : BOOLEAN]
    /\ required \in {S \cup {Self} : S \in SUBSET Contexts}
    /\ runs = NoRuns
    /\ snap = NoRuns
    /\ lastError = FALSE
    /\ readAt = 0
    /\ deadline = 0
    /\ result = "none"

-----------------------------------------------------------------------------
(* CI: check runs of the contexts other than this gate's own.               *)

CI(c, next) ==
    /\ pc # "done"
    /\ c # Self
    /\ runs' = [runs EXCEPT ![c] = next]
    /\ UNCHANGED <<clock, pc, facts, required, snap, lastError, readAt, deadline, result>>

Newest(rs) == rs[Len(rs)]

Queue(c) ==
    /\ Len(runs[c]) < MaxRuns
    /\ runs[c] # <<>> => Newest(runs[c]) \in Completed
    /\ CI(c, Append(runs[c], "queued"))

Advance(c) ==
    /\ runs[c] # <<>>
    /\ \E status \in CASE Newest(runs[c]) = "queued"      -> {"in_progress"}
                       [] Newest(runs[c]) = "in_progress" -> Completed
                       [] OTHER                           -> {} :
         CI(c, [runs[c] EXCEPT ![Len(runs[c])] = status])

-----------------------------------------------------------------------------
(* The job.                                                                 *)

Finish(r) == pc' = "done" /\ result' = r

\* A GET that succeeds or not, after some seconds.
Get(ok) ==
    /\ clock <= JobTimeout
    /\ \E s \in FetchSeconds : clock' = clock + s
    /\ ok \in BOOLEAN

\* main: the two trust anchors at the base commit, then the head commit's
\* emails.  Whatever cannot be fetched or does not match falls through to the
\* human path.
Prepare(here, known, next) ==
    /\ pc = here
    /\ \/ ~known /\ Finish("human") /\ UNCHANGED clock
       \/ known /\ \E ok \in BOOLEAN : Get(ok) /\ IF ok THEN pc' = next /\ UNCHANGED result
                                                        ELSE Finish("human")
    /\ UNCHANGED <<facts, required, runs, snap, lastError, readAt, deadline>>

required_check_contexts == required \ {Self}

\* Mutant: the opener's identity is enough.
HeadIsBots_Any == TRUE

\* head_commit_identity_matches_bot.
HeadIsBots == facts.botCommit

\* The emails are known: take the bot path, and poll unless there is nothing
\* to poll for.
StartPoll ==
    /\ pc = "identity"
    /\ IF ~HeadIsBots THEN Finish("human") /\ UNCHANGED deadline
       ELSE IF required_check_contexts = {} THEN Finish("fail") /\ UNCHANGED deadline
       ELSE pc' = "fetch" /\ deadline' = clock + PollTimeout /\ UNCHANGED result
    /\ UNCHANGED <<clock, facts, required, runs, snap, lastError, readAt>>

\* _fetch_check_runs: the whole current set, or an error.
Fetch ==
    /\ pc = "fetch"
    /\ \E ok \in BOOLEAN :
         /\ Get(ok)
         /\ snap' = IF ok THEN runs ELSE snap
         /\ lastError' = ~ok
    /\ readAt' = clock'
    /\ pc' = "decide"
    /\ UNCHANGED <<facts, required, runs, deadline, result>>

StartedAt(rs, i) == IF rs[i] = "queued" /\ ~QueuedHasStart THEN 0 ELSE i

\* _latest_run_for_context: the greatest by started_at, then by id.
_latest(rs) ==
    CHOOSE i \in DOMAIN rs : \A j \in DOMAIN rs :
        \/ StartedAt(rs, j) < StartedAt(rs, i)
        \/ StartedAt(rs, j) = StartedAt(rs, i) /\ j <= i

Latest(c) == IF snap[c] = <<>> THEN "queued" ELSE snap[c][_latest(snap[c])]

\* Mutant: a context seen passing in any run is settled.
Unresolved_Sticky ==
    {c \in required_check_contexts : \A i \in DOMAIN snap[c] : snap[c][i] \notin Completed}

Unresolved == {c \in required_check_contexts : Latest(c) \notin Completed}

Bad == {c \in required_check_contexts : Latest(c) \in Completed \ Passing}

\* Mutant: gives up when less than one interval is left.
Over_Early == clock + PollInterval >= deadline

Over == clock >= deadline

Shorter(a, b) == IF a < b THEN a ELSE b

\* Mutant: sleeps a whole interval whatever is left.
Nap_Whole == PollInterval

Nap == Shorter(PollInterval, deadline - clock)

\* What the read says; without an answer, sleep and read again, the last time
\* at the deadline.
Decide ==
    /\ pc = "decide"
    /\ IF ~lastError /\ Bad # {} THEN Finish("fail") /\ UNCHANGED clock
       ELSE IF ~lastError /\ Unresolved = {} THEN Finish("pass") /\ UNCHANGED clock
       ELSE IF Over THEN Finish("timeout") /\ UNCHANGED clock
       ELSE pc' = "fetch" /\ clock' = clock + Nap /\ UNCHANGED result
    /\ UNCHANGED <<facts, required, runs, snap, lastError, readAt, deadline>>

\* The host ends a job that is over its time.
Kill ==
    /\ pc # "done"
    /\ clock > JobTimeout
    /\ Finish("killed")
    /\ UNCHANGED <<clock, facts, required, runs, snap, lastError, readAt, deadline>>

JobStep ==
    \/ Prepare("bots", facts.defaultBase, "rules")
    \/ Prepare("rules", TRUE, "emails")
    \/ Prepare("emails", facts.trustedOpener, "identity")
    \/ StartPoll \/ Fetch \/ Decide \/ Kill

Next == JobStep \/ \E c \in Contexts : Queue(c) \/ Advance(c)

Spec == Init /\ [][Next]_vars

-----------------------------------------------------------------------------
\* Types; and nothing is polled for but a trusted bot's own head.
TypeOK ==
    /\ clock \in Nat /\ readAt \in Nat /\ deadline \in Nat
    /\ pc \in {"bots", "rules", "emails", "identity", "fetch", "decide", "done"}
    /\ pc \in {"fetch", "decide"} =>
         facts.defaultBase /\ facts.trustedOpener /\ facts.botCommit
    /\ required \subseteq Contexts
    /\ {runs, snap} \subseteq [Contexts -> Seq(Statuses)]
    /\ lastError \in BOOLEAN
    /\ result \in {"none", "human", "pass", "fail", "timeout", "killed"}

Others == required \ {Self}

\* The job passes only on one read in which the newest run of every required
\* check had completed well, and never on an empty list of checks: a check
\* that is run again while the poll waits for another one is not remembered
\* as passed.
PassOnLatest ==
    result = "pass" =>
        /\ Others # {}
        /\ \A c \in Others : snap[c] # <<>> /\ Newest(snap[c]) \in Passing

\* The poll gives up only after a read that came back at or after its deadline,
\* and only when that read failed or still showed a check, other than the gate
\* itself, without an end: checks that the last read shows as ended are never
\* reported as late.
TimeoutIsEarned ==
    result = "timeout" =>
        /\ readAt >= deadline
        /\ lastError \/ \E c \in Others : snap[c] = <<>> \/ Newest(snap[c]) \notin Completed

\* The poll overruns its time-out by one GET at most.
PollBounded == deadline > 0 => clock <= deadline + LongestGet
=============================================================================
