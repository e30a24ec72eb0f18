----------------------- MODULE IndependentReviewGate -----------------------
(***************************************************************************)
(* The required check "independent-review-pending" of one pull request:     *)
(* people and bots push, edit the body and retarget; each of these events   *)
(* starts a job on the payload it carried, cancelling the job in progress   *)
(* (.github/workflows/independent-review-pending.yml); the job judges the   *)
(* body's verdict or, for a trusted bot, polls the other required checks    *)
(* (.github/scripts/gitapex_gate_independent_review_pending.py); GitHub     *)
(* merges a head whose required checks are all green.                       *)
(***************************************************************************)
EXTENDS Naturals, Sequences

CONSTANTS
    Commits,    \* the head commits the branch can have, 1..n in push order
    BotCommits, \* those whose author and committer emails are the bot's
    TrustedOpener,  \* the PR was opened by a bot of trusted-bots.yml
    Contexts,   \* the other required checks
    Bodies,     \* PR bodies: sequences of verdict sections
    Reruns,     \* TRUE iff a job may be run again by hand, on its old payload
    MaxEvents,  \* bound: pushes, edits and retargets
    MaxChecks   \* bound: steps of the other checks

\* A verdict section.  live: neither fenced nor inside an HTML comment;
\* status (none) and commit (0) may be missing; capped: Round is at or past _ROUND_CAP;
\* owner: an Owner decision is cited.
Section == [live : BOOLEAN, status : {"CLEAN", "FINDINGS", "none"},
            commit : Commits \cup {0}, capped : BOOLEAN, owner : BOOLEAN]

ASSUME GateAssumption ==
    /\ Commits \subseteq Nat /\ 1 \in Commits
    /\ BotCommits \subseteq Commits
    /\ {TrustedOpener, Reruns} \subseteq BOOLEAN
    /\ Contexts # {}
    /\ Bodies \subseteq Seq(Section)
    /\ {MaxEvents, MaxChecks} \subseteq Nat

VARIABLES
    pr,         \* head, body and base of the pull request now
    events,     \* payloads not yet delivered, oldest first
    past,       \* payloads of the jobs that were started
    job,        \* the newest job: pc, payload, and whether it is a re-run
    gate,       \* gate[c]: this check on commit c
    checks,     \* checks[c][x]: the newest run of check x on commit c
    merged,     \* the commit that was merged (0: none)
    \* history
    green,      \* commits on which all other checks were green at one time
    reviewed,   \* commits that were the head under a clean verdict on them
    steps       \* bounds' counters

vars == <<pr, events, past, job, gate, checks, merged, green, reviewed, steps>>

Payload == [head : Commits, body : Bodies, base : {"main", "other"}]

-----------------------------------------------------------------------------
(* parse_verdict and check.                                                 *)

\* Fenced blocks and HTML comments are stripped before any heading is sought.
Sections(body) == {i \in DOMAIN body : body[i].live}

\* Mutant: the first section that is not stripped.
parse_verdict_First(body) ==
    body[CHOOSE i \in Sections(body) : \A j \in Sections(body) : i <= j]

\* The last one.
parse_verdict(body) ==
    body[CHOOSE i \in Sections(body) : \A j \in Sections(body) : j <= i]

\* Mutant: a verdict on any commit.
check_AnyCommit(body, head_sha) ==
    /\ Sections(body) # {}
    /\ LET v == parse_verdict(body) IN v.status = "CLEAN" /\ (v.capped => v.owner)

check(body, head_sha) ==
    /\ Sections(body) # {}
    /\ LET v == parse_verdict(body)
       IN  v.status = "CLEAN" /\ v.commit = head_sha /\ (v.capped => v.owner)

\* What a reader of the rendered body sees: a section that is shown, says
\* CLEAN on c with the owner's decision if one is due, and no section below it.
Clean(body, c) ==
    \E i \in DOMAIN body :
        /\ body[i].live /\ body[i].status = "CLEAN" /\ body[i].commit = c
        /\ body[i].capped => body[i].owner
        /\ \A j \in DOMAIN body : j > i => ~body[j].live

-----------------------------------------------------------------------------
Idle == [pc |-> "idle", on |-> [head |-> 1, body |-> <<>>, base |-> "main"],
         rerun |-> FALSE]

Init ==
    /\ pr \in [head : {1}, body : Bodies, base : {"main"}]
    /\ events = <<pr>>
    /\ past = {}
    /\ job = [Idle EXCEPT !.on = pr]
    /\ gate = [c \in Commits |-> "none"]
    /\ checks = [c \in Commits |-> [x \in Contexts |-> "pending"]]
    /\ merged = 0
    /\ green = {}
    /\ reviewed = IF Clean(pr.body, 1) THEN {1} ELSE {}
    /\ steps = [events |-> 0, checks |-> 0]

(* The pull request.  Every change is an event.                             *)

\* Mutant: the workflow does not listen for edited.
Triggered_NotEdited(new) == new.head # pr.head

\* The workflow's trigger types: opened, synchronize and edited, among others.
Triggered(new) == TRUE

Change(new) ==
    /\ merged = 0
    /\ new # pr
    /\ steps.events < MaxEvents
    /\ steps' = [steps EXCEPT !.events = @ + 1]
    /\ pr' = new
    /\ events' = IF Triggered(new) THEN Append(events, new) ELSE events
    /\ reviewed' = IF Clean(new.body, new.head) THEN reviewed \cup {new.head} ELSE reviewed
    /\ UNCHANGED <<past, job, gate, checks, merged, green>>

Push(c)     == c > pr.head /\ Change([pr EXCEPT !.head = c])
EditBody(b) == Change([pr EXCEPT !.body = b])
Retarget(b) == Change([pr EXCEPT !.base = b])

\* A run of another check on commit c ends, or is started again.
CheckStep(c, x) ==
    /\ merged = 0
    /\ steps.checks < MaxChecks
    /\ steps' = [steps EXCEPT !.checks = @ + 1]
    /\ \E s \in IF checks[c][x] = "pending" THEN {"success", "failure"} ELSE {"pending"} :
         checks' = [checks EXCEPT ![c][x] = s]
    /\ green' = IF \A y \in Contexts : checks'[c][y] = "success" THEN green \cup {c} ELSE green
    /\ UNCHANGED <<pr, events, past, job, gate, merged, reviewed>>

\* GitHub's own rule: every required check of the head is green.
Merge ==
    /\ merged = 0
    /\ pr.base = "main"
    /\ gate[pr.head] = "success"
    /\ \A x \in Contexts : checks[pr.head][x] = "success"
    /\ merged' = pr.head
    /\ UNCHANGED <<pr, events, past, job, gate, checks, green, reviewed, steps>>

-----------------------------------------------------------------------------
(* The workflow.  A new job cancels the one in progress, whose check run    *)
(* then ends without success.                                               *)

StartJob(p, rerun) ==
    /\ job' = [pc |-> "judge", on |-> p, rerun |-> rerun]
    /\ gate' = [c \in Commits |->
                  IF c = p.head THEN "pending"
                  ELSE IF job.pc # "idle" /\ c = job.on.head THEN "failure"
                  ELSE gate[c]]

Deliver ==
    /\ merged = 0
    /\ events # <<>>
    /\ StartJob(Head(events), FALSE)
    /\ events' = Tail(events)
    /\ past' = past \cup {Head(events)}
    /\ UNCHANGED <<pr, checks, merged, green, reviewed, steps>>

\* A person runs an earlier job again; github.event is what it was then.
Rerun(p) ==
    /\ Reruns
    /\ merged = 0
    /\ job.pc = "idle"
    /\ p \in past
    /\ StartJob(p, TRUE)
    /\ UNCHANGED <<pr, events, past, checks, merged, green, reviewed, steps>>

Post(ok) ==
    /\ gate' = [gate EXCEPT ![job.on.head] = IF ok THEN "success" ELSE "failure"]
    /\ job' = [job EXCEPT !.pc = "idle"]

Rest == <<pr, events, past, checks, merged, green, reviewed, steps>>

\* Mutant: the opener's identity is enough.
BotCandidate_Opener(p) == TrustedOpener /\ p.base = "main"

\* The trust anchors hold at this base, the opener is trusted, and the head
\* commit is the bot's own.
BotCandidate(p) == TrustedOpener /\ p.base = "main" /\ p.head \in BotCommits

\* main: the bot path if all of that could be fetched and holds, else the
\* verdict in the payload's body.
Judge ==
    /\ merged = 0
    /\ job.pc = "judge"
    /\ \/ BotCandidate(job.on) /\ job' = [job EXCEPT !.pc = "poll"] /\ UNCHANGED gate
       \/ Post(check(job.on.body, job.on.head))
    /\ UNCHANGED Rest

Passes(now) == \A x \in Contexts : now[x] = "success"

\* poll_bot_required_checks, the clock left out: one read, and the decision
\* it leads to; a read that decides nothing is repeated until time is up.
Poll ==
    /\ merged = 0
    /\ job.pc = "poll"
    /\ LET now == checks[job.on.head]
       IN  job' = [job EXCEPT !.pc = IF Passes(now) THEN "passed" ELSE "failed"]
    /\ UNCHANGED <<gate, Rest>>

PostPoll ==
    /\ merged = 0
    /\ job.pc \in {"passed", "failed"}
    /\ Post(job.pc = "passed")
    /\ UNCHANGED Rest

JobStep == Judge \/ Poll \/ PostPoll

Next ==
    \/ \E c \in Commits : Push(c)
    \/ \E b \in Bodies : EditBody(b)
    \/ \E b \in {"main", "other"} : Retarget(b)
    \/ \E c \in Commits, x \in Contexts : CheckStep(c, x)
    \/ Merge
    \/ Deliver
    \/ \E p \in past : Rerun(p)
    \/ JobStep

Spec == Init /\ [][Next]_vars

FairSpec == Spec /\ WF_vars(Deliver) /\ WF_vars(JobStep)

-----------------------------------------------------------------------------
\* Types; and only a bot's own head is judged by the other checks.
TypeOK ==
    /\ pr \in Payload
    /\ events \in Seq(Payload)
    /\ past \subseteq Payload
    /\ job \in [pc : {"idle", "judge", "poll", "passed", "failed"}, on : Payload,
               rerun : BOOLEAN]
    /\ job.pc \in {"poll", "passed", "failed"} =>
         TrustedOpener /\ job.on.base = "main" /\ job.on.head \in BotCommits
    /\ gate \in [Commits -> {"none", "pending", "success", "failure"}]
    /\ checks \in [Commits -> [Contexts -> {"pending", "success", "failure"}]]
    /\ merged \in Commits \cup {0}
    /\ green \cup reviewed \subseteq Commits
    /\ steps \in [events : 0..MaxEvents, checks : 0..MaxChecks]

\* A commit is vouched for when it was the head under a clean verdict on it,
\* or when the bot that opened the PR also made it and every other required
\* check was green on it at one and the same time.
Vouched(c) == c \in reviewed \/ (TrustedOpener /\ c \in BotCommits /\ c \in green)

\* What is merged was vouched for: no verdict on an earlier head, no quoted
\* or superseded verdict, no job on an outdated payload and no bot's name on
\* somebody else's commit lets a head through.
MergedIsVouched == merged # 0 => Vouched(merged)

\* When every event has been judged, and nobody ran an older job again since,
\* the check on the head is green only under the body as it is now:
\* withdrawing a verdict turns it red again.
GateFollowsBody ==
    events = <<>> /\ job.pc = "idle" /\ ~job.rerun /\ gate[pr.head] = "success" =>
        \/ Clean(pr.body, pr.head)
        \/ TrustedOpener /\ pr.head \in BotCommits /\ pr.head \in green

\* A clean verdict that stays on a head the bot path does not take turns the
\* check green in the end, although later events cancel the job that judges
\* it, unless somebody runs an older job again after the last event.
VerdictTurnsGreen ==
    <>[](/\ merged = 0
         /\ ~job.rerun
         /\ Clean(pr.body, pr.head)
         /\ ~(TrustedOpener /\ pr.base = "main" /\ pr.head \in BotCommits))
        => []<>(gate[pr.head] = "success")
=============================================================================
