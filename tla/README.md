# A formal model of gitapex

gitapex is a plugin of skills and hooks for coding agents, plus the gates that
its own repository runs on GitHub.  Most of it is text processing.  What is
hard in it is elsewhere: hook processes that share one file without a lock,
workflows that cancel each other, scripts whose calls to GitHub are carried out
and lose their answers, an installer that is killed between two files, a server
and a browser tab that outlive each other, and people who edit what a job is
judging.  The TLA+ modules in this directory model that part; TLC checks them on
small instances and TLAPS proves what matters most for all instances.

Paths below are relative to the repository's root.

## 1. The system

### 1.1 Components

| component | state it keeps | operations | what makes it correct | module |
|---|---|---|---|---|
| Review-obligation tracker and Stop hook (`hooks/gitapex_check_post_review_obligation_tracker.py`, `hooks/gitapex_check_stop_review_obligation.py`) | one marker file per session | PostToolUse: `handle_bash`, `handle_resolve_review_thread`, `handle_pull_request_read`; Stop: `_load_state`, `evaluate`, unlink | a turn that pushed ends only after the PR's threads and mergeable_state were read; no lost update, PR switch or unreadable file ends it earlier; a blocked turn can be ended | `ReviewTracker`, `ReviewObligation`, `TurnGate` |
| GitHub HTTP client (`.github/scripts/_gitapex_github_http.py`) | none | `request_with_retry`, `call_json`, `fetch_json_document`, `graphql_call` | a call's result says no more than its answers did; a retry may repeat a request that was carried out | `GithubHttp` (partly) |
| Independent-review gate (`gitapex_gate_independent_review_pending.py`, `independent-review-pending.yml`) | the check run on each head | triggers and cancellation, `parse_verdict`, `check`, the trusted-bot path and its poll | nothing is merged that no clean verdict or no trusted bot vouches for; the last event has the last word | `IndependentReviewGate`, `BotMergeGate` |
| ACM issue gate (`gitapex_gate_acm_issue_disclosure.py`, `acm-issue-gate.yml`) | a label and a comment on the issue | flag, unflag | the label says what the body says, and the issue is told once | `AcmIssueGate` |
| Retrospective stub opener and sweep (`gitapex_post_merge_retro.py`, `gitapex_stale_retro_stub_autoclose.py`) | the retrospective issues of a PR and their comments | search, open; list, look, comment, close | one retrospective; no close without its comment; every stale stub is closed in the end | `RetroStub` |
| Class B toolchain provisioner (`skills/setup-gitapex-toolchain/scripts/gitapex_provision_class_b.py`) | a cache of tools and their receipts that the user's checkouts share, each checkout's deployed packages | check, download, write or clear-unpack-shim, smoke test, receipt; `apm install` and its receipt | what is reported ready is whole and pinned, a receipt vouches for what it names, a failed or killed session costs nothing that worked and does not jam the next | `ProvisionClassB` |
| Ruleset application and drift scan (`gitapex_apply_rulesets.py`, `gitapex_scan_ruleset_drift.py`, `_gitapex_rulesets.py`) | GitHub's rulesets | list (paged), read, write once, verify, compare | success means the committed rules are in force; a ruleset is made once; a scan tells the truth | `RulesetApply` |
| Brainstorm server (`skills/eliciting-a-design/scripts/server.cjs`, `helper.js`) | a project's port and key files; per server its screens and the user's clicks; the tab's socket and queue | start, bind or fall back, write down; push, debounce, broadcast; record a click; reconnect, reload | an open tab survives restarts, what is pushed is shown, clicks are neither doubled nor reordered nor cleared too early | `VisualCompanion` (partly) |
| Base-ref fetch and local preflight | the clone's remote-tracking refs | fetch, compare, run gates | no verdict on a ref that the fetch did not bring | not modelled |
| Gate-proposal filing and dedup, isolation registry reporting | GitHub issues and PRs | search, then create | no second report of one thing | not modelled |
| Branch-plan task verification | none | check one worktree once | - | not modelled |
| Verified isolated dispatch | a scratch copy | one external run, compare | - | not modelled |
| Retrospective gate drift scan, eval suite runner, Bash-safety classifiers, provenance and deny hooks, static gates and lints, opencode port, evaluation scorers | none that outlives a call | parse, judge, report, generate | pure, and wholly about text | not modelled |

### 1.2 How they interact

* The two review-obligation hooks never call each other.  They share the
  session's marker file: PostToolUse processes read it, decide and replace it
  whole; the Stop process reads it and unlinks it.  The host runs read-only
  calls of one batch, and so their hooks, at the same time.
* The scripts under `.github/scripts` share nothing but GitHub.  Most of them go
  through the HTTP client; `GithubHttp` is extended by the modules of its
  callers, and a call is a choice among the outcomes that client allows.
* The workflows decide which jobs exist together.  A new event *cancels* the
  review gate's and the ACM gate's job in progress; the opener, the sweep and
  the ruleset runs that write *queue*, one run at a time.
* Two checkouts of one user provision into one cache, and the receipt of the
  last `apm install` is shared as well.
* Servers of a project hand port and key to their successors through two files;
  a tab knows its server only by that port and that key.
* People and agent sessions push, edit, retarget, review, reopen, close, reload
  and check out commits while any of this runs.  They are actions of the models,
  bounded in number.

### 1.3 What is hard

Lost updates between unlocked hooks; a PR switch or a second push in one turn;
an unreadable file; a payload older than the PR it judges; a job cancelled
between two of its calls; checks that are run again while a poll waits for
others; a request carried out whose answer is lost; a process killed between the
comment and the close, or between a tool's tree and its receipt; a listing that
changes between two pages; a server that falls back to another port; a Stop hook
that could refuse for ever.  `PROJECT.json` lists each of these at its line,
with the properties that are about it, or a note where none is.

## 2. Modules and how they correspond to the code

`PROJECT.json` maps every definition to its lines.

**ReviewTracker** is the tracker's pure part: the state object (`State`,
`DefaultState`, `ArmedState`), PR keys and `_same_pr` (`SamePr`), the three
handlers, and `Missing`, the conditions of the Stop hook's `evaluate`.

**ReviewObligation** (on top of it) is a session.  A tool call (`Push`,
`Resolve`, `ReadComments`, `ReadPr`, `ReadOther`) changes GitHub and starts a
hook process in a free slot; the process then takes the steps `ReadState`,
`AskGithub` (a push only), `Persist`, or ends without its write (`HookFails`).
`StopRead` and `StopClear` are the Stop hook's evaluation and its unlink.
`owed`, `pushed`, `seen`, `resolves` and `known` are history: they record what
the agent did and no hook reads them.  That is what the properties compare the
marker file with.

**TurnGate** is the abstract promise: a push binds a turn to two duties, a call
discharges at most one of them, a bound turn is over only when none is due.
`ReviewObligation!Gate` is the refinement mapping: `GatePhase` and `GateDue` are
read off the marker file, the end of the turn off the Stop hook.

**GithubHttp** gives, for a call of at most n attempts, the set of pairs of an
answer (ok, client error, transient error) and the number of times GitHub
carried the request out; and the longest time a call takes.

**IndependentReviewGate** is one pull request: its head, body and base; the
events with the payload of their time; the job; the check on every head; the
other required checks; GitHub's merge rule.  A body is a sequence of verdict
sections, each live (neither fenced nor commented out) or not, with status,
commit, round cap and owner decision: these are what `parse_verdict` and
`check` tell apart.  The bot path's poll is one read here, its clock left out.

**BotMergeGate** is that poll in detail, for one job: the GETs before it, each
of some seconds; the reads of the check runs; the deadline and the naps; CI that
queues, starts, ends and re-runs checks in between; the job's own timeout.

**AcmIssueGate** has one action per call of the script, in its order, an event
queue and a run that the next event replaces wherever it is.

**RetroStub** has the opener, the sweep with its calls one at a time (`List`,
`Take`, `Look`, `Comment`, `Patch`, `SweepDies`), the agent session that files or
fills in a retrospective, the search index that lags, and people who close and
reopen issues.

**ProvisionClassB** has the files (`disk`: receipt, entry point, support tree
and shim of each tool; `apmReceipt`; `deployed`) and one session at a time that
changes them a step at a time: `Check`, `Download`, then `Write` for a binary or
`Clear`, `Unpack`, `Shim` for a tool with a tree, `Smoke`, `WriteReceipt`, and
for the checkout `WriteEnv`, `CheckApm`, `run_apm_install`, `WriteApmReceipt`.
`Fault` makes a step raise or kills the session there, with whatever that step
can leave behind (`Leftovers`).  Commits are checked out at any time; files are
lost or damaged between sessions.  `torn` and `owner` are history.

**RulesetApply** has GitHub's rulesets in listing order, the committed file and
one run of either workflow: `plan`, `apply`, and the scan's two scopes `full` and
`required-checks`.  A run lists page by page (`Listed`), reads the ruleset of
its name (`Detailed`), writes once (`Write`, `WriteFails`) and verifies what
GitHub says it stored.  A read has two ways to fail, with an exit code each
in a scan: no document (`ReadFails`, a GitHubApiError) and one that is no
ruleset (`ReadIsNoRuleset`, a RulesetError).  People make, change and delete
rulesets and commits change the file between any two of these calls.  What a
ruleset says is its required checks, whether anyone may pass it by, and whether
its rules carry the parameters GitHub adds (`defaults`): a write is verified
by inclusion, the full scan compares for equality.

**VisualCompanion** has the servers of a project in the order they are started
(`preferredPort`, `initialToken`, `Listen` with its one fallback, `WritePort`,
`WriteToken`, `Stop`), their screens (`Push`, `Debounced`), what is on the wire
from the tab (`handleMessage`), and one tab: `Open`, `onmessage`, `Connect`
(handleUpgrade and onopen), `onclose`, `ClickOn`.  The key a server makes is as
good as its name.

`MC*` modules only give TLC its instances.  `*Proofs` modules hold the theorems.
Operators marked "Mutant" are plausible mistakes in the code; no specification
uses them.  Each property has one under which TLC finds it violated.

## 3. What is checked

| run | instance | what it shows |
|---|---|---|
| `obligation_overlap` | 2 PRs, 2 hook processes at the same time, all calls but pushes overlapping and losable, an unreadable file, 4 calls | lost updates delay the end of a turn, they never let it end early; neither a read nor a resolve is credited without the call behind it; an unreadable file ends no turn |
| `obligation_live` | 2 PRs of one number in two repositories (their bare keys collide), one opened only later, error responses, 3 free calls and an agent that does what it is told | a blocked turn ends, whichever form of key each call carries; `TurnGate` is implemented |
| `obligation_resolve_first` | violated: `KnownThreadsResolved` | see 3.2 |
| `review_gate` | 2 heads, one by the bot, 7 bodies, 2 other checks with 3 steps, 2 changes, re-runs of any earlier job | what is merged was vouched for; without a re-run since, the last event has the last word; a clean verdict that stays turns the check green |
| `bot_poll` | the gate and 2 other contexts, 2 runs of each, poll timeout 3, interval 2, GETs of 0 or 15 s, job timeout 40 | the poll passes on the newest runs of one read, gives up only after a read at its deadline, overruns by one GET at most |
| `acm_flag` | 4 edits, every outcome of every call | the label follows the body; one call ever tells the issue |
| `acm_comment_retry` | violated: `ToldOnce` | see 3.2 |
| `retro` | 2 issues, GitHub refuses to close issue 1; 3 opener runs, 1 session, 1 reopening, 2 faults (a call that fails or loses its answer, a sweep that dies) | told once, and before the close unless a person reopened it; one retrospective unless a search missed one; every other stale stub is closed or filled in |
| `provision` | 2 checkouts, a tool with a tree and one without, 3 commits (one bumps a pin, one the lockfile), 2 troubles | see `ReceiptsVouch`, `ReadyIsWhole`, `SuccessIsComplete`, `ReplacedOnlyByVerified`; sessions keep succeeding |
| `companion` | 3 servers, 2 ports, 1 push, 2 clicks, 1 trouble | an open tab's port and key stay good; clicks keep their order and are not doubled |
| `companion_live` | 2 servers, 2 ports, 2 pushes, 1 click | only older answers are cleared; what is pushed is shown; a tab reconnects, and after a long outage shows the newest screen |
| `rulesets` | 2 names, 1 check, 3 files, 3 settings by hand, pages of 1 up to 3, 2 edits, 1 trouble | an apply that exits 0 is in force; writes make no second ruleset and change no other; what a scan's exit code says is so; later dispatches reconcile |

Deadlock is checked in `obligation_live`, where a session always goes on.  In the
other runs a system stops when its bounded events are used up, or after a merge.

### 3.1 Why the bounds are enough

* Obligation: a wrong credit takes a push, a read of one PR, a read of another
  and the end of the turn; four calls hold any such sequence.  Two PRs with the
  same number are the only case in which bare keys collide.  Two hooks are
  enough for a lost update: the file is replaced whole, and a third writer is
  one more stale snapshot of the same kind.
* Review gate: a job judges one payload, and what can be wrong with it is that
  the PR has moved on; any two of a push, an edit and a retarget show that.  The
  bodies are one of each kind that `parse_verdict` and `check` treat
  differently, for the head before and after.
* Bot poll: two contexts and two runs each let one check be run again while the
  other is waited for; the poll reads up to three times.  GETs take nothing or
  the longest time a call of three attempts can take.
* ACM and retrospective: all outcomes of the client's one or three attempts;
  four edits let a run be cancelled between any two calls and be followed by
  runs on bodies of both kinds.
* Provisioner: two troubles are a killed session and a pin that is switched, or
  a lost file and a failed download; a second checkout is what makes the shared
  receipt somebody else's.
* Companion: three servers are the one that a tab was loaded from, one beside it
  that must fall back, and their successor.  One trouble is a file that could
  not be written, a port taken by another program, a server killed while it
  starts, or a page reloaded by hand.  The liveness run has two servers, the one
  that stops and its successor, and two screens, so that one can be old.
* Rulesets: pages of one, three at most, stand for the code's pages of 100 and
  its ceiling of 20: an empty, a full and a last page, and one too many, occur
  with three rulesets.  Two edits are what it takes to change the listing both
  before and behind the page that is being read.  The three files differ in
  checks, name and defaults, and people set by hand what lacks the check, what
  has it with GitHub's defaults, and what has it and lets someone pass: each
  comparison in the code comes out both ways.  What a write leaves is any content.

The theorems of section 4 hold for every value of all these constants, the bounds
on how much happens (`MaxCalls`, `Troubles` and the like) among them.

`SYMMETRY` is used for the hook slots, the other checks and the ports, in runs of
invariants and action properties only.

### 3.2 What the code does other than its docs say

Two statements have a run that violates them:

* `obligation_resolve_first`.  Resolves are counted since the PR was tracked, the
  open threads at the last listing.  Resolving one of two threads and then
  listing leaves 1 >= 1, and the turn ends with a thread just shown unresolved.
* `acm_comment_retry`.  `post_comment` leaves the client its default of three
  attempts, against the client's own rule for comments.

The others were met while modelling.  They are the code's behaviour, and the
properties are stated so as not to depend on them:

* A push to a branch without an open PR resets the marker file to its default,
  and drops what an earlier push of the same turn had armed (tracker, line 617).
  `AllowedOnlyOnEvidence` is about turns whose pushes have their PR.
* An error answer to get_review_comments is recorded as a count of zero threads
  (tracker, line 672): such a listing counts as evidence in `Backed`.
* A bare key between two qualified ones joins the reads of two repositories
  (tracker, lines 354 and 663): `Concerns` accepts it.
* A push whose hook could not write leaves no file, and the Stop hook reads no
  file as no obligation (tracker, line 737): pushes are not in `MayFail`.
* The review job judges the body of its event: run again by hand, an earlier one
  can turn the head green after the verdict was withdrawn.  `GateFollowsBody`
  leaves such a job out; `MergedIsVouched` does not.
* `_sort_key` puts a run without started_at below every other one, so that a
  queued re-run would lose against the old success.  `QueuedHasStart = TRUE`
  assumes GitHub always gives one.
* Up to three GETs of at most 105 s each precede a poll of 900 s that may overrun
  by one more: 1320 s, against a job timeout of 1200 s.
* The sweep looks for its comment among the issue's first 100 (one page): behind
  more, it would comment again.  In the model an issue never has so many.
* A reopened stub is closed again without a new comment, because the old one is
  found: `EveryCloseTold` excepts what a person reopened.
* An issue that is filled in between the sweep's listing and its PATCH is closed;
  no property excludes it.
* A wrapped tool whose tree was being replaced when a session was cut off may
  keep the receipt and, by a failed unpacking, the entry point of a pin while its
  support tree is gone: if the pin is switched back, it is taken for installed.
  `ReadyIsWhole` excepts such a tree (`torn`).
* "UNCHANGED: apm install" goes by a receipt that all checkouts of a cache share,
  and that is written from the lockfile as it is after the install.
  `SuccessIsComplete` relies on it only for the checkout that wrote it, if its
  lockfile stood still meanwhile and no install failed since.
* A 2xx whose body is JSON but no array of rulesets, or no ruleset, is a
  RulesetError (`_gitapex_rulesets.py`, lines 167 and 205), and the scan ends that
  with 1, the code for drift, although it compared nothing.  Its docstring says
  "the whole read-failure class is exit 2" (lines 52-53), and so does
  `docs/runbooks/rulesets.md` (line 322); its comment at line 258 says "Not a read
  failure".  `ScanTellsTheTruth` names this one exception (`garbled`): without it
  the property is false.  A read that fails in any other way is never reported as
  drift.
* A ruleset renamed in the file leaves the old one in force, and one changed by
  hand between listing and write may be duplicated or overwritten.  `AppliedIsLive`,
  `WritesOnlyItsOwn` and what `ScanTellsTheTruth` says of exit codes 1 and 2 leave
  out a run during which that happened (`touched`).  What it says of exit 0 holds
  of every scan: the ruleset that was read agrees as it is then with the file as
  it was when the scan began.  A later commit is not noticed.
* An apply verifies that what GitHub stored includes the file, and the full scan
  compares for equality.  A ruleset to whose rules GitHub added defaults is in
  force for the one and drift for the other (exit 1, which `ruleset-verify.yml`
  calls "a real regression"), until the file spells the defaults out.
  `find_subset_mismatches` gives the reason for the difference.
* Two servers that make their first start at once, or one that cannot write one
  of its two files, can leave the port of one with the key of another: a tab is
  then refused by the next server (`raced`, `spoiled`, left out by `Orderly`).
* A screen that is pushed between a page's GET and the opening of its socket, or
  in an outage too short for the overlay, is shown only with the next push:
  `PushedIsShown` is about open sockets, `PausedTabRecovers` about long outages.
* A click on a page that was loaded before its server knew of the screen (100 ms
  of debounce) can be cleared (`early`), and clicks queued in an outage are sent
  to the next server, whose screens they may not be about.

### 3.3 Fairness

* `ReviewObligation!FairSpec`: hook processes run to their end (they have no loop
  and the host waits for them), the agent does eventually what the Stop hook's
  message asks for, and the host fires the Stop hook whenever the agent stops.
  Nothing is assumed of undirected calls, of reviewers or of new turns.
* `IndependentReviewGate!FairSpec`: GitHub starts a job for each event, and a job
  goes on (every wait in it has a timeout).  Nothing is assumed of people, of the
  other checks, or of the merge.
* `RetroStub!FairSpec`: the schedule starts the sweep every day while a stale stub
  is open, and a sweep goes on.
* `ProvisionClassB!FairSpec`: a session goes on unless it is killed (downloads and
  tools have timeouts), and sessions keep being started in each checkout: strong
  fairness, since sessions elsewhere keep disabling it.
* `VisualCompanion!FairSpec`: a process that runs goes on, its timers fire and its
  sockets are read, and the tab's script goes on trying to reconnect, as its
  back-off without a last attempt does.  Nothing is assumed of users, of stops or
  of new servers.
* `RulesetApply!FairSpec`: a run goes on, and the operator dispatches `apply` again
  and again.  `RunsReconcile` says that this is enough, not that one run is.

## 4. What is proved

All theorems hold for every value of the constants, from the assumptions the
modules state of them.

| module | theorems | the inductive invariant |
|---|---|---|
| `ReviewObligationProofs` | `TypeCorrect`; `ProgressIsEarned` (`EvidenceBacked`), `TurnEndsOnEvidence` (`AllowedOnlyOnEvidence`), `UnreadableIsArmed` (`UnreadableBlocks`), all under `Calm`; `OneDuty`, of what a call does; `SessionIsATurnGate` (`ImplementsTurnGate`) with calls one at a time | `Safe`, `Counted`; `Serial` |
| `IndependentReviewGateProofs` | `TypeCorrect`, `CheckIsClean`, `MergeIsVouchedFor`, `CheckFollowsBody` | `Backed`; `LastWord` |
| `BotMergeGateProofs` | `TypeCorrect`, `PassIsEarned`, `GivesUpInTime`, `PollEndsInTime`, all under `QueuedHasStart` | who was asked how far the job has come (`Trusted`), the poll's clock (`Timely`) |
| `AcmIssueGateProofs` | `TypeCorrect`, `FlagIsRight`, `OneCallTells` | the last event carries the present body, and a run's step says which verdict it is acting on (`Current`) |
| `RetroStubProofs` | `AnswerMeans`, of `GithubHttp`: what an answer says of how often the request was carried out, for any number of attempts; `TypeCorrect`, `ToldOnceAlways`, `NoSilentClose`, `OneIsOpened` | an issue with a comment was told or reopened (`TellsOrReopened`), the sweep is about to comment only where there is none, and an opener about to create has seen that it opened none (`SearchedFirst`) |
| `ProvisionClassBProofs` | `TypeCorrect`, `ReceiptsVouchAlways`, `ReadyToolsAreWhole`, `SuccessIsTrue`, `NothingLostToADownload` | what each step has made of the tool in hand (`HalfMade`), that trees match entry points where no session was cut off (`TreesMatch`), what was asked for (`Asked`), what the shared receipt says (`Owned`) |
| `RulesetApplyProofs` | `TypeCorrect`, `SuccessIsLive`, `ScanIsTrue`, `OthersUntouched` | the ids of the name among the pages read so far (`ListedSoFar`), and after the last page, all of them (`Joined`) |
| `VisualCompanionProofs` | `TypeCorrect`, `TabIsServed`, `ClicksKeepOrder`, `NoFreshAnswerCleared` | what the two files say of the servers and of the tab (`OneFirstStart`, `Agree`, `TabAgrees`), the three stations of a click (`InOrder`), which screens nobody is still to learn of (`Seen`) |

**Assumptions beyond the constants'.**  `Calm`: a push does not overlap other
calls, its hook is not lost, and its branch has an open PR.  The first is what
the host does with a call that is not read-only; without the other two the
statements are false (3.2).  The other hooks interleave and fail at will.
`OneAtATime`: the host overlaps no two calls; everything else that `Calm` rules
out may happen.  With overlap the refinement is false: a decision made for one PR and
written over a switch to another discharges both duties of the other at once.
(The evidence for both is there, as `AllowedOnlyOnEvidence` says.)
`QueuedHasStart`: see 3.2.

**TurnEndsOnEvidence.**  `AllowedOnlyOnEvidence` is far from inductive: it speaks
of the end of a turn, and what is true then follows from what each process
decided on, perhaps long before.  `Safe` adds, from the end to the beginning:

* the Stop hook clears the file only if it asked for nothing
  (`SatisfiedWhenClearing`), and no hook runs then (`QuietStop`);
* while a PR is owed and no push is under way, there is a file that says so
  (`OwedIsArmed`);
* the file's progress is backed by the reads since the last push
  (`ReadsBacked`), and so is the decision of every process (`ReadHooks`): a stale
  snapshot that is written back brings in nothing unbacked;
* a push runs alone (`PushAlone`), so that no process can write progress of
  before it afterwards (`PushHooks`).

`ProgressIsEarned` adds the resolves.  `Counted`: what the file, or a decision,
credits, together with the resolves whose hook has not read the file yet, is at
most what succeeded since the push.  `UnreadableIsArmed` follows from `Safe`: what
a process writes over an unreadable file is a change, hence armed.

**SessionIsATurnGate** goes step by step.  `Serial` says that one process runs at a
time and that what it read is still there or was spoilt since.  The theorem
`OneDuty` says that a call which changes the state found it armed and discharges
one of the two duties at most: a read of mergeable_state either leaves the
threads as they were or, by switching the PR, makes them due again.

**MergeIsVouchedFor** rests on `Backed`: every payload that waits, was delivered
or is being judged was once the PR itself (so that a clean verdict in it is in
`reviewed`); the head of a job that passed its poll was green once; hence every
commit on which the gate is green is vouched for, now and later, whatever is
withdrawn or run again.  The theorem `CheckIsClean` shows that `check` accepts only
a body that a reader would call clean: that the last live section exists comes
from the well-foundedness of the naturals.  `CheckFollowsBody` adds that the last
event, or the job that took it, carries the PR as it is.

**RulesetApplyProofs.**  A listing is a join of pages read at different times.
`ListedSoFar` says that, while nobody touches a ruleset, the matches so far are
the ids of that name among the first (page - 1) * PageSize rulesets, each once; a
short page then means that there are no more, for any page size.  `SuccessIsLive`
adds that what passes the check after a write is the file, with GitHub's defaults
or without (`VerifiedIsKept`).  `ScanIsTrue` is about the step that ends a scan,
since nothing keeps its answer true afterwards: the listing ends it with 1 or 2 and
never with 0 (`ListTells`), the read of the ruleset with what the comparison says of
a live one (`DetailTells`), a read that fails with 2, and one that yields no
ruleset with 1.  The file may say anything of the right type, people may set anything that is a
ruleset (`Settings`), and a write may store anything.

**VisualCompanionProofs.**  `TabIsServed` needs the files and every server that
is starting or live: until both files are there, one server at a time is starting
(`OneFirstStart`, which `Orderly` gives), so that both are of one server; every
later one reads them, and no server that is not on a fallback has another port or
key (`Agree`).  The tab, whose page such a server gave it, then has those of the
files (`TabAgrees`).  `ClicksKeepOrder` keeps apart what a server recorded, what is
on its wire and what the tab has queued for it: each is in order and all of it
before the next one.  That the queue of a tab without a socket may go to any
server is part of the invariant (`Queued`).  `NoFreshAnswerCleared` is about a
timer that meets a new screen.  A click of a page that was not loaded too early
is on a screen that every server which has it already knows, and that no other
will ever have (`Seen`, by `OwnScreens`); the new screen is not one of those, so
what is cleared answers another one.

**Only model-checked** are the liveness properties: `BlockedTurnCanEnd`,
`VerdictTurnsGreen`, `StubsAreCleared`, `SessionsSucceed`, `RunsReconcile`,
`PushedIsShown`, `TabReconnects`, `PausedTabRecovers`.  Liveness under fairness is
beyond the proof system.  They hold on the instances above and are not proved in
general.  Every invariant and every action property that a passing run checks,
and the refinement of `TurnGate`, is stated by a theorem.

## 5. What the models leave out

Of the components that are modelled:

* What makes a Bash command a push, and a push to a branch other than the one
  checked out: a call has a kind.
* A session that is restarted: it has a file of its own.
* The text of bodies and comments, the comparison of SHA prefixes, the pages of
  the check-runs listing: a body is its sections, a listing one read.  (The pages
  of the ruleset listing are modelled.)
* `graphql_call`; a request that is still under way when its job is cancelled;
  people who take labels off issues or delete comments.
* Two provisioning sessions at the same time: nothing in the code orders them,
  and their effects would be those of two writers of the same files.  Parsing of
  flake.nix, `--verify`, `--skip-apm-install` and forced installs.
* The other fields of a ruleset, an array that holds something else than rulesets,
  and a committed file that is unusable.
* Two runs of the ruleset workflows at the same time: those that write are
  queued, and what a write does to a scan, an edit by hand does in the model.
* More than one tab; frame encoding, serving of files, the cookie apart from the
  key, a frame that overtakes another, opening a browser, `BRAINSTORM_TOKEN`,
  server-info and server-stopped, and stop-server.sh's check of the process.

Of the components that are not:

* Base-ref fetch and preflight are sequences of git commands in one checkout.
  What they get wrong depends on git's texts and exit codes, which the repository
  shows only through recorded fixtures.
* Gate-proposal filing and registry reporting have the shape of the retrospective
  opener, search and then create over the same client; the judgement in between
  is text similarity.
* Task verification and isolated dispatch run once, in one process, on a tree that
  nobody else is promised to leave alone; nothing outlives them.
* The Bash-safety classifiers, the deny hooks, about sixty gates, scans and lints,
  the port generator and the evaluation scorers make up nearly all of the
  repository's lines.  They are functions of a text or of the files of a checkout,
  without state, steps or partners.  A model of a shell parser that is faithful is
  as long as the parser, and one that is shorter says nothing about it.  That is
  why the modelled lines are a small share of the repository's, although they are
  most of those that keep state between two calls.

## 6. What could follow

A model of two provisioning sessions at once, with
the file system's rename as the only atomic step; the pages of the check-runs
listing in `BotMergeGate`, as `RulesetApply` has them; the gate-proposal filing,
if its dedup judgement is given a specification.
