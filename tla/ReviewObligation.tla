-------------------------- MODULE ReviewObligation --------------------------
(***************************************************************************)
(* One session's review obligation: the agent's tool calls, the PostToolUse *)
(* hook process each of them starts (an unlocked read - decide - replace of *)
(* the marker file), the Stop hook that reads the file when the turn ends,  *)
(* and the pull requests on GitHub the calls are about.                     *)
(***************************************************************************)
EXTENDS ReviewTracker, FiniteSets

CONSTANTS
    Prs,        \* the pull requests of this instance
    Threads,    \* review threads a pull request can have
    Hooks,      \* slots for hook processes that run at the same time
    NotYetOpen, \* those whose branch has no open pull request at the start
    PageSize,   \* threads one get_review_comments response shows
    Overlap,    \* kinds of call the host runs at the same time as others
    MayFail,    \* kinds of call whose hook may end without writing
    ReadErrors, \* TRUE iff an error response of a read reaches its hook
    Reresolve,  \* TRUE iff the agent may resolve a thread that is resolved already
    Faults,     \* TRUE iff the marker file may be found unreadable
    Absent, Corrupt,    \* the two contents of the file that are no object
    MaxCalls    \* bound: undirected tool calls and outside events

ASSUME ObligationAssumption ==
    /\ Prs \subseteq PullRequest
    /\ NoKey \notin Prs
    /\ NotYetOpen \subseteq Prs
    /\ IsFiniteSet(Threads) /\ IsFiniteSet(Hooks)
    /\ PageSize \in Nat
    /\ Overlap \subseteq Kinds
    /\ MayFail \subseteq Kinds
    /\ ReadErrors \in BOOLEAN
    /\ Reresolve \in BOOLEAN
    /\ Faults \in BOOLEAN
    /\ MaxCalls \in Nat
    /\ Absent # Corrupt
    /\ Absent \notin State
    /\ Corrupt \notin State

VARIABLES
    file,       \* the session's marker file
    hook,       \* hook[h]: the PostToolUse process in slot h
    stop,       \* the Stop hook: how far the end of the turn got
    openPrs,    \* GitHub: the branches that have an open pull request
    unresolved, \* GitHub: unresolved[p], the unresolved threads of p
    \* history: what the agent did, never read by the hooks
    owed,       \* PRs pushed to, while open, in this turn
    pushed,     \* the PR pushed to last (NoKey: none)
    seen,       \* the reads made since the last push
    resolves,   \* successful resolve calls since the last push
    known,      \* known[p]: threads the last listing of p showed, not resolved since
    calls       \* undirected calls and outside events so far

hooks   == <<file, hook, stop>>
github  == <<openPrs, unresolved>>
history == <<owed, pushed, seen, resolves, known>>
vars    == <<file, hook, stop, openPrs, unresolved,
             owed, pushed, seen, resolves, known, calls>>

-----------------------------------------------------------------------------
Call == [kind : Kinds, pr : Prs \cup {NoKey}, key : PrKey \cup {NoKey},
         ok : BOOLEAN, count : Nat]

NoCall   == [kind |-> "other", pr |-> NoKey, key |-> NoKey, ok |-> TRUE, count |-> 0]
IdleHook == [phase |-> "idle", call |-> NoCall, snap |-> DefaultState, next |-> DefaultState]

HookState == [phase : {"idle", "started", "asking", "decided"},
              call : Call, snap : State, next : State]

Running(h)   == hook[h].phase # "idle"
PushInFlight == \E h \in Hooks : Running(h) /\ hook[h].call.kind = "push"

\* Mutant: an unreadable file is no obligation.
Unsatisfied_FailsOpen == file \notin {Absent, Corrupt} /\ Missing(file) # {}

\* _load_state and evaluate: what makes the Stop hook refuse.
Unsatisfied == file = Corrupt \/ (file # Absent /\ Missing(file) # {})

Init ==
    /\ file = Absent
    /\ hook = [h \in Hooks |-> IdleHook]
    /\ stop = "idle"
    /\ openPrs = Prs \ NotYetOpen
    /\ unresolved \in [Prs -> SUBSET Threads]
    /\ owed = {}
    /\ pushed = NoKey
    /\ seen = {}
    /\ resolves = 0
    /\ known = [p \in Prs |-> {}]
    /\ calls = 0

-----------------------------------------------------------------------------
(* Tool calls.  The tool has run and its PostToolUse hook starts with the   *)
(* response as its payload.  The host overlaps two calls only when it may   *)
(* overlap both.                                                            *)

MayOverlap(kind) ==
    \A h \in Hooks : Running(h) => {kind, hook[h].call.kind} \subseteq Overlap

Start(h, c) ==
    /\ ~Running(h)
    /\ MayOverlap(c.kind)
    /\ stop \in {"idle", "blocked"}
    /\ stop' = "idle"
    /\ hook' = [hook EXCEPT ![h] = [IdleHook EXCEPT !.phase = "started", !.call = c]]
    /\ UNCHANGED file

\* git push of the branch whose pull request is, or would be, p.
Push(h, p) ==
    /\ Start(h, [NoCall EXCEPT !.kind = "push", !.pr = p])
    /\ owed' = IF p \in openPrs THEN owed \cup {p} ELSE owed
    /\ pushed' = p
    /\ seen' = {}
    /\ resolves' = 0
    /\ UNCHANGED <<github, known>>

\* resolve_review_thread on thread t of p.  GitHub accepts it for a thread
\* that is already resolved, too.
Resolve(h, p, t, ok) ==
    /\ Reresolve \/ t \in unresolved[p]
    /\ Start(h, [NoCall EXCEPT !.kind = "resolve", !.ok = ok])
    /\ unresolved' = [unresolved EXCEPT ![p] = IF ok THEN @ \ {t} ELSE @]
    /\ known' = [known EXCEPT ![p] = IF ok THEN @ \ {t} ELSE @]
    /\ resolves' = IF ok THEN resolves + 1 ELSE resolves
    /\ UNCHANGED <<openPrs, owed, pushed, seen>>

\* pull_request_read(method="get_review_comments"): one page of threads.  An
\* error response holds no thread, so the walk over it counts none.
ReadComments(h, p, key, ok) ==
    \E shown \in SUBSET unresolved[p] :
        LET c == [NoCall EXCEPT !.kind = "comments", !.key = key, !.ok = ok,
                                !.count = IF ok THEN Cardinality(shown) ELSE 0]
        IN  /\ \/ shown = unresolved[p] /\ Cardinality(shown) <= PageSize
               \/ Cardinality(unresolved[p]) > PageSize /\ Cardinality(shown) = PageSize
            /\ Start(h, c)
            /\ known' = IF ok THEN [known EXCEPT ![p] = shown] ELSE known
            /\ seen' = seen \cup {c}
            /\ UNCHANGED <<github, owed, pushed, resolves>>

\* pull_request_read(method="get"); ok: the response carries mergeable_state.
ReadPr(h, key, ok) ==
    LET c == [NoCall EXCEPT !.kind = "get", !.key = key, !.ok = ok]
    IN  /\ Start(h, c)
        /\ seen' = seen \cup {c}
        /\ UNCHANGED <<github, owed, pushed, resolves, known>>

\* pull_request_read with any other method.
ReadOther(h, key) ==
    /\ Start(h, [NoCall EXCEPT !.key = key])
    /\ UNCHANGED <<github, history>>

ResponseOk == IF ReadErrors THEN BOOLEAN ELSE {TRUE}

\* Any call the agent may make, whatever the Stop hook asked for.
Undirected(h) ==
    /\ calls < MaxCalls
    /\ calls' = calls + 1
    /\ \E p \in Prs :
        \/ Push(h, p)
        \/ \E t \in Threads, ok \in BOOLEAN : Resolve(h, p, t, ok)
        \/ \E key \in KeysOf(p), ok \in ResponseOk : ReadComments(h, p, key, ok)
        \/ \E key \in KeysOf(p), ok \in BOOLEAN : ReadPr(h, key, ok)
        \/ \E key \in KeysOf(p) : ReadOther(h, key)

\* The next step of an agent that does what the Stop hook's message says, on
\* the PR it pushed to last.  When the message asks for threads to resolve
\* and none is left, the agent lists the threads again.
Directed(h) ==
    /\ stop = "blocked"
    /\ file # Corrupt
    /\ file # Absent
    /\ pushed # NoKey
    /\ UNCHANGED calls
    /\ LET lists == \E key \in {pushed, [pushed EXCEPT !.repo = NoRepo]} :
                        ReadComments(h, pushed, key, TRUE)
           asked == Missing(file)
       IN \/ "comments" \in asked /\ lists
          \/ "resolve" \in asked /\ unresolved[pushed] = {} /\ lists
          \/ "resolve" \in asked /\ \E t \in unresolved[pushed] : Resolve(h, pushed, t, TRUE)
          \/ /\ asked = {"mergeable"}
             /\ \E key \in {pushed, [pushed EXCEPT !.repo = NoRepo]} :
                    ReadPr(h, key, TRUE)

-----------------------------------------------------------------------------
(* The tracker process: process() in three steps, none under a lock.        *)

\* _read_state: an absent or unreadable file reads as the default.  The two
\* local handlers decide at once; a push goes on to ask GitHub.
ReadState(h) ==
    /\ hook[h].phase = "started"
    /\ LET c    == hook[h].call
           snap == IF file \in {Absent, Corrupt} THEN DefaultState ELSE file
       IN  hook' = [hook EXCEPT ![h] =
                      IF c.kind = "push"
                      THEN [@ EXCEPT !.phase = "asking", !.snap = snap]
                      ELSE [@ EXCEPT !.phase = "decided", !.snap = snap,
                                     !.next = Handled(snap, c, "unknown")]]
    /\ UNCHANGED <<file, stop, github, history, calls>>

\* What _branch_has_open_pr can answer: the truth, or that it does not know.
Answers(p) == {"unknown", IF p \in openPrs THEN "open" ELSE "none"}

AskGithub(h) ==
    /\ hook[h].phase = "asking"
    /\ \E answer \in Answers(hook[h].call.pr) :
         hook' = [hook EXCEPT ![h].phase = "decided",
                              ![h].next = Handled(hook[h].snap, hook[h].call, answer)]
    /\ UNCHANGED <<file, stop, github, history, calls>>

\* An unchanged state is not written; a changed one replaces the whole file.
Persist(h) ==
    /\ hook[h].phase = "decided"
    /\ file' = IF hook[h].next = hook[h].snap THEN file ELSE hook[h].next
    /\ hook' = [hook EXCEPT ![h] = IdleHook]
    /\ UNCHANGED <<stop, github, history, calls>>

\* The process ends without its write: no interpreter, an unwritable
\* directory (OSError, suppressed in main), or the host's timeout.
HookFails(h) ==
    /\ Running(h)
    /\ hook[h].call.kind \in MayFail
    /\ hook' = [hook EXCEPT ![h] = IdleHook]
    /\ UNCHANGED <<file, stop, github, history, calls>>

-----------------------------------------------------------------------------
(* The Stop hook: read and evaluate, then unlink.  The host fires it when   *)
(* every hook of the turn has ended.                                        *)

StopRead ==
    /\ stop = "idle"
    /\ \A h \in Hooks : ~Running(h)
    /\ stop' = IF file = Absent THEN "allowed"
               ELSE IF Unsatisfied THEN "blocked" ELSE "clearing"
    /\ UNCHANGED <<file, hook, github, history, calls>>

\* The unlink's own OSError is suppressed: the file may stay.
StopClear ==
    /\ stop = "clearing"
    /\ stop' = "allowed"
    /\ file' \in {Absent, file}
    /\ UNCHANGED <<hook, github, history, calls>>

NewTurn ==
    /\ stop = "allowed"
    /\ stop' = "idle"
    /\ owed' = {}
    /\ UNCHANGED <<file, hook, github, pushed, seen, resolves, known, calls>>

-----------------------------------------------------------------------------
(* Outside events.                                                          *)

Event(e) ==
    /\ e
    /\ calls < MaxCalls
    /\ calls' = calls + 1
    /\ UNCHANGED <<hook, stop, history>>

OpenPr(p) ==
    /\ p \notin openPrs
    /\ openPrs' = openPrs \cup {p}
    /\ UNCHANGED <<file, unresolved>>

\* A reviewer opens or resolves a thread.  Hooks never look at threads, so it
\* is enough to let this happen between them.
Review(p, t) ==
    /\ \A h \in Hooks : ~Running(h)
    /\ unresolved' = [unresolved EXCEPT ![p] = IF t \in @ THEN @ \ {t} ELSE @ \cup {t}]
    /\ UNCHANGED <<file, openPrs>>

Spoil ==
    /\ Faults
    /\ stop # "clearing"
    /\ file \notin {Absent, Corrupt}
    /\ file' = Corrupt
    /\ UNCHANGED github

Outside ==
    \/ \E p \in Prs : Event(OpenPr(p))
    \/ \E p \in Prs, t \in Threads : Event(Review(p, t))
    \/ Event(Spoil)

HookStep(h) == ReadState(h) \/ AskGithub(h) \/ Persist(h)

Next ==
    \/ \E h \in Hooks : Undirected(h) \/ HookStep(h) \/ HookFails(h)
    \/ StopRead
    \/ StopClear
    \/ NewTurn
    \/ Outside

Spec == Init /\ [][Next]_vars

\* The same session, in which the agent also does what it is told and does so
\* eventually.  Hook processes run to their end and the agent keeps trying to
\* end its turn.
DirectedNext == Next \/ \E h \in Hooks : Directed(h)

FairSpec ==
    /\ Init
    /\ [][DirectedNext]_vars
    /\ \A h \in Hooks : WF_vars(HookStep(h))
    /\ WF_vars(\E h \in Hooks : Directed(h))
    /\ WF_vars(StopRead)
    /\ WF_vars(StopClear)

-----------------------------------------------------------------------------
(* Properties.                                                              *)

\* Types, and the shape every marker file has: progress only on a tracked
\* PR, a tracked PR only once a push armed the file.
FileShape(state) ==
    /\ state.target_pr # NoKey => state.push_detected
    /\ state.target_pr = NoKey => state \in {DefaultState, ArmedState}

TypeOK ==
    /\ file \in State \cup {Absent, Corrupt}
    /\ file \in State => FileShape(file)
    /\ hook \in [Hooks -> HookState]
    /\ stop \in {"idle", "blocked", "clearing", "allowed"}
    /\ openPrs \subseteq Prs
    /\ unresolved \in [Prs -> SUBSET Threads]
    /\ owed \subseteq Prs
    /\ pushed \in Prs \cup {NoKey}
    /\ seen \subseteq Call
    /\ resolves \in Nat
    /\ known \in [Prs -> SUBSET Threads]
    /\ calls \in 0..MaxCalls

\* Call c is about the PR that key names, or about one it leaves open.
Concerns(c, key) == c.key = NoKey \/ SamePr(c.key, key)

\* The progress in a state object comes from reads among S, of the tracked PR.
Backed(state, S) ==
    /\ state.open_review_threads # Unseen =>
         \E c \in S : /\ c.kind = "comments"
                     /\ c.count = state.open_review_threads
                     /\ Concerns(c, state.target_pr)
    /\ state.mergeable_checked =>
         \E c \in S : c.kind = "get" /\ c.ok /\ Concerns(c, state.target_pr)

\* The marker file never credits the agent with a read it did not make since
\* the last push, nor with one made of another PR, nor with more resolves than
\* succeeded: a switch of PR, a stale snapshot written by an overlapping hook,
\* or a push must not carry progress over.
EvidenceBacked ==
    file \in State /\ ~PushInFlight =>
        Backed(file, seen) /\ file.resolve_calls <= resolves

\* A turn that pushed to an open pull request ends only after the agent, since
\* its last push, listed the review threads and read mergeable_state of one
\* and the same tracked PR.
AllowedOnlyOnEvidence ==
    stop = "allowed" /\ owed # {} =>
        \E c, g \in seen, key \in PrKey :
            /\ c.kind = "comments" /\ Concerns(c, key)
            /\ g.kind = "get" /\ g.ok /\ Concerns(g, key)

\* An unreadable marker file never lets a turn end, and what replaces it is an
\* armed state (the fail-closed posture of _load_state, which the tracker's
\* own default-on-error _read_state must not undo).
UnreadableBlocks ==
    [][file = Corrupt => /\ file' # Absent
                         /\ file' = Corrupt \/ file'.push_detected
                         /\ stop' = "allowed" => stop = "allowed"]_vars

\* A blocked turn can always be ended by doing what the Stop hook's message
\* asks for, whichever of the two forms of key each call happens to carry.
BlockedTurnCanEnd == stop = "blocked" ~> stop = "allowed"

-----------------------------------------------------------------------------
(* Statements of the code's docs that the code does not keep.               *)

\* "never let a genuinely-unresolved thread silently count as resolved": the
\* turn does not end while a thread the agent's last listing of a PR showed
\* unresolved has not been resolved since.
KnownThreadsResolved ==
    stop = "clearing" => \A p \in Prs : known[p] = {}

-----------------------------------------------------------------------------
(* Refinement: with calls one at a time the marker file is a turn gate.     *)

GatePhase == CASE file = Absent  -> "free"
               [] file = Corrupt -> "unreadable"
               [] OTHER          -> IF file.push_detected THEN "bound" ELSE "free"

GateDue == IF file \in {Absent, Corrupt} THEN {} ELSE Missing(file)

Gate == INSTANCE TurnGate WITH
    phase <- GatePhase, due <- GateDue, over <- stop = "allowed"

ImplementsTurnGate == Gate!Spec
=============================================================================
