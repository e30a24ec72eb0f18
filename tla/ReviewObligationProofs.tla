----------------------- MODULE ReviewObligationProofs -----------------------
(***************************************************************************)
(* Proofs about ReviewObligation for any number of PRs, threads and hook    *)
(* processes: the types and shapes of every state, and, when pushes run     *)
(* alone, that a turn that pushed never ends without the evidence.          *)
(***************************************************************************)
EXTENDS ReviewObligation, FiniteSetTheorems, TLAPS

Answer == {"open", "none", "unknown"}

-----------------------------------------------------------------------------
(* The handlers.                                                            *)

\* The sentinels of the state object are states of the expected shape.
LEMMA Sentinels ==
    /\ DefaultState \in State /\ FileShape(DefaultState)
    /\ ArmedState \in State /\ FileShape(ArmedState)
    /\ ArmedState.push_detected /\ ~DefaultState.push_detected
  BY DEF State, DefaultState, ArmedState, FileShape

\* A switch of PR gives a state object.
LEMMA RetargetType ==
    ASSUME NEW st \in State, NEW k \in PrKey \cup {NoKey}
    PROVE  Retarget(st, k) \in State
  BY DEF Retarget, State, ArmedState, DefaultState

\* A handled call gives a state object.
LEMMA HandledType ==
    ASSUME NEW st \in State, NEW c \in Call, NEW a \in Answer
    PROVE  Handled(st, c, a) \in State
<1>1. handle_bash(a) \in State
  BY Sentinels DEF handle_bash
<1>2. handle_resolve_review_thread(st, c) \in State
  BY DEF handle_resolve_review_thread, State
<1>3. handle_pull_request_read(st, c) \in State
  <2>1. Retarget(st, c.key) \in State
    BY RetargetType DEF Call
  <2>2. c.count \in Nat
    BY DEF Call
  <2>3. QED BY <2>1, <2>2 DEF handle_pull_request_read, State
<1>4. QED BY <1>1, <1>2, <1>3 DEF Handled

\* Handling keeps the shape: no target before a push, no progress before a
\* target.
LEMMA HandledShape ==
    ASSUME NEW st \in State, NEW c \in Call, NEW a \in Answer, FileShape(st)
    PROVE  FileShape(Handled(st, c, a))
<1>1. FileShape(handle_bash(a))
  BY Sentinels DEF handle_bash
<1>2. FileShape(handle_resolve_review_thread(st, c))
  BY DEF handle_resolve_review_thread, State, FileShape, DefaultState, ArmedState
<1>3. FileShape(handle_pull_request_read(st, c))
  BY DEF handle_pull_request_read, Retarget, State, Call, FileShape, DefaultState, ArmedState
<1>4. QED BY <1>1, <1>2, <1>3 DEF Handled

\* A resolve or a read that changes the state leaves it armed.
LEMMA HandledArmed ==
    ASSUME NEW st \in State, NEW c \in Call, NEW a \in Answer,
           c.kind # "push", Handled(st, c, a) # st
    PROVE  Handled(st, c, a).push_detected
<1>1. CASE c.kind = "resolve"
  BY <1>1 DEF Handled, handle_resolve_review_thread, State
<1>2. CASE c.kind # "resolve"
  <2>1. Handled(st, c, a) = handle_pull_request_read(st, c)
    BY <1>2 DEF Handled
  <2>2. QED BY <2>1 DEF handle_pull_request_read, Retarget, State, ArmedState, DefaultState
<1>3. QED BY <1>1, <1>2

\* A push arms the file unless GitHub confirmed that there is no open PR.
LEMMA HandledPush ==
    ASSUME NEW st, NEW c \in Call, NEW a \in {"open", "unknown"}, c.kind = "push"
    PROVE  Handled(st, c, a) = ArmedState
  BY DEF Handled, handle_bash

\* The default state credits nothing.
LEMMA SentinelBacked ==
    ASSUME NEW S
    PROVE  Backed(DefaultState, S) /\ Backed(ArmedState, S)
  BY DEF Backed, DefaultState, ArmedState

\* Handling a resolve, or a read among S, credits nothing that is not in S.
LEMMA HandledBacked ==
    ASSUME NEW st \in State, NEW c \in Call, NEW a \in Answer, NEW S,
           FileShape(st), Backed(st, S),
           c.kind # "push", c.kind \in {"comments", "get"} => c \in S
    PROVE  Backed(Handled(st, c, a), S)
<1>1. CASE c.kind = "resolve"
  BY <1>1 DEF Handled, handle_resolve_review_thread, State, Backed
<1>2. CASE c.kind # "resolve"
  <2> DEFINE tr == Retarget(st, c.key)
  <2>1. Handled(st, c, a) = handle_pull_request_read(st, c)
    BY <1>2 DEF Handled
  <2>2. c.key \in PrKey \cup {NoKey} /\ c.count \in Nat
    BY DEF Call
  <2>3. tr \in State
    BY <2>2, RetargetType
  <2>4. Backed(tr, S) /\ (tr.target_pr # NoKey => Concerns(c, tr.target_pr))
    <3>1. CASE tr = st
      BY <3>1, <2>2 DEF Retarget, Concerns, SamePr, State, PrKey, ArmedState, DefaultState
    <3>2. CASE tr # st
      <4>1. tr = [ArmedState EXCEPT !.target_pr = c.key]
        BY <3>2 DEF Retarget
      <4>2. tr.open_review_threads = Unseen /\ ~tr.mergeable_checked /\ tr.target_pr = c.key
        BY <4>1 DEF ArmedState, DefaultState
      <4>3. QED BY <4>2, <2>2 DEF Backed, Concerns, SamePr, PrKey
    <3>3. QED BY <3>1, <3>2
  <2>5. CASE ~st.push_detected \/ tr.target_pr = NoKey
    BY <2>1, <2>5 DEF handle_pull_request_read
  <2>6. CASE st.push_detected /\ tr.target_pr # NoKey
    <3> DEFINE new == handle_pull_request_read(st, c)
    <3>1. new = [tr EXCEPT
                   !.open_review_threads = IF c.kind = "comments" THEN c.count ELSE @,
                   !.mergeable_checked   = @ \/ (c.kind = "get" /\ c.ok)]
      BY <2>6 DEF handle_pull_request_read
    <3>2. /\ new.target_pr = tr.target_pr
          /\ new.open_review_threads =
               IF c.kind = "comments" THEN c.count ELSE tr.open_review_threads
          /\ new.mergeable_checked = (tr.mergeable_checked \/ (c.kind = "get" /\ c.ok))
      BY <3>1, <2>3 DEF State
    <3> HIDE DEF new, tr
    <3>3. QED BY <3>2, <2>1, <2>4, <2>6 DEF Backed, new
  <2>7. QED BY <2>5, <2>6
<1>3. QED BY <1>1, <1>2

-----------------------------------------------------------------------------
(* Types.                                                                   *)

\* Hook processes hold states of the expected shape, too.
HookShape ==
    \A h \in Hooks : FileShape(hook[h].snap) /\ FileShape(hook[h].next)

TypeInv == TypeOK /\ HookShape

\* An idle slot, and a slot with a call just started, are hook states.
LEMMA IdleType ==
    /\ NoCall \in Call
    /\ IdleHook \in HookState
    /\ \A c \in Call :
         /\ [IdleHook EXCEPT !.phase = "started", !.call = c] \in HookState
         /\ [IdleHook EXCEPT !.phase = "started", !.call = c].phase = "started"
         /\ [IdleHook EXCEPT !.phase = "started", !.call = c].call = c
         /\ [IdleHook EXCEPT !.phase = "started", !.call = c].snap = DefaultState
         /\ [IdleHook EXCEPT !.phase = "started", !.call = c].next = DefaultState
<1>1. NoCall \in Call
  BY DEF NoCall, Call, Kinds, ReadKinds
<1>2. IdleHook \in HookState
  BY <1>1, Sentinels DEF IdleHook, HookState
<1>3. QED BY <1>1, <1>2, Sentinels DEF IdleHook, HookState

\* Starting the hook of a well-formed call keeps files and hooks well-formed.
LEMMA StartType ==
    ASSUME TypeInv, NEW h \in Hooks, NEW c \in Call, Start(h, c)
    PROVE  /\ file' \in State \cup {Absent, Corrupt}
           /\ file' \in State => FileShape(file')
           /\ hook' \in [Hooks -> HookState]
           /\ stop' \in {"idle", "blocked", "clearing", "allowed"}
           /\ HookShape'
<1>1. hook' = [hook EXCEPT ![h] = [IdleHook EXCEPT !.phase = "started", !.call = c]]
  BY DEF Start
<1> DEFINE new == [IdleHook EXCEPT !.phase = "started", !.call = c]
<1>2. new \in HookState /\ FileShape(new.snap) /\ FileShape(new.next)
  BY IdleType, Sentinels
<1> HIDE DEF new
<1>3. hook' \in [Hooks -> HookState]
  BY <1>1, <1>2 DEF TypeInv, TypeOK, new
<1>4. \A g \in Hooks : hook'[g] = IF g = h THEN new ELSE hook[g]
  BY <1>1 DEF TypeInv, TypeOK, new
<1>5. HookShape'
  BY <1>2, <1>4 DEF TypeInv, HookShape
<1>6. QED BY <1>3, <1>5 DEF TypeInv, TypeOK, Start

\* Types, and the shape of the file and of what processes hold of it, hold
\* throughout a session.
LEMMA TypeInvHolds == Spec => []TypeInv
<1>1. ASSUME Init PROVE TypeInv
  <2>1. /\ hook \in [Hooks -> HookState]
        /\ HookShape
    BY <1>1, IdleType, Sentinels DEF Init, HookShape, IdleHook
  <2>2. file = Absent /\ Absent \notin State
    BY <1>1, ObligationAssumption DEF Init
  <2>3. calls \in 0..MaxCalls /\ resolves \in Nat
    BY <1>1, ObligationAssumption DEF Init
  <2>4. /\ stop \in {"idle", "blocked", "clearing", "allowed"}
        /\ openPrs \subseteq Prs /\ owed \subseteq Prs /\ seen \subseteq Call
        /\ pushed \in Prs \cup {NoKey}
    BY <1>1 DEF Init
  <2>5. unresolved \in [Prs -> SUBSET Threads] /\ known \in [Prs -> SUBSET Threads]
    BY <1>1 DEF Init
  <2>6. QED BY <2>1, <2>2, <2>3, <2>4, <2>5 DEF TypeInv, TypeOK
<1>2. TypeInv /\ [Next]_vars => TypeInv'
  <2> SUFFICES ASSUME TypeInv, [Next]_vars PROVE TypeInv'
    OBVIOUS
  <2> USE DEF TypeInv, TypeOK
  <2>1. ASSUME NEW h \in Hooks, Undirected(h) PROVE TypeInv'
    <3>0. calls' \in 0..MaxCalls
      BY <2>1, ObligationAssumption DEF Undirected
    <3>1. PICK p \in Prs :
            \/ Push(h, p)
            \/ \E t \in Threads, ok \in BOOLEAN : Resolve(h, p, t, ok)
            \/ \E key \in KeysOf(p), ok \in ResponseOk : ReadComments(h, p, key, ok)
            \/ \E key \in KeysOf(p), ok \in BOOLEAN : ReadPr(h, key, ok)
            \/ \E key \in KeysOf(p) : ReadOther(h, key)
      BY <2>1 DEF Undirected
    <3>2. KeysOf(p) \subseteq PrKey \cup {NoKey} /\ ResponseOk \subseteq BOOLEAN
      <4>1. p \in PullRequest
        BY ObligationAssumption
      <4>2. p \in PrKey /\ [repo |-> NoRepo, num |-> p.num] \in PrKey
        BY <4>1 DEF PullRequest, PrKey
      <4>3. QED BY <4>2 DEF KeysOf, ResponseOk
    <3>3. CASE Push(h, p)
      <4>1. [NoCall EXCEPT !.kind = "push", !.pr = p] \in Call
        BY IdleType DEF Call, Kinds
      <4>2. Start(h, [NoCall EXCEPT !.kind = "push", !.pr = p])
        BY <3>3 DEF Push
      <4>3. /\ owed' \subseteq Prs /\ pushed' \in Prs \cup {NoKey} /\ seen' \subseteq Call
            /\ resolves' \in Nat /\ UNCHANGED <<openPrs, unresolved, known>>
        BY <3>3 DEF Push, github
      <4>4. QED BY <4>1, <4>2, <4>3, <3>0, StartType
    <3>4. ASSUME NEW t \in Threads, NEW ok \in BOOLEAN, Resolve(h, p, t, ok)
          PROVE  TypeInv'
      <4>1. [NoCall EXCEPT !.kind = "resolve", !.ok = ok] \in Call
        BY IdleType DEF Call, Kinds
      <4>2. Start(h, [NoCall EXCEPT !.kind = "resolve", !.ok = ok])
        BY <3>4 DEF Resolve
      <4>3. /\ unresolved' \in [Prs -> SUBSET Threads] /\ known' \in [Prs -> SUBSET Threads]
            /\ resolves' \in Nat /\ UNCHANGED <<openPrs, owed, pushed, seen>>
        BY <3>4 DEF Resolve
      <4>4. QED BY <4>1, <4>2, <4>3, <3>0, StartType
    <3>5. ASSUME NEW key \in KeysOf(p), NEW ok \in ResponseOk, ReadComments(h, p, key, ok)
          PROVE  TypeInv'
      <4>1. PICK shown \in SUBSET unresolved[p] :
              LET c == [NoCall EXCEPT !.kind = "comments", !.key = key, !.ok = ok,
                                      !.count = IF ok THEN Cardinality(shown) ELSE 0]
              IN  /\ Start(h, c)
                  /\ known' = IF ok THEN [known EXCEPT ![p] = shown] ELSE known
                  /\ seen' = seen \cup {c}
                  /\ UNCHANGED <<github, owed, pushed, resolves>>
        BY <3>5 DEF ReadComments
      <4> DEFINE n == IF ok THEN Cardinality(shown) ELSE 0
                 c == [NoCall EXCEPT !.kind = "comments", !.key = key, !.ok = ok, !.count = n]
      <4>2. shown \subseteq Threads
        OBVIOUS
      <4>3. n \in Nat
        BY <4>2, ObligationAssumption, FS_Subset, FS_CardinalityType
      <4> HIDE DEF n
      <4>4. c \in Call
        BY <4>3, <3>2, IdleType DEF Call, Kinds, ReadKinds
      <4>5. Start(h, c) /\ seen' = seen \cup {c} /\ UNCHANGED <<github, owed, pushed, resolves>>
        BY <4>1 DEF n
      <4> HIDE DEF c
      <4>6. known' \in [Prs -> SUBSET Threads]
        BY <4>1, <4>2
      <4>7. QED BY <4>4, <4>5, <4>6, <3>0, StartType DEF github
    <3>6. ASSUME NEW key \in KeysOf(p), NEW ok \in BOOLEAN, ReadPr(h, key, ok)
          PROVE  TypeInv'
      <4>1. [NoCall EXCEPT !.kind = "get", !.key = key, !.ok = ok] \in Call
        BY <3>2, IdleType DEF Call, Kinds, ReadKinds
      <4>2. /\ Start(h, [NoCall EXCEPT !.kind = "get", !.key = key, !.ok = ok])
            /\ seen' = seen \cup {[NoCall EXCEPT !.kind = "get", !.key = key, !.ok = ok]}
            /\ UNCHANGED <<openPrs, unresolved, owed, pushed, resolves, known>>
        BY <3>6 DEF ReadPr, github
      <4>3. QED BY <4>1, <4>2, <3>0, StartType
    <3>7. ASSUME NEW key \in KeysOf(p), ReadOther(h, key)
          PROVE  TypeInv'
      <4>1. [NoCall EXCEPT !.key = key] \in Call
        BY <3>2, IdleType DEF Call
      <4>2. Start(h, [NoCall EXCEPT !.key = key]) /\ UNCHANGED <<github, history>>
        BY <3>7 DEF ReadOther
      <4>3. QED BY <4>1, <4>2, <3>0, StartType DEF github, history
    <3>8. QED BY <3>1, <3>3, <3>4, <3>5, <3>6, <3>7
  <2>2. ASSUME NEW h \in Hooks, ReadState(h) PROVE TypeInv'
    <3> DEFINE c    == hook[h].call
               snap == IF file \in {Absent, Corrupt} THEN DefaultState ELSE file
               new  == IF c.kind = "push"
                       THEN [hook[h] EXCEPT !.phase = "asking", !.snap = snap]
                       ELSE [hook[h] EXCEPT !.phase = "decided", !.snap = snap,
                                            !.next = Handled(snap, c, "unknown")]
    <3>1. c \in Call /\ snap \in State /\ FileShape(snap)
      BY Sentinels DEF HookState
    <3>2. /\ Handled(snap, c, "unknown") \in State
          /\ FileShape(Handled(snap, c, "unknown"))
      BY <3>1, HandledType, HandledShape DEF Answer
    <3>3. hook[h] \in HookState /\ FileShape(hook[h].next)
      BY DEF HookShape
    <3>4. new \in HookState /\ FileShape(new.snap) /\ FileShape(new.next)
      BY <3>1, <3>2, <3>3 DEF HookState
    <3>5. hook' = [hook EXCEPT ![h] = new]
      BY <2>2 DEF ReadState
    <3> HIDE DEF new
    <3>6. hook' \in [Hooks -> HookState] /\ HookShape'
      BY <3>4, <3>5 DEF HookShape
    <3>7. UNCHANGED <<file, stop, github, history, calls>>
      BY <2>2 DEF ReadState
    <3>8. QED BY <3>6, <3>7 DEF github, history
  <2>3. ASSUME NEW h \in Hooks, AskGithub(h) PROVE TypeInv'
    <3>1. PICK a \in Answers(hook[h].call.pr) :
            hook' = [hook EXCEPT ![h].phase = "decided",
                                 ![h].next = Handled(hook[h].snap, hook[h].call, a)]
      BY <2>3 DEF AskGithub
    <3> DEFINE d   == Handled(hook[h].snap, hook[h].call, a)
               new == [hook[h] EXCEPT !.phase = "decided", !.next = d]
    <3>2. a \in Answer
      BY DEF Answers, Answer
    <3>3. hook[h] \in HookState /\ FileShape(hook[h].snap)
      BY DEF HookShape
    <3>4. d \in State /\ FileShape(d)
      BY <3>2, <3>3, HandledType, HandledShape DEF HookState
    <3> HIDE DEF d
    <3>5. new \in HookState /\ FileShape(new.snap) /\ FileShape(new.next)
      BY <3>3, <3>4 DEF HookState
    <3>6. hook' = [hook EXCEPT ![h] = new]
      BY <3>1, <3>3 DEF d, HookState
    <3> HIDE DEF new
    <3>7. hook' \in [Hooks -> HookState] /\ HookShape'
      BY <3>5, <3>6 DEF HookShape
    <3>8. UNCHANGED <<file, stop, github, history, calls>>
      BY <2>3 DEF AskGithub
    <3>9. QED BY <3>7, <3>8 DEF github, history
  <2>4. ASSUME NEW h \in Hooks, Persist(h) \/ HookFails(h) PROVE TypeInv'
    <3>1. hook' = [hook EXCEPT ![h] = IdleHook] /\ UNCHANGED <<stop, github, history, calls>>
      BY <2>4 DEF Persist, HookFails
    <3>2. IdleHook \in HookState /\ FileShape(IdleHook.snap) /\ FileShape(IdleHook.next)
      BY IdleType, Sentinels DEF IdleHook
    <3>3. hook' \in [Hooks -> HookState] /\ HookShape'
      BY <3>1, <3>2 DEF HookShape
    <3>4. file' = file \/ file' = hook[h].next
      BY <2>4 DEF Persist, HookFails
    <3>5. hook[h].next \in State /\ FileShape(hook[h].next)
      BY DEF HookState, HookShape
    <3>6. file' \in State \cup {Absent, Corrupt} /\ (file' \in State => FileShape(file'))
      BY <3>4, <3>5
    <3>7. QED BY <3>1, <3>3, <3>6 DEF github, history
  <2>5. CASE StopRead \/ StopClear \/ NewTurn
    BY <2>5, ObligationAssumption DEF StopRead, StopClear, NewTurn, github, history, HookShape
  <2>6. CASE Outside
    BY <2>6, ObligationAssumption
       DEF Outside, Event, OpenPr, Review, Spoil, github, history, HookShape
  <2>7. CASE UNCHANGED vars
    BY <2>7 DEF vars, HookShape
  <2>8. QED BY <2>1, <2>2, <2>3, <2>4, <2>5, <2>6, <2>7 DEF Next, HookStep
<1>3. QED BY <1>1, <1>2, PTL DEF Spec

\* Types of the file, the processes and the counters, whatever may overlap or
\* fail (process, _read_state, _write_state, evaluate).
THEOREM TypeCorrect == Spec => []TypeOK
<1>1. TypeInv => TypeOK BY DEF TypeInv
<1>2. QED BY <1>1, TypeInvHolds, PTL

-----------------------------------------------------------------------------
(* Safety.  The host runs a push alone, its hook completes, and every branch *)
(* pushed has its pull request: the assumptions the violated runs drop.      *)

Calm == "push" \notin Overlap /\ "push" \notin MayFail /\ NotYetOpen = {}

Armed(f) == f \in State /\ f.push_detected

\* What the marker file credits of reads was read.
ReadsBacked == file \in State /\ ~PushInFlight => Backed(file, seen)

\* The hook of a push runs alone.
PushAlone ==
    \A g, h \in Hooks :
        Running(g) /\ hook[g].call.kind = "push" /\ Running(h) => g = h

\* The Stop hook has its turn only when the tracker is done.
QuietStop == stop # "idle" => \A h \in Hooks : ~Running(h)

\* What the hook of a read or a resolve is about to write is backed, and
\* armed if it is a change.
ReadHooks ==
    \A h \in Hooks : Running(h) /\ hook[h].call.kind # "push" =>
        /\ hook[h].call.kind \in {"comments", "get"} => hook[h].call \in seen
        /\ hook[h].phase \in {"started", "decided"}
        /\ hook[h].phase = "decided" =>
             /\ Backed(hook[h].next, seen)
             /\ hook[h].next # hook[h].snap => hook[h].next.push_detected

\* The hook of a push is about to write the armed state, unless the file it
\* read, still in place or spoilt since, already was that.
PushHooks ==
    \A h \in Hooks : Running(h) /\ hook[h].call.kind = "push" =>
        /\ hook[h].call.pr \in Prs
        /\ hook[h].phase = "decided" => hook[h].next = ArmedState
        /\ hook[h].phase # "started" =>
             file = Corrupt \/ file = hook[h].snap
               \/ (file = Absent /\ hook[h].snap = DefaultState)

\* An obligation the turn took on is in the file, or the file is unreadable.
OwedIsArmed ==
    owed # {} /\ ~PushInFlight /\ stop # "allowed" => file = Corrupt \/ Armed(file)

SatisfiedWhenClearing == stop = "clearing" => file \in State /\ Missing(file) = {}

Safe ==
    /\ openPrs = Prs
    /\ PushAlone
    /\ QuietStop
    /\ ReadHooks
    /\ PushHooks
    /\ ReadsBacked
    /\ OwedIsArmed
    /\ SatisfiedWhenClearing
    /\ AllowedOnlyOnEvidence

\* More reads never take backing away.
LEMMA BackedMonotone ==
    ASSUME NEW st, NEW S, NEW R, S \subseteq R, Backed(st, S)
    PROVE  Backed(st, R)
  BY DEF Backed

\* A start changes one slot, to a running process with that call.
LEMMA StartHook ==
    ASSUME TypeInv, NEW h \in Hooks, NEW c \in Call, Start(h, c)
    PROVE  /\ ~Running(h) /\ file' = file /\ stop' = "idle"
           /\ \A g \in Hooks : g # h => hook'[g] = hook[g]
           /\ hook'[h].phase = "started" /\ hook'[h].call = c
  BY IdleType DEF Start, TypeInv, TypeOK

\* A push that starts alone disarms every claim about the state before it.
LEMMA PushSafe ==
    ASSUME TypeInv, Safe, Calm, NEW h \in Hooks, NEW p \in Prs, Push(h, p)
    PROVE  Safe'
<1> DEFINE c == [NoCall EXCEPT !.kind = "push", !.pr = p]
<1>1. c \in Call /\ c.kind = "push" /\ c.pr \in Prs
  BY IdleType DEF Call, Kinds, NoCall
<1>2. Start(h, c) /\ openPrs' = openPrs
  BY DEF Push, github
<1> HIDE DEF c
<1>3. \A g \in Hooks : ~Running(g)
  BY <1>1, <1>2 DEF Start, MayOverlap, Calm
<1>4. /\ file' = file /\ stop' = "idle"
      /\ \A g \in Hooks : g # h => hook'[g] = hook[g]
      /\ hook'[h].phase = "started" /\ hook'[h].call = c
  BY <1>1, <1>2, StartHook
<1>5. \A g \in Hooks : Running(g)' => g = h
  BY <1>3, <1>4 DEF Running
<1>6. PushInFlight'
  BY <1>1, <1>4 DEF PushInFlight, Running
<1>7. (PushAlone /\ QuietStop /\ ReadHooks /\ PushHooks)'
  BY <1>1, <1>4, <1>5 DEF PushAlone, QuietStop, ReadHooks, PushHooks
<1>8. QED
  BY <1>2, <1>4, <1>6, <1>7
     DEF Safe, ReadsBacked, OwedIsArmed, SatisfiedWhenClearing, AllowedOnlyOnEvidence

\* Any other call that starts may add a read to the evidence, no more.
LEMMA StartSafe ==
    ASSUME TypeInv, Safe, Calm, NEW h \in Hooks, NEW c \in Call, Start(h, c),
           c.kind # "push", seen \subseteq seen', owed' = owed, openPrs' = openPrs,
           c.kind \in {"comments", "get"} => c \in seen'
    PROVE  Safe'
<1>1. \A g \in Hooks : Running(g) => hook[g].call.kind # "push"
  BY DEF Start, MayOverlap, Calm
<1>2. /\ file' = file /\ stop' = "idle"
      /\ \A g \in Hooks : g # h => hook'[g] = hook[g]
      /\ hook'[h].phase = "started" /\ hook'[h].call = c
  BY StartHook
<1>3. ~PushInFlight /\ ~PushInFlight'
  BY <1>1, <1>2 DEF PushInFlight, Running
<1>4. PushAlone' /\ QuietStop' /\ PushHooks'
  BY <1>2, <1>3 DEF PushAlone, QuietStop, PushHooks, PushInFlight
<1>5. ReadHooks'
  <2> SUFFICES ASSUME NEW g \in Hooks, Running(g)', hook'[g].call.kind # "push"
               PROVE  /\ hook'[g].call.kind \in {"comments", "get"} => hook'[g].call \in seen'
                      /\ hook'[g].phase \in {"started", "decided"}
                      /\ hook'[g].phase = "decided" =>
                           /\ Backed(hook'[g].next, seen')
                           /\ hook'[g].next # hook'[g].snap => hook'[g].next.push_detected
    BY DEF ReadHooks
  <2>1. CASE g = h
    BY <2>1, <1>2
  <2>2. CASE g # h
    BY <2>2, <1>2, BackedMonotone DEF Safe, ReadHooks, Running
  <2>3. QED BY <2>1, <2>2
<1>6. ReadsBacked'
  BY <1>2, <1>3, BackedMonotone DEF Safe, ReadsBacked
<1>7. OwedIsArmed'
  <2>1. stop # "allowed"
    BY DEF Start
  <2>2. QED BY <2>1, <1>2, <1>3 DEF Safe, OwedIsArmed, Armed
<1>8. QED
  BY <1>2, <1>4, <1>5, <1>6, <1>7 DEF Safe, SatisfiedWhenClearing, AllowedOnlyOnEvidence

\* A step of one hook that leaves the file and the history alone, and its call
\* and its running, keeps everything but what the hook itself holds.
LEMMA InnerStepSafe ==
    ASSUME TypeInv, Safe, NEW h \in Hooks, Running(h), Running(h)',
           \A g \in Hooks : g # h => hook'[g] = hook[g],
           hook'[h].call = hook[h].call,
           UNCHANGED <<file, stop, github, history>>,
           hook[h].call.kind # "push" =>
               /\ hook'[h].phase \in {"started", "decided"}
               /\ hook'[h].phase = "decided" =>
                    /\ Backed(hook'[h].next, seen)
                    /\ hook'[h].next # hook'[h].snap => hook'[h].next.push_detected,
           hook[h].call.kind = "push" =>
               /\ hook'[h].phase = "decided" => hook'[h].next = ArmedState
               /\ hook'[h].phase # "started" =>
                    file = Corrupt \/ file = hook'[h].snap
                      \/ (file = Absent /\ hook'[h].snap = DefaultState)
    PROVE  Safe'
<1>1. \A g \in Hooks : Running(g)' <=> Running(g)
  BY DEF Running
<1>2. \A g \in Hooks : hook'[g].call = hook[g].call
  OBVIOUS
<1>3. PushInFlight' <=> PushInFlight
  BY <1>1, <1>2 DEF PushInFlight
<1>4. PushAlone' /\ QuietStop'
  BY <1>1, <1>2 DEF Safe, PushAlone, QuietStop
<1>5. ReadHooks'
  <2> SUFFICES ASSUME NEW g \in Hooks, Running(g)', hook'[g].call.kind # "push"
               PROVE  /\ hook'[g].call.kind \in {"comments", "get"} => hook'[g].call \in seen'
                      /\ hook'[g].phase \in {"started", "decided"}
                      /\ hook'[g].phase = "decided" =>
                           /\ Backed(hook'[g].next, seen')
                           /\ hook'[g].next # hook'[g].snap => hook'[g].next.push_detected
    BY DEF ReadHooks
  <2>1. seen' = seen /\ Running(g) /\ hook[g].call.kind # "push"
    BY <1>1, <1>2 DEF history
  <2>2. CASE g = h
    BY <2>1, <2>2, <1>2 DEF Safe, ReadHooks
  <2>3. CASE g # h
    BY <2>1, <2>3 DEF Safe, ReadHooks
  <2>4. QED BY <2>2, <2>3
<1>6. PushHooks'
  <2> SUFFICES ASSUME NEW g \in Hooks, Running(g)', hook'[g].call.kind = "push"
               PROVE  /\ hook'[g].call.pr \in Prs
                      /\ hook'[g].phase = "decided" => hook'[g].next = ArmedState
                      /\ hook'[g].phase # "started" =>
                           file' = Corrupt \/ file' = hook'[g].snap
                             \/ (file' = Absent /\ hook'[g].snap = DefaultState)
    BY DEF PushHooks
  <2>1. CASE g = h
    BY <2>1, <1>1, <1>2 DEF Safe, PushHooks
  <2>2. CASE g # h
    BY <2>2, <1>1, <1>2 DEF Safe, PushHooks
  <2>3. QED BY <2>1, <2>2
<1>7. QED
  BY <1>3, <1>4, <1>5, <1>6
     DEF Safe, ReadsBacked, OwedIsArmed, SatisfiedWhenClearing, AllowedOnlyOnEvidence,
         Armed, github, history

\* Reading the file: what the hook decides is backed by what the file holds.
LEMMA ReadStateSafe ==
    ASSUME TypeInv, Safe, NEW h \in Hooks, ReadState(h)
    PROVE  Safe'
<1> DEFINE c    == hook[h].call
           snap == IF file \in {Absent, Corrupt} THEN DefaultState ELSE file
           next == Handled(snap, c, "unknown")
<1>1. hook \in [Hooks -> HookState] /\ file \in State \cup {Absent, Corrupt}
  BY DEF TypeInv, TypeOK
<1>2. c \in Call /\ snap \in State /\ FileShape(snap)
  BY <1>1, Sentinels DEF HookState, TypeInv, TypeOK
<1>3. Running(h) /\ hook[h].phase = "started"
  BY DEF ReadState, Running
<1>4. /\ \A g \in Hooks : g # h => hook'[g] = hook[g]
      /\ hook'[h].call = c /\ hook'[h].snap = snap
      /\ c.kind = "push" => hook'[h].phase = "asking"
      /\ c.kind # "push" => hook'[h].phase = "decided" /\ hook'[h].next = next
  BY <1>1 DEF ReadState, HookState
<1>5. UNCHANGED <<file, stop, github, history>> /\ Running(h)'
  BY <1>4 DEF ReadState, Running
<1>6. ASSUME c.kind # "push"
      PROVE  Backed(next, seen) /\ (next # snap => next.push_detected)
  <2>1. ~PushInFlight
    BY <1>3, <1>6 DEF Safe, PushAlone, PushInFlight
  <2>2. Backed(snap, seen)
    BY <2>1, <1>1, SentinelBacked DEF Safe, ReadsBacked
  <2>3. c.kind \in {"comments", "get"} => c \in seen
    BY <1>3, <1>6 DEF Safe, ReadHooks
  <2>4. "unknown" \in Answer
    BY DEF Answer
  <2> HIDE DEF snap, c
  <2>5. QED BY <2>2, <2>3, <2>4, <1>2, <1>6, HandledBacked, HandledArmed
<1>7. c.kind # "push" =>
        /\ hook'[h].phase \in {"started", "decided"}
        /\ hook'[h].phase = "decided" =>
             /\ Backed(hook'[h].next, seen)
             /\ hook'[h].next # hook'[h].snap => hook'[h].next.push_detected
  BY <1>4, <1>6
<1>8. c.kind = "push" =>
        /\ hook'[h].phase = "decided" => hook'[h].next = ArmedState
        /\ hook'[h].phase # "started" =>
             file = Corrupt \/ file = hook'[h].snap
               \/ (file = Absent /\ hook'[h].snap = DefaultState)
  BY <1>4
<1> HIDE DEF next, snap
<1>9. QED BY <1>3, <1>4, <1>5, <1>7, <1>8, InnerStepSafe

\* Asking GitHub: with the pull request open the answer arms.
LEMMA AskGithubSafe ==
    ASSUME TypeInv, Safe, NEW h \in Hooks, AskGithub(h)
    PROVE  Safe'
<1>1. hook[h] \in HookState
  BY DEF TypeInv, TypeOK
<1>2. Running(h) /\ hook[h].call.kind = "push"
  BY DEF AskGithub, Running, Safe, ReadHooks
<1>3. PICK a \in Answers(hook[h].call.pr) :
        hook' = [hook EXCEPT ![h].phase = "decided",
                             ![h].next = Handled(hook[h].snap, hook[h].call, a)]
  BY DEF AskGithub
<1>4. /\ \A g \in Hooks : g # h => hook'[g] = hook[g]
      /\ hook'[h].call = hook[h].call /\ hook'[h].snap = hook[h].snap
      /\ hook'[h].phase = "decided"
      /\ hook'[h].next = Handled(hook[h].snap, hook[h].call, a)
  BY <1>1, <1>3 DEF TypeInv, TypeOK, HookState
<1>6. UNCHANGED <<file, stop, github, history>> /\ Running(h)'
  BY <1>4 DEF AskGithub, Running
<1>7. hook[h].phase # "started"
  BY DEF AskGithub
<1>8. file = Corrupt \/ file = hook[h].snap \/ (file = Absent /\ hook[h].snap = DefaultState)
  BY <1>2, <1>7 DEF Safe, PushHooks
<1>9. a \in {"open", "unknown"}
  BY <1>2 DEF Answers, Safe, PushHooks
<1>10. hook'[h].next = ArmedState
  BY <1>1, <1>2, <1>4, <1>9, HandledPush DEF HookState
<1>11. QED BY <1>2, <1>4, <1>6, <1>8, <1>10, InnerStepSafe
\* Writing: the file becomes what the hook decided, or stays as it was.
LEMMA PersistSafe ==
    ASSUME TypeInv, Safe, NEW h \in Hooks, Persist(h)
    PROVE  Safe'
<1>1. hook[h] \in HookState /\ file \in State \cup {Absent, Corrupt}
  BY DEF TypeInv, TypeOK
<1>2. /\ \A g \in Hooks : g # h => hook'[g] = hook[g]
      /\ hook'[h].phase = "idle"
      /\ UNCHANGED <<stop, github, history>>
      /\ Running(h) /\ ~Running(h)' /\ hook[h].phase = "decided"
  BY DEF Persist, TypeInv, TypeOK, Running, IdleHook
<1>3. \A g \in Hooks : Running(g)' => g # h /\ Running(g) /\ hook'[g] = hook[g]
  BY <1>2 DEF Running
<1>4. stop = "idle"
  BY <1>2 DEF Safe, QuietStop
<1>5. ~PushInFlight'
  <2>1. CASE hook[h].call.kind = "push"
    BY <2>1, <1>2, <1>3 DEF Safe, PushAlone, PushInFlight
  <2>2. CASE hook[h].call.kind # "push"
    BY <2>2, <1>2, <1>3 DEF Safe, PushAlone, PushInFlight
  <2>3. QED BY <2>1, <2>2
<1>6. PushAlone' /\ QuietStop' /\ PushHooks'
  <2>1. \A g \in Hooks : Running(g)' => hook'[g].call.kind # "push"
    BY <1>5 DEF PushInFlight
  <2>2. QED BY <2>1, <1>2, <1>4 DEF PushAlone, QuietStop, PushHooks
<1>7. ReadHooks'
  <2>1. seen' = seen
    BY <1>2 DEF history
  <2>2. QED BY <2>1, <1>3 DEF Safe, ReadHooks
<1>8. file' \in State => Backed(file', seen)
  <2>1. CASE hook[h].call.kind = "push"
    <3>1. hook[h].next = ArmedState
      BY <2>1, <1>2 DEF Safe, PushHooks
    <3>2. file' = ArmedState \/ file' = Corrupt \/ file' = Absent
      BY <2>1, <3>1, <1>2, Sentinels DEF Persist, Safe, PushHooks
    <3>3. QED BY <3>2, SentinelBacked, ObligationAssumption
  <2>2. CASE hook[h].call.kind # "push"
    <3>1. ~PushInFlight
      BY <2>2, <1>2 DEF Safe, PushAlone, PushInFlight
    <3>2. Backed(hook[h].next, seen)
      BY <2>2, <1>2 DEF Safe, ReadHooks
    <3>3. QED BY <3>1, <3>2 DEF Persist, Safe, ReadsBacked
  <2>3. QED BY <2>1, <2>2
<1>9. owed # {} => file' = Corrupt \/ Armed(file')
  <2>1. CASE hook[h].call.kind = "push"
    <3>1. hook[h].next = ArmedState
      BY <2>1, <1>2 DEF Safe, PushHooks
    <3>2. file' = ArmedState \/ file' = Corrupt
      BY <2>1, <3>1, <1>2, Sentinels DEF Persist, Safe, PushHooks
    <3>3. QED BY <3>2, Sentinels DEF Armed
  <2>2. CASE hook[h].call.kind # "push"
    <3>1. ~PushInFlight
      BY <2>2, <1>2 DEF Safe, PushAlone, PushInFlight
    <3>2. hook[h].next # hook[h].snap => Armed(hook[h].next)
      BY <2>2, <1>1, <1>2 DEF Safe, ReadHooks, HookState, Armed
    <3>3. QED BY <3>1, <3>2, <1>4 DEF Persist, Safe, OwedIsArmed
  <2>3. QED BY <2>1, <2>2
<1>10. QED
  BY <1>2, <1>4, <1>5, <1>6, <1>7, <1>8, <1>9
     DEF Safe, ReadsBacked, OwedIsArmed, SatisfiedWhenClearing, AllowedOnlyOnEvidence,
         github, history

\* A hook that fails was not that of a push: nothing about the file changes.
LEMMA HookFailsSafe ==
    ASSUME TypeInv, Safe, Calm, NEW h \in Hooks, HookFails(h)
    PROVE  Safe'
<1>1. /\ \A g \in Hooks : g # h => hook'[g] = hook[g]
      /\ hook'[h].phase = "idle"
      /\ UNCHANGED <<file, stop, github, history>>
      /\ Running(h) /\ ~Running(h)' /\ hook[h].call.kind # "push"
  BY DEF HookFails, TypeInv, TypeOK, Running, IdleHook, Calm
<1>2. \A g \in Hooks : Running(g)' => g # h /\ Running(g) /\ hook'[g] = hook[g]
  BY <1>1 DEF Running
<1>3. ~PushInFlight
  BY <1>1 DEF Safe, PushAlone, PushInFlight
<1>4. (PushAlone /\ QuietStop /\ PushHooks)'
  BY <1>1, <1>2 DEF Safe, PushAlone, QuietStop, PushHooks
<1>5. ReadHooks'
  <2>1. seen' = seen
    BY <1>1 DEF history
  <2>2. QED BY <2>1, <1>2 DEF Safe, ReadHooks
<1>6. QED
  BY <1>1, <1>3, <1>4, <1>5
     DEF Safe, ReadsBacked, OwedIsArmed, SatisfiedWhenClearing, AllowedOnlyOnEvidence,
         Armed, github, history

\* The Stop hook finds no obligation, refuses, or goes on to unlink.
LEMMA StopReadSafe ==
    ASSUME TypeInv, Safe, StopRead
    PROVE  Safe'
<1>1. /\ UNCHANGED <<file, hook, github, history>>
      /\ \A h \in Hooks : ~Running(h)
      /\ stop = "idle"
      /\ stop' = IF file = Absent THEN "allowed" ELSE IF Unsatisfied THEN "blocked" ELSE "clearing"
  BY DEF StopRead
<1>2. ~PushInFlight
  BY <1>1 DEF PushInFlight
<1>3. owed # {} => file = Corrupt \/ Armed(file)
  BY <1>1, <1>2 DEF Safe, OwedIsArmed
<1>4. AllowedOnlyOnEvidence'
  BY <1>1, <1>3, ObligationAssumption DEF AllowedOnlyOnEvidence, Armed, history
<1>5. SatisfiedWhenClearing'
  BY <1>1 DEF SatisfiedWhenClearing, Unsatisfied, TypeInv, TypeOK
<1>6. OwedIsArmed'
  BY <1>1, <1>3 DEF OwedIsArmed, Armed, history
<1>7. (PushAlone /\ QuietStop /\ ReadHooks /\ PushHooks /\ ReadsBacked)'
  BY <1>1
     DEF Safe, PushAlone, QuietStop, ReadHooks, PushHooks, ReadsBacked, PushInFlight,
         Running, history
<1>8. QED BY <1>1, <1>4, <1>5, <1>6, <1>7 DEF Safe, github

\* A file with nothing missing holds the evidence the turn ends on.
LEMMA EvidenceAtEnd ==
    ASSUME TypeInv, Safe, stop = "clearing", owed # {}
    PROVE  \E c, g \in seen, key \in PrKey :
             /\ c.kind = "comments" /\ Concerns(c, key)
             /\ g.kind = "get" /\ g.ok /\ Concerns(g, key)
<1>1. ~PushInFlight
  BY DEF Safe, QuietStop, PushInFlight
<1>2. file \in State /\ Missing(file) = {}
  BY DEF Safe, SatisfiedWhenClearing
<1>3. file.push_detected
  BY <1>1, <1>2, ObligationAssumption DEF Safe, OwedIsArmed, Armed
<1>4. "comments" \notin Missing(file) /\ "mergeable" \notin Missing(file)
  BY <1>2
<1>5. file.open_review_threads # Unseen /\ file.mergeable_checked
  BY <1>3, <1>4 DEF Missing
<1>6. file.target_pr \in PrKey
  BY <1>2, <1>5 DEF TypeInv, TypeOK, FileShape, State, DefaultState, ArmedState
<1>7. Backed(file, seen)
  BY <1>1, <1>2 DEF Safe, ReadsBacked
<1>8. QED BY <1>5, <1>6, <1>7 DEF Backed

\* The unlink ends the turn on that evidence, and takes only the file.
LEMMA StopClearSafe ==
    ASSUME TypeInv, Safe, StopClear
    PROVE  Safe'
<1>1. /\ UNCHANGED <<hook, github, history>>
      /\ stop = "clearing" /\ stop' = "allowed" /\ file' \in {Absent, file}
  BY DEF StopClear
<1>2. \A h \in Hooks : ~Running(h) /\ ~Running(h)'
  BY <1>1 DEF Safe, QuietStop, Running
<1>3. ~PushInFlight
  BY <1>2 DEF PushInFlight
<1>4. AllowedOnlyOnEvidence'
  BY <1>1, EvidenceAtEnd DEF AllowedOnlyOnEvidence, history
<1>5. ReadsBacked'
  BY <1>1, <1>3, ObligationAssumption DEF Safe, ReadsBacked, history
<1>6. (PushAlone /\ QuietStop /\ ReadHooks /\ PushHooks /\ OwedIsArmed /\ SatisfiedWhenClearing)'
  BY <1>1, <1>2
     DEF PushAlone, QuietStop, ReadHooks, PushHooks, OwedIsArmed, SatisfiedWhenClearing
<1>7. QED BY <1>1, <1>4, <1>5, <1>6 DEF Safe, github

\* A new turn owes nothing yet.
LEMMA NewTurnSafe ==
    ASSUME TypeInv, Safe, NewTurn
    PROVE  Safe'
<1>1. /\ UNCHANGED <<file, hook, github, seen>>
      /\ stop' = "idle" /\ owed' = {}
  BY DEF NewTurn
<1>2. (PushAlone /\ QuietStop /\ ReadHooks /\ PushHooks /\ ReadsBacked)'
  BY <1>1
     DEF Safe, PushAlone, QuietStop, ReadHooks, PushHooks, ReadsBacked, PushInFlight, Running
<1>3. QED
  BY <1>1, <1>2 DEF Safe, OwedIsArmed, SatisfiedWhenClearing, AllowedOnlyOnEvidence, github

\* What happens outside touches the file only to spoil it.
LEMMA OutsideSafe ==
    ASSUME TypeInv, Safe, Outside
    PROVE  Safe'
<1>1. UNCHANGED <<hook, stop, history>>
  BY DEF Outside, Event
<1>2. openPrs' = Prs
  BY DEF Outside, Event, OpenPr, Review, Spoil, Safe, github
<1>3. file' = file \/ (file' = Corrupt /\ stop # "clearing")
  BY DEF Outside, Event, OpenPr, Review, Spoil
<1>4. (PushAlone /\ QuietStop /\ ReadHooks /\ PushHooks)'
  BY <1>1, <1>3 DEF Safe, PushAlone, QuietStop, ReadHooks, PushHooks, Running, history
<1>5. (ReadsBacked /\ OwedIsArmed /\ SatisfiedWhenClearing)'
  BY <1>1, <1>3, ObligationAssumption
     DEF Safe, ReadsBacked, OwedIsArmed, SatisfiedWhenClearing, PushInFlight, Running,
         Armed, history
<1>6. AllowedOnlyOnEvidence'
  BY <1>1 DEF Safe, AllowedOnlyOnEvidence, history
<1>7. QED BY <1>2, <1>4, <1>5, <1>6 DEF Safe

\* Any tool call that starts keeps the invariant.
LEMMA UndirectedSafe ==
    ASSUME TypeInv, Safe, Calm, NEW h \in Hooks, Undirected(h), seen' \subseteq Call
    PROVE  Safe'
<1>1. PICK p \in Prs :
        \/ Push(h, p)
        \/ \E t \in Threads, ok \in BOOLEAN : Resolve(h, p, t, ok)
        \/ \E key \in KeysOf(p), ok \in ResponseOk : ReadComments(h, p, key, ok)
        \/ \E key \in KeysOf(p), ok \in BOOLEAN : ReadPr(h, key, ok)
        \/ \E key \in KeysOf(p) : ReadOther(h, key)
  BY DEF Undirected
<1>2. CASE Push(h, p)
  BY <1>2, PushSafe
<1>3. ASSUME NEW t \in Threads, NEW ok \in BOOLEAN, Resolve(h, p, t, ok) PROVE Safe'
  <2>1. [NoCall EXCEPT !.kind = "resolve", !.ok = ok] \in Call
    BY IdleType DEF Call, Kinds
  <2>2. [NoCall EXCEPT !.kind = "resolve", !.ok = ok].kind = "resolve"
    BY DEF NoCall
  <2>3. /\ Start(h, [NoCall EXCEPT !.kind = "resolve", !.ok = ok])
        /\ UNCHANGED <<openPrs, owed, seen>>
    BY <1>3 DEF Resolve
  <2>4. QED BY <2>1, <2>2, <2>3, StartSafe
<1>4. ASSUME NEW key \in KeysOf(p), NEW ok \in ResponseOk, ReadComments(h, p, key, ok)
      PROVE  Safe'
  <2>1. PICK shown \in SUBSET unresolved[p] :
          LET c == [NoCall EXCEPT !.kind = "comments", !.key = key, !.ok = ok,
                                  !.count = IF ok THEN Cardinality(shown) ELSE 0]
          IN  /\ Start(h, c)
              /\ seen' = seen \cup {c}
              /\ UNCHANGED <<github, owed>>
    BY <1>4 DEF ReadComments
  <2> DEFINE n == IF ok THEN Cardinality(shown) ELSE 0
             c == [NoCall EXCEPT !.kind = "comments", !.key = key, !.ok = ok, !.count = n]
  <2>2. c.kind = "comments"
    BY DEF NoCall
  <2>3. Start(h, c) /\ seen' = seen \cup {c} /\ UNCHANGED <<openPrs, owed>>
    BY <2>1 DEF github
  <2> HIDE DEF c
  <2>4. c \in Call
    BY <2>3
  <2>5. QED BY <2>2, <2>3, <2>4, StartSafe
<1>5. ASSUME NEW key \in KeysOf(p), NEW ok \in BOOLEAN, ReadPr(h, key, ok) PROVE Safe'
  <2> DEFINE c == [NoCall EXCEPT !.kind = "get", !.key = key, !.ok = ok]
  <2>1. c.kind = "get"
    BY DEF NoCall
  <2>2. Start(h, c) /\ seen' = seen \cup {c} /\ UNCHANGED <<openPrs, owed>>
    BY <1>5 DEF ReadPr, github
  <2> HIDE DEF c
  <2>3. c \in Call
    BY <2>2
  <2>4. QED BY <2>1, <2>2, <2>3, StartSafe
<1>6. ASSUME NEW key \in KeysOf(p), ReadOther(h, key) PROVE Safe'
  <2> DEFINE c == [NoCall EXCEPT !.key = key]
  <2>1. p \in PullRequest
    BY ObligationAssumption
  <2>2. key \in PrKey \cup {NoKey}
    BY <2>1 DEF KeysOf, PrKey, PullRequest
  <2>3. c \in Call /\ c.kind = "other"
    BY <2>2, IdleType DEF Call, NoCall
  <2>4. Start(h, c) /\ UNCHANGED <<openPrs, owed, seen>>
    BY <1>6 DEF ReadOther, github, history
  <2> HIDE DEF c
  <2>5. QED BY <2>3, <2>4, StartSafe
<1>7. QED BY <1>1, <1>2, <1>3, <1>4, <1>5, <1>6

\* The invariant holds throughout a session in which pushes run alone and
\* complete, and pushed branches have their pull request.
LEMMA SafeAlways == Calm => (Spec => []Safe)
<1> SUFFICES ASSUME Calm PROVE Spec => []Safe
  OBVIOUS
<1>1. Init => Safe
  <2> SUFFICES ASSUME Init PROVE Safe
    OBVIOUS
  <2>1. \A h \in Hooks : ~Running(h)
    BY DEF Init, Running, IdleHook
  <2>2. ~PushInFlight
    BY <2>1 DEF PushInFlight
  <2>3. PushAlone /\ ReadHooks /\ PushHooks /\ QuietStop
    BY <2>1 DEF PushAlone, ReadHooks, PushHooks, QuietStop
  <2>4. file \notin State /\ owed = {} /\ stop = "idle" /\ openPrs = Prs
    BY ObligationAssumption DEF Init, Calm
  <2>5. QED
    BY <2>3, <2>4
       DEF Safe, ReadsBacked, OwedIsArmed, SatisfiedWhenClearing, AllowedOnlyOnEvidence
<1>2. TypeInv /\ TypeInv' /\ Safe /\ [Next]_vars => Safe'
  <2> SUFFICES ASSUME TypeInv, TypeInv', Safe, [Next]_vars PROVE Safe'
    OBVIOUS
  <2>1. ASSUME NEW h \in Hooks, Undirected(h) PROVE Safe'
    BY <2>1, UndirectedSafe DEF TypeInv, TypeOK
  <2>2. ASSUME NEW h \in Hooks, HookStep(h) PROVE Safe'
    BY <2>2, ReadStateSafe, AskGithubSafe, PersistSafe DEF HookStep
  <2>3. ASSUME NEW h \in Hooks, HookFails(h) PROVE Safe'
    BY <2>3, HookFailsSafe
  <2>4. CASE StopRead \/ StopClear \/ NewTurn \/ Outside
    BY <2>4, StopReadSafe, StopClearSafe, NewTurnSafe, OutsideSafe
  <2>5. CASE UNCHANGED vars
    BY <2>5
       DEF vars, Safe, PushAlone, QuietStop, ReadHooks, PushHooks, ReadsBacked, OwedIsArmed,
           SatisfiedWhenClearing, AllowedOnlyOnEvidence, PushInFlight, Running, Armed
  <2>6. QED BY <2>1, <2>2, <2>3, <2>4, <2>5 DEF Next
<1>3. QED BY <1>1, <1>2, TypeInvHolds, PTL DEF Spec

\* For any pull requests, threads and hook processes, and any overlap of reads
\* and resolves: if pushes run alone and complete, and pushed branches have
\* their pull request, the marker file credits only reads that were made and a
\* turn that pushed ends only on a listing and a mergeable_state of one PR.
THEOREM TurnEndsOnEvidence ==
    Calm => (Spec => [](ReadsBacked /\ AllowedOnlyOnEvidence))
<1>1. Safe => ReadsBacked /\ AllowedOnlyOnEvidence
  BY DEF Safe
<1>2. QED BY <1>1, SafeAlways, PTL

-----------------------------------------------------------------------------
(* Resolves.  Of the resolves that succeeded, those whose hook has not read  *)
(* the file yet are still to be counted in it.                               *)

Pending == {h \in Hooks : /\ hook[h].phase = "started"
                          /\ hook[h].call.kind = "resolve" /\ hook[h].call.ok}

\* n resolves can be credited while the pending ones are still to come.
Room(n) == n + Cardinality(Pending) <= resolves

Counted ==
    ~PushInFlight =>
        /\ Room(0)
        /\ file \in State => Room(file.resolve_calls)
        /\ \A h \in Hooks : hook[h].phase = "decided" => Room(hook[h].next.resolve_calls)

LEMMA PendingFinite == IsFiniteSet(Pending) /\ Cardinality(Pending) \in Nat
  BY ObligationAssumption, FS_Subset, FS_CardinalityType DEF Pending

\* Handling adds one for a resolve that succeeded, and nothing else.
LEMMA HandledCounts ==
    ASSUME NEW st \in State, NEW c \in Call, NEW a \in Answer, c.kind # "push"
    PROVE  /\ Handled(st, c, a).resolve_calls \in Nat
           /\ Handled(st, c, a).resolve_calls <=
                st.resolve_calls + (IF c.kind = "resolve" /\ c.ok THEN 1 ELSE 0)
<1>1. CASE c.kind = "resolve"
  BY <1>1 DEF Handled, handle_resolve_review_thread, State, Call
<1>2. CASE c.kind # "resolve"
  <2>1. Handled(st, c, a) = handle_pull_request_read(st, c)
    BY <1>2 DEF Handled
  <2>2. QED BY <1>2, <2>1 DEF handle_pull_request_read, Retarget, State, ArmedState, DefaultState
<1>3. QED BY <1>1, <1>2

\* A step that starts no resolve and decides nothing keeps the count.
LEMMA NothingToCount ==
    ASSUME TypeInv, TypeInv', Counted, file' \in {file, Absent, Corrupt}, resolves' = resolves,
           PushInFlight' <=> PushInFlight, Pending' \subseteq Pending,
           \A h \in Hooks : hook'[h].phase = "decided" => hook'[h] = hook[h]
    PROVE  Counted'
<1>1. Cardinality(Pending') <= Cardinality(Pending) /\ Cardinality(Pending') \in Nat
  BY PendingFinite, FS_Subset, FS_CardinalityType
<1>2. Cardinality(Pending) \in Nat /\ resolves \in Nat
  BY PendingFinite DEF TypeInv, TypeOK
<1>3. ASSUME NEW n \in Nat, Room(n) PROVE Room(n)'
  <2>1. n + Cardinality(Pending') <= resolves'
    BY <1>1, <1>2, <1>3 DEF Room
  <2>2. QED BY <2>1 DEF Room
<1>4. CASE PushInFlight
  BY <1>4 DEF Counted
<1>5. CASE ~PushInFlight
  <2>1. Room(0)' BY <1>3, <1>5 DEF Counted
  <2>2. file' \in State => Room(file.resolve_calls)' /\ file' = file
    BY <1>3, <1>5, ObligationAssumption DEF Counted, State
  <2>3. ASSUME NEW h \in Hooks, hook'[h].phase = "decided"
        PROVE  hook'[h] = hook[h] /\ Room(hook[h].next.resolve_calls)'
    BY <1>3, <1>5, <2>3 DEF Counted, TypeInv, TypeOK, HookState, State
  <2>4. QED BY <2>1, <2>2, <2>3 DEF Counted, Room
<1>6. QED BY <1>4, <1>5

\* A call that starts adds a resolve and its pending hook together.
LEMMA StartCounted ==
    ASSUME TypeInv, TypeInv', Counted, Safe, Calm, NEW h \in Hooks, NEW c \in Call, Start(h, c),
           c.kind # "push",
           resolves' = IF c.kind = "resolve" /\ c.ok THEN resolves + 1 ELSE resolves
    PROVE  Counted'
<1>1. \A g \in Hooks : Running(g) => hook[g].call.kind # "push"
  BY DEF Start, MayOverlap, Calm
<1>2. /\ ~Running(h) /\ file' = file
      /\ \A g \in Hooks : g # h => hook'[g] = hook[g]
      /\ hook'[h].phase = "started" /\ hook'[h].call = c
  BY StartHook
<1>3. ~PushInFlight /\ ~PushInFlight'
  BY <1>1, <1>2 DEF PushInFlight, Running
<1>4. CASE ~(c.kind = "resolve" /\ c.ok)
  <2>1. Pending' = Pending
    BY <1>2, <1>4 DEF Pending, Running
  <2>2. QED BY <1>2, <1>3, <1>4, <2>1, NothingToCount
<1>5. CASE c.kind = "resolve" /\ c.ok
  <2>1. Pending' = Pending \cup {h} /\ h \notin Pending
    BY <1>2, <1>5 DEF Pending, Running
  <2>2. Cardinality(Pending') = Cardinality(Pending) + 1 /\ resolves' = resolves + 1
    BY <1>5, <2>1, PendingFinite, FS_AddElement
  <2>3. Cardinality(Pending) \in Nat /\ resolves \in Nat
    BY PendingFinite DEF TypeInv, TypeOK
  <2>4. ASSUME NEW n \in Nat, Room(n) PROVE n + Cardinality(Pending') <= resolves'
    BY <2>2, <2>3, <2>4 DEF Room
  <2>5. Room(0)' BY <1>3, <2>4 DEF Counted, Room
  <2>6. file' \in State => file'.resolve_calls + Cardinality(Pending') <= resolves'
    BY <1>2, <1>3, <2>4 DEF Counted, State
  <2>7. ASSUME NEW g \in Hooks, hook'[g].phase = "decided"
        PROVE  hook'[g].next.resolve_calls + Cardinality(Pending') <= resolves'
    BY <1>2, <1>3, <2>4, <2>7 DEF Counted, TypeInv, TypeOK, HookState, State
  <2>8. QED BY <2>5, <2>6, <2>7 DEF Counted, Room
<1>6. QED BY <1>4, <1>5

\* A hook that reads the file takes its own resolve out of the pending ones.
LEMMA ReadStateCounted ==
    ASSUME TypeInv, TypeInv', Counted, Safe, NEW h \in Hooks, ReadState(h)
    PROVE  Counted'
<1> DEFINE c    == hook[h].call
           snap == IF file \in {Absent, Corrupt} THEN DefaultState ELSE file
           next == Handled(snap, c, "unknown")
           one  == IF c.kind = "resolve" /\ c.ok THEN 1 ELSE 0
<1>1. hook \in [Hooks -> HookState] /\ file \in State \cup {Absent, Corrupt} /\ resolves \in Nat
  BY DEF TypeInv, TypeOK
<1>2. c \in Call /\ snap \in State /\ hook[h].phase = "started" /\ UNCHANGED <<file, history>>
  BY <1>1, Sentinels DEF HookState, ReadState
<1>3. /\ \A g \in Hooks : g # h => hook'[g] = hook[g]
      /\ hook'[h].call = c
      /\ c.kind = "push" => hook'[h].phase = "asking"
      /\ c.kind # "push" => hook'[h].phase = "decided" /\ hook'[h].next = next
  BY <1>1 DEF ReadState, HookState
<1>4. PushInFlight' <=> PushInFlight
  BY <1>2, <1>3 DEF PushInFlight, Running
<1>5. CASE PushInFlight
  BY <1>4, <1>5 DEF Counted
<1>6. CASE ~PushInFlight
  <2>1. c.kind # "push"
    BY <1>2, <1>6 DEF PushInFlight, Running
  <2>2. Pending' = Pending \ {h} /\ (one = 1 => h \in Pending)
    BY <1>2, <1>3, <2>1 DEF Pending
  <2>3. Cardinality(Pending') + one <= Cardinality(Pending) /\ Cardinality(Pending') \in Nat
    <3> HIDE DEF one
    <3>0. one \in {0, 1} BY DEF one
    <3>1. /\ IsFiniteSet(Pending') /\ Cardinality(Pending') \in Nat
          /\ Cardinality(Pending') =
               IF h \in Pending THEN Cardinality(Pending) - 1 ELSE Cardinality(Pending)
      BY <2>2, PendingFinite, FS_RemoveElement, FS_CardinalityType
    <3>2. QED BY <2>2, <3>0, <3>1, PendingFinite
  <2>4. Cardinality(Pending) \in Nat BY PendingFinite
  <2>5. ASSUME NEW n \in Nat, Room(n) PROVE n + one + Cardinality(Pending') <= resolves
    BY <1>1, <2>3, <2>4, <2>5 DEF Room
  <2>6. snap.resolve_calls \in Nat /\ Room(snap.resolve_calls)
    BY <1>1, <1>2, <1>6 DEF Counted, State, DefaultState
  <2>7. next.resolve_calls \in Nat /\ next.resolve_calls <= snap.resolve_calls + one
    <3>1. "unknown" \in Answer BY DEF Answer
    <3>2. QED BY <1>2, <2>1, <3>1, HandledCounts
  <2>8. snap.resolve_calls + one + Cardinality(Pending') <= resolves
    BY <2>5, <2>6
  <2>9. next.resolve_calls + Cardinality(Pending') <= resolves
    <3> HIDE DEF next, snap, one
    <3>1. one \in {0, 1} BY DEF one
    <3>2. QED BY <1>1, <2>3, <2>6, <2>7, <2>8, <3>1
  <2>10. ASSUME NEW n \in Nat, Room(n) PROVE n + Cardinality(Pending') <= resolves
    BY <1>1, <2>3, <2>4, <2>10 DEF Room
  <2>11. resolves' = resolves /\ file' = file BY <1>2 DEF history
  <2>12. /\ 0 + Cardinality(Pending') <= resolves
         /\ file' \in State => file'.resolve_calls + Cardinality(Pending') <= resolves
    BY <1>6, <2>10, <2>11 DEF Counted, State
  <2>13. ASSUME NEW g \in Hooks, hook'[g].phase = "decided"
         PROVE  hook'[g].next.resolve_calls + Cardinality(Pending') <= resolves
    <3>1. CASE g = h BY <1>3, <2>1, <2>9, <3>1
    <3>2. CASE g # h
      BY <1>1, <1>3, <1>6, <2>10, <2>13, <3>2 DEF Counted, HookState, State
    <3>3. QED BY <3>1, <3>2
  <2>14. QED BY <2>11, <2>12, <2>13 DEF Counted, Room
<1>7. QED BY <1>5, <1>6

\* What is written had room; the hook of a push, which is alone, writes zero.
LEMMA PersistCounted ==
    ASSUME TypeInv, TypeInv', Counted, Safe, NEW h \in Hooks, Persist(h)
    PROVE  Counted'
<1>1. hook[h] \in HookState /\ file \in State \cup {Absent, Corrupt} /\ resolves \in Nat
  BY DEF TypeInv, TypeOK
<1>2. /\ \A g \in Hooks : g # h => hook'[g] = hook[g]
      /\ hook'[h].phase = "idle" /\ resolves' = resolves
      /\ Running(h) /\ hook[h].phase = "decided" /\ file' \in {file, hook[h].next}
  BY DEF Persist, TypeInv, TypeOK, Running, IdleHook, history
<1>3. CASE hook[h].call.kind = "push"
  <2>1. \A g \in Hooks : Running(g) => g = h
    BY <1>2, <1>3 DEF Safe, PushAlone
  <2>2. Pending' = {} /\ \A g \in Hooks : hook'[g].phase = "idle"
    BY <1>2, <2>1 DEF Pending, Running
  <2>3. hook[h].next = ArmedState
    BY <1>2, <1>3 DEF Safe, PushHooks
  <2>4. file' = ArmedState \/ file' = Corrupt \/ file' = Absent
    BY <1>2, <1>3, <2>3, Sentinels DEF Persist, Safe, PushHooks
  <2>5. file' \in State => file'.resolve_calls = 0
    BY <2>4, ObligationAssumption DEF ArmedState, DefaultState
  <2>6. Cardinality(Pending') = 0 BY <2>2, FS_EmptySet
  <2>7. QED BY <1>1, <1>2, <2>2, <2>5, <2>6 DEF Counted, Room
<1>4. CASE hook[h].call.kind # "push"
  <2>1. ~PushInFlight BY <1>2, <1>4 DEF Safe, PushAlone, PushInFlight
  <2>2. Pending' = Pending BY <1>2 DEF Pending
  <2>3. file' \in State => file'.resolve_calls + Cardinality(Pending) <= resolves
    BY <1>2, <2>1 DEF Counted, Room
  <2>4. ASSUME NEW g \in Hooks, hook'[g].phase = "decided"
        PROVE  hook'[g].next.resolve_calls + Cardinality(Pending) <= resolves
    BY <1>2, <2>1, <2>4 DEF Counted, Room
  <2>5. 0 + Cardinality(Pending) <= resolves BY <2>1 DEF Counted, Room
  <2>6. QED BY <1>2, <2>2, <2>3, <2>4, <2>5 DEF Counted, Room
<1>5. QED BY <1>3, <1>4

\* Any call that starts is counted.
LEMMA UndirectedCounted ==
    ASSUME TypeInv, TypeInv', Counted, Safe, Calm, NEW h \in Hooks, Undirected(h)
    PROVE  Counted'
<1>1. PICK p \in Prs :
        \/ Push(h, p)
        \/ \E t \in Threads, ok \in BOOLEAN : Resolve(h, p, t, ok)
        \/ \E key \in KeysOf(p), ok \in ResponseOk : ReadComments(h, p, key, ok)
        \/ \E key \in KeysOf(p), ok \in BOOLEAN : ReadPr(h, key, ok)
        \/ \E key \in KeysOf(p) : ReadOther(h, key)
  BY DEF Undirected
<1>2. CASE Push(h, p)
  <2> DEFINE c == [NoCall EXCEPT !.kind = "push", !.pr = p]
  <2>1. c \in Call /\ c.kind = "push" BY IdleType DEF Call, Kinds, NoCall
  <2>2. Start(h, c) BY <1>2 DEF Push
  <2> HIDE DEF c
  <2>3. hook'[h].phase = "started" /\ hook'[h].call = c BY <2>1, <2>2, StartHook
  <2>4. PushInFlight' BY <2>1, <2>3 DEF PushInFlight, Running
  <2>5. QED BY <2>4 DEF Counted
<1>3. ASSUME NEW t \in Threads, NEW ok \in BOOLEAN, Resolve(h, p, t, ok) PROVE Counted'
  <2> DEFINE c == [NoCall EXCEPT !.kind = "resolve", !.ok = ok]
  <2>1. c \in Call /\ c.kind = "resolve" /\ c.ok = ok BY IdleType DEF Call, Kinds, NoCall
  <2>2. Start(h, c) /\ resolves' = IF ok THEN resolves + 1 ELSE resolves BY <1>3 DEF Resolve
  <2> HIDE DEF c
  <2>3. QED BY <2>1, <2>2, StartCounted
<1>4. ASSUME NEW c, Start(h, c), c.kind \in ReadKinds, resolves' = resolves PROVE Counted'
  <2>1. hook'[h].call = c /\ hook' \in [Hooks -> HookState]
    BY <1>4 DEF Start, TypeInv, TypeOK, IdleHook, HookState
  <2>2. c \in Call BY <2>1 DEF HookState
  <2>3. QED BY <1>4, <2>2, StartCounted DEF ReadKinds
<1>5. ASSUME NEW key \in KeysOf(p), NEW ok \in ResponseOk, ReadComments(h, p, key, ok)
      PROVE  Counted'
  <2>1. PICK shown \in SUBSET unresolved[p] :
          /\ Start(h, [NoCall EXCEPT !.kind = "comments", !.key = key, !.ok = ok,
                                     !.count = IF ok THEN Cardinality(shown) ELSE 0])
          /\ UNCHANGED <<github, owed, pushed, resolves>>
    BY <1>5 DEF ReadComments
  <2>2. QED BY <1>4, <2>1 DEF NoCall, ReadKinds
<1>6. ASSUME NEW key \in KeysOf(p), NEW ok \in BOOLEAN, ReadPr(h, key, ok) PROVE Counted'
  <2>1. /\ Start(h, [NoCall EXCEPT !.kind = "get", !.key = key, !.ok = ok])
        /\ UNCHANGED <<github, owed, pushed, resolves>>
    BY <1>6 DEF ReadPr
  <2>2. QED BY <1>4, <2>1 DEF NoCall, ReadKinds
<1>7. ASSUME NEW key \in KeysOf(p), ReadOther(h, key) PROVE Counted'
  <2>1. Start(h, [NoCall EXCEPT !.key = key]) /\ resolves' = resolves
    BY <1>7 DEF ReadOther, history
  <2>2. QED BY <1>4, <2>1 DEF NoCall, ReadKinds
<1>8. QED BY <1>1, <1>2, <1>3, <1>5, <1>6, <1>7

\* Under the same assumptions, all the progress in the marker file is earned:
\* the reads it credits were made, and no more resolves are credited than
\* succeeded since the push, whichever snapshots overlapping hooks write.
THEOREM ProgressIsEarned == Calm => (Spec => []EvidenceBacked)
<1> SUFFICES ASSUME Calm PROVE Spec => []EvidenceBacked
  OBVIOUS
<1>1. Init => Counted
  <2> SUFFICES ASSUME Init PROVE Counted
    OBVIOUS
  <2>1. Pending = {} /\ \A h \in Hooks : hook[h].phase = "idle"
    BY DEF Init, Pending, IdleHook
  <2>2. Cardinality(Pending) = 0 BY <2>1, FS_EmptySet
  <2>3. file \notin State /\ resolves = 0 BY ObligationAssumption DEF Init
  <2>4. QED BY <2>1, <2>2, <2>3 DEF Counted, Room
<1>2. TypeInv /\ TypeInv' /\ Safe /\ Counted /\ [Next]_vars => Counted'
  <2> SUFFICES ASSUME TypeInv, TypeInv', Safe, Counted, [Next]_vars PROVE Counted'
    OBVIOUS
  <2>1. ASSUME NEW h \in Hooks, Undirected(h) PROVE Counted'
    BY <2>1, UndirectedCounted
  <2>2. ASSUME NEW h \in Hooks, ReadState(h) \/ Persist(h) PROVE Counted'
    BY <2>2, ReadStateCounted, PersistCounted
  <2>3. ASSUME NEW h \in Hooks, AskGithub(h) PROVE Counted'
    <3>1. hook[h] \in HookState /\ hook[h].phase = "asking" /\ hook[h].call.kind = "push"
      BY <2>3 DEF AskGithub, TypeInv, TypeOK, Safe, ReadHooks, Running
    <3>2. hook'[h].phase = "decided" /\ hook'[h].call.kind = "push"
      BY <2>3, <3>1 DEF AskGithub, TypeInv, TypeOK, HookState
    <3>3. PushInFlight' BY <3>2 DEF PushInFlight, Running
    <3>4. QED BY <3>3 DEF Counted
  <2>4. ASSUME NEW h \in Hooks, HookFails(h) PROVE Counted'
    <3>1. /\ \A g \in Hooks : g # h => hook'[g] = hook[g]
          /\ hook'[h].phase = "idle" /\ UNCHANGED <<file, history>>
          /\ hook[h].call.kind # "push"
      BY <2>4 DEF HookFails, TypeInv, TypeOK, IdleHook, Calm
    <3>2. Pending' \subseteq Pending BY <3>1 DEF Pending
    <3>3. PushInFlight' <=> PushInFlight BY <3>1 DEF PushInFlight, Running
    <3>4. \A g \in Hooks : hook'[g].phase = "decided" => hook'[g] = hook[g]
      BY <3>1
    <3>5. QED BY <3>1, <3>2, <3>3, <3>4, NothingToCount DEF history
  <2>5. CASE StopRead \/ StopClear \/ NewTurn \/ Outside \/ UNCHANGED vars
    <3>1. hook' = hook /\ resolves' = resolves
      BY <2>5 DEF StopRead, StopClear, NewTurn, Outside, Event, history, vars
    <3>2. file' \in {file, Absent, Corrupt}
      BY <2>5 DEF StopRead, StopClear, NewTurn, Outside, Event, OpenPr, Review, Spoil, vars
    <3>3. Pending' = Pending /\ (PushInFlight' <=> PushInFlight)
      BY <3>1 DEF Pending, PushInFlight, Running
    <3>4. QED BY <3>1, <3>2, <3>3, NothingToCount
  <2>6. QED BY <2>1, <2>2, <2>3, <2>4, <2>5 DEF Next, HookStep
<1>3. TypeInv /\ Safe /\ Counted => EvidenceBacked
  <2> SUFFICES ASSUME TypeInv, Safe, Counted, file \in State, ~PushInFlight
               PROVE  Backed(file, seen) /\ file.resolve_calls <= resolves
    BY DEF EvidenceBacked
  <2>1. Backed(file, seen) BY DEF Safe, ReadsBacked
  <2>2. file.resolve_calls + Cardinality(Pending) <= resolves BY DEF Counted, Room
  <2>3. QED BY <2>1, <2>2, PendingFinite DEF TypeInv, TypeOK, State
<1>4. QED BY <1>1, <1>2, <1>3, TypeInvHolds, SafeAlways, PTL DEF Spec
-----------------------------------------------------------------------------
(* An unreadable file.                                                      *)

\* Under the same assumptions, a marker file that became unreadable ends no
\* turn, and only an armed state ever replaces it: the processes that read it
\* as the default, or read it before it was spoilt, write nothing that disarms.
THEOREM UnreadableIsArmed == Calm => (Spec => UnreadableBlocks)
<1> SUFFICES ASSUME Calm PROVE Spec => UnreadableBlocks
  OBVIOUS
<1> DEFINE Blocks == file = Corrupt => /\ file' # Absent
                                       /\ file' = Corrupt \/ file'.push_detected
                                       /\ stop' = "allowed" => stop = "allowed"
<1>1. TypeInv /\ Safe /\ [Next]_vars => [Blocks]_vars
  <2> SUFFICES ASSUME TypeInv, Safe, [Next]_vars, file = Corrupt
               PROVE  /\ file' # Absent
                      /\ file' = Corrupt \/ file'.push_detected
                      /\ stop' = "allowed" => stop = "allowed"
    OBVIOUS
  <2>0. Absent # Corrupt /\ Absent \notin State /\ Corrupt \notin State
    BY ObligationAssumption
  <2>1. ASSUME NEW h \in Hooks, Undirected(h) PROVE file' = file /\ stop' = "idle"
    <3>1. \E c : Start(h, c)
      BY <2>1 DEF Undirected, Push, Resolve, ReadComments, ReadPr, ReadOther
    <3>2. QED BY <3>1 DEF Start
  <2>2. ASSUME NEW h \in Hooks, ReadState(h) \/ AskGithub(h) \/ HookFails(h)
        PROVE  file' = file /\ stop' = stop
    BY <2>2 DEF ReadState, AskGithub, HookFails
  <2>3. ASSUME NEW h \in Hooks, Persist(h)
        PROVE  stop' = stop /\ (file' = file \/ (file' \in State /\ file'.push_detected))
    <3>1. Running(h) /\ hook[h].phase = "decided" /\ hook[h].next \in State
      BY <2>3 DEF Persist, Running, TypeInv, TypeOK, HookState
    <3>2. hook[h].call.kind # "push" /\ hook[h].next # hook[h].snap => hook[h].next.push_detected
      BY <3>1 DEF Safe, ReadHooks
    <3>3. hook[h].call.kind = "push" => hook[h].next.push_detected
      BY <3>1, Sentinels DEF Safe, PushHooks
    <3>4. QED BY <2>3, <3>1, <3>2, <3>3 DEF Persist
  <2>4. CASE StopRead
    BY <2>4, <2>0 DEF StopRead, Unsatisfied
  <2>5. ~StopClear
    BY <2>0 DEF StopClear, Safe, SatisfiedWhenClearing
  <2>6. CASE NewTurn
    BY <2>6, <2>0 DEF NewTurn
  <2>7. CASE Outside
    BY <2>7, <2>0 DEF Outside, Event, OpenPr, Review, Spoil
  <2>8. CASE UNCHANGED vars
    BY <2>8, <2>0 DEF vars
  <2>9. QED BY <2>0, <2>1, <2>2, <2>3, <2>4, <2>5, <2>6, <2>7, <2>8 DEF Next, HookStep
<1>2. QED BY <1>1, TypeInvHolds, SafeAlways, PTL DEF Spec, UnreadableBlocks
-----------------------------------------------------------------------------
(* Refinement: with calls one at a time, a session implements TurnGate.     *)

OneAtATime == Overlap = {}

\* What a process read is still there, or was spoilt since.
Current(h) ==
    \/ file = Corrupt
    \/ file = hook[h].snap
    \/ file = Absent /\ hook[h].snap = DefaultState

Serial ==
    /\ \A g, h \in Hooks : Running(g) /\ Running(h) => g = h
    /\ QuietStop
    /\ SatisfiedWhenClearing
    /\ \A h \in Hooks : hook[h].phase \in {"asking", "decided"} => Current(h)
    /\ \A h \in Hooks : hook[h].phase = "decided" =>
         \E a \in Answer : hook[h].next = Handled(hook[h].snap, hook[h].call, a)

\* A call starts only when no other one is under way.
LEMMA StartsAlone ==
    ASSUME OneAtATime, NEW h, NEW c, Start(h, c)
    PROVE  \A g \in Hooks : ~Running(g)
  BY DEF OneAtATime, Start, MayOverlap

\* One process runs at a time, and it knows the file as it is.
LEMMA SerialAlways == OneAtATime => (Spec => []Serial)
<1> SUFFICES ASSUME OneAtATime PROVE Spec => []Serial
  OBVIOUS
<1>1. Init => Serial
  BY DEF Init, Serial, Running, IdleHook, QuietStop, SatisfiedWhenClearing
<1>2. TypeInv /\ Serial /\ [Next]_vars => Serial'
  <2> SUFFICES ASSUME TypeInv, Serial, [Next]_vars PROVE Serial'
    OBVIOUS
  <2>0. hook \in [Hooks -> HookState]
    BY DEF TypeInv, TypeOK
  <2>1. ASSUME NEW h \in Hooks, Undirected(h) PROVE Serial'
    <3>1. PICK c : Start(h, c)
      BY <2>1 DEF Undirected, Push, Resolve, ReadComments, ReadPr, ReadOther
    <3>2. \A g \in Hooks : ~Running(g)
      BY <3>1, StartsAlone
    <3>3. /\ stop' = "idle"
          /\ \A g \in Hooks : g # h => hook'[g] = hook[g]
          /\ hook'[h].phase = "started"
      BY <3>1, <2>0 DEF Start, HookState, IdleHook
    <3>4. \A g \in Hooks : hook[g].phase = "idle"
      BY <3>2, <2>0 DEF Running
    <3>5. QED
      BY <3>3, <3>4 DEF Serial, Running, QuietStop, SatisfiedWhenClearing
  <2>2. ASSUME NEW h \in Hooks, ReadState(h) PROVE Serial'
    <3> DEFINE c    == hook[h].call
               snap == IF file \in {Absent, Corrupt} THEN DefaultState ELSE file
    <3>1. /\ hook[h].phase = "started" /\ UNCHANGED <<file, stop>>
          /\ \A g \in Hooks : g # h => hook'[g] = hook[g]
          /\ hook'[h].call = c /\ hook'[h].snap = snap
          /\ \/ hook'[h].phase = "asking"
             \/ hook'[h].phase = "decided" /\ hook'[h].next = Handled(snap, c, "unknown")
      BY <2>2, <2>0 DEF ReadState, HookState
    <3>2. Current(h)'
      BY <3>1 DEF Current
    <3>3. \A g \in Hooks : Running(g)' <=> Running(g)
      BY <3>1 DEF Running
    <3>4. \A g \in Hooks : g # h => hook'[g].phase \notin {"asking", "decided"}
      BY <3>1, <2>0 DEF Serial, Running
    <3>5. hook'[h].phase = "decided" =>
            \E a \in Answer : hook'[h].next = Handled(hook'[h].snap, hook'[h].call, a)
      BY <3>1 DEF Answer
    <3>6. QED
      BY <3>1, <3>2, <3>3, <3>4, <3>5 DEF Serial, QuietStop, SatisfiedWhenClearing
  <2>3. ASSUME NEW h \in Hooks, AskGithub(h) PROVE Serial'
    <3>1. PICK a \in Answers(hook[h].call.pr) :
            hook' = [hook EXCEPT ![h].phase = "decided",
                                 ![h].next = Handled(hook[h].snap, hook[h].call, a)]
      BY <2>3 DEF AskGithub
    <3>2. /\ hook[h].phase = "asking" /\ UNCHANGED <<file, stop>>
          /\ \A g \in Hooks : g # h => hook'[g] = hook[g]
          /\ hook'[h].call = hook[h].call /\ hook'[h].snap = hook[h].snap
          /\ hook'[h].phase = "decided"
          /\ hook'[h].next = Handled(hook[h].snap, hook[h].call, a)
      BY <2>3, <3>1, <2>0 DEF AskGithub, HookState
    <3>3. Current(h)'
      BY <3>2 DEF Current, Serial
    <3>4. \A g \in Hooks : Running(g)' <=> Running(g)
      BY <3>2 DEF Running
    <3>5. \A g \in Hooks : g # h => hook'[g].phase \notin {"asking", "decided"}
      BY <3>2, <2>0 DEF Serial, Running
    <3>6. a \in Answer
      BY DEF Answers, Answer
    <3>7. \E b \in Answer : hook'[h].next = Handled(hook'[h].snap, hook'[h].call, b)
      BY <3>2, <3>6
    <3>8. QED
      BY <3>2, <3>3, <3>4, <3>5, <3>7 DEF Serial, QuietStop, SatisfiedWhenClearing
  <2>4. ASSUME NEW h \in Hooks, Persist(h) \/ HookFails(h) PROVE Serial'
    <3>1. /\ stop' = stop /\ Running(h)
          /\ \A g \in Hooks : g # h => hook'[g] = hook[g]
          /\ hook'[h].phase = "idle"
      BY <2>4, <2>0 DEF Persist, HookFails, Running, IdleHook
    <3>2. \A g \in Hooks : hook'[g].phase = "idle"
      BY <3>1, <2>0 DEF Serial, Running
    <3>3. stop = "idle"
      BY <3>1 DEF Serial, QuietStop
    <3>4. QED
      BY <3>1, <3>2, <3>3 DEF Serial, Running, QuietStop, SatisfiedWhenClearing
  <2>5. CASE StopRead \/ StopClear \/ NewTurn
    <3>1. hook' = hook /\ \A h \in Hooks : ~Running(h)
      BY <2>5 DEF StopRead, StopClear, NewTurn, Serial, QuietStop
    <3>2. \A h \in Hooks : hook[h].phase = "idle"
      BY <3>1, <2>0 DEF Running
    <3>3. SatisfiedWhenClearing'
      BY <2>5, ObligationAssumption
         DEF StopRead, StopClear, NewTurn, SatisfiedWhenClearing, Unsatisfied, TypeInv, TypeOK
    <3>4. QED BY <3>1, <3>2, <3>3 DEF Serial, QuietStop, Running
  <2>6. CASE Outside
    <3>1. hook' = hook /\ stop' = stop /\ (file' = file \/ (file' = Corrupt /\ stop # "clearing"))
      BY <2>6 DEF Outside, Event, OpenPr, Review, Spoil
    <3>2. QED BY <3>1 DEF Serial, Current, QuietStop, Running, SatisfiedWhenClearing
  <2>7. CASE UNCHANGED vars
    BY <2>7 DEF vars, Serial, Current, QuietStop, Running, SatisfiedWhenClearing
  <2>8. QED BY <2>1, <2>2, <2>3, <2>4, <2>5, <2>6, <2>7 DEF Next, HookStep
<1>3. QED BY <1>1, <1>2, TypeInvHolds, PTL DEF Spec

\* Which duties are open under an armed state.
LEMMA OpenDuties ==
    ASSUME NEW st \in State, st.push_detected
    PROVE  /\ Gate!Bounded(Missing(st))
           /\ \A d \in Gate!Open(Missing(st)) : d \in Gate!Duties
           /\ {"comments", "resolve"} \in Gate!Open(Missing(st)) <=>
                \/ st.open_review_threads = Unseen
                \/ st.resolve_calls < st.open_review_threads
           /\ {"mergeable"} \in Gate!Open(Missing(st)) <=> ~st.mergeable_checked
<1> DEFINE m == Missing(st)
<1>1. /\ m \subseteq {"comments", "resolve", "mergeable"}
      /\ "comments" \in m <=> st.open_review_threads = Unseen
      /\ "resolve" \in m <=> /\ st.open_review_threads # Unseen
                             /\ st.resolve_calls < st.open_review_threads
      /\ "mergeable" \in m <=> ~st.mergeable_checked
  BY DEF Missing
<1> HIDE DEF m
<1>2. UNION Gate!Duties = {"comments", "resolve", "mergeable"}
  BY DEF Gate!Duties
<1>3. Gate!Bounded(m)
  BY <1>1, <1>2 DEF Gate!Bounded
<1>4. /\ {"comments", "resolve"} \in Gate!Open(m) <=> "comments" \in m \/ "resolve" \in m
      /\ {"mergeable"} \in Gate!Open(m) <=> "mergeable" \in m
      /\ \A d \in Gate!Open(m) : d \in Gate!Duties
  BY DEF Gate!Open, Gate!Duties
<1>5. QED BY <1>1, <1>3, <1>4 DEF m

\* A resolve or a read that changes the state finds and leaves it armed, and
\* discharges one duty at most (handle_resolve_review_thread,
\* handle_pull_request_read).
THEOREM OneDuty ==
    ASSUME NEW st \in State, NEW c \in Call, NEW a \in Answer,
           c.kind # "push", Handled(st, c, a) # st
    PROVE  /\ st.push_detected /\ Handled(st, c, a).push_detected
           /\ Gate!Bounded(Missing(Handled(st, c, a)))
           /\ \A d, e \in Gate!Open(Missing(st)) \ Gate!Open(Missing(Handled(st, c, a))) : d = e
<1> DEFINE new == Handled(st, c, a)
<1>1. new \in State /\ new.push_detected
  BY HandledType, HandledArmed
<1>2. /\ st.push_detected
      /\ ~st.mergeable_checked /\ new.mergeable_checked =>
           \/ new.open_review_threads = Unseen
           \/ /\ new.open_review_threads = st.open_review_threads
              /\ new.resolve_calls = st.resolve_calls
  <2>1. CASE c.kind = "resolve"
    <3>1. new = [st EXCEPT !.resolve_calls = @ + 1] /\ st.push_detected
      BY <2>1 DEF Handled, handle_resolve_review_thread
    <3>2. QED BY <3>1 DEF State
  <2>2. CASE c.kind # "resolve"
    <3> DEFINE tr == Retarget(st, c.key)
    <3>1. new = handle_pull_request_read(st, c)
      BY <2>2 DEF Handled
    <3>2. /\ st.push_detected
          /\ new = [tr EXCEPT
                      !.open_review_threads = IF c.kind = "comments" THEN c.count ELSE @,
                      !.mergeable_checked   = @ \/ (c.kind = "get" /\ c.ok)]
      BY <3>1 DEF handle_pull_request_read
    <3>3. tr \in State
      BY RetargetType DEF Call
    <3>4. /\ tr = st \/ (tr.open_review_threads = Unseen /\ ~tr.mergeable_checked)
      BY DEF Retarget, ArmedState, DefaultState, Call
    <3> HIDE DEF tr, new
    <3>5. /\ new.resolve_calls = tr.resolve_calls
          /\ new.open_review_threads =
               IF c.kind = "comments" THEN c.count ELSE tr.open_review_threads
          /\ new.mergeable_checked = (tr.mergeable_checked \/ (c.kind = "get" /\ c.ok))
      BY <3>2, <3>3 DEF State
    <3>6. ASSUME ~st.mergeable_checked, new.mergeable_checked
          PROVE  /\ new.open_review_threads = tr.open_review_threads
                 /\ new.resolve_calls = tr.resolve_calls
      <4>1. ~tr.mergeable_checked
        BY <3>4, <3>6
      <4>2. c.kind = "get"
        BY <3>5, <3>6, <4>1
      <4>3. QED BY <3>5, <4>2
    <3>7. QED BY <3>2, <3>4, <3>6
  <2>3. QED BY <2>1, <2>2
<1> HIDE DEF new
<1>3. ~({"comments", "resolve"} \in Gate!Open(Missing(st)) \ Gate!Open(Missing(new))
         /\ {"mergeable"} \in Gate!Open(Missing(st)) \ Gate!Open(Missing(new)))
  BY <1>1, <1>2, OpenDuties
<1>4. \A d \in Gate!Open(Missing(st)) : d \in Gate!Duties
  BY <1>2, OpenDuties
<1>5. QED BY <1>1, <1>2, <1>3, <1>4, OpenDuties DEF Gate!Duties, new
\* The abstract state a marker file stands for.
LEMMA GateView ==
    /\ file = Absent => GatePhase = "free" /\ GateDue = {}
    /\ file = Corrupt => GatePhase = "unreadable" /\ GateDue = {}
    /\ file \in State =>
         /\ GateDue = Missing(file)
         /\ file.push_detected => GatePhase = "bound"
         /\ ~file.push_detected => GatePhase = "free" /\ GateDue = {}
<1>1. Absent # Corrupt /\ Absent \notin State /\ Corrupt \notin State
  BY ObligationAssumption
<1>2. QED BY <1>1 DEF GatePhase, GateDue, Missing

\* The armed state is bound to both duties.
LEMMA ArmedDue == Missing(ArmedState) = {"comments", "mergeable"}
  BY DEF Missing, ArmedState, DefaultState

\* With calls one at a time, for any pull requests, keys, lost hooks, error
\* answers, unreadable files and pushes without a pull request: every step of a
\* session binds the turn, discharges one duty at most, or finishes it when
\* none is due; no two duties are ever discharged by one call.
THEOREM SessionIsATurnGate == OneAtATime => (Spec => ImplementsTurnGate)
<1> SUFFICES ASSUME OneAtATime PROVE Spec => Gate!Spec
  BY DEF ImplementsTurnGate
<1>0. Absent # Corrupt /\ Absent \notin State /\ Corrupt \notin State
  BY ObligationAssumption
<1>1. Init => Gate!Init
  BY GateView DEF Init, Gate!Init
<1>2. TypeInv /\ TypeInv' /\ Serial /\ [Next]_vars => [Gate!Next]_(Gate!vars)
  <2> SUFFICES ASSUME TypeInv, TypeInv', Serial, [Next]_vars
               PROVE  Gate!Next \/ UNCHANGED Gate!vars
    OBVIOUS
  <2> DEFINE Same == GatePhase' = GatePhase /\ GateDue' = GateDue
  <2>0. file' = file => Same
    BY DEF GatePhase, GateDue, Missing
  <2>v. /\ file' = Absent => GatePhase' = "free" /\ GateDue' = {}
        /\ file' = Corrupt => GatePhase' = "unreadable" /\ GateDue' = {}
        /\ file' \in State =>
             /\ GateDue' = Missing(file')
             /\ file'.push_detected => GatePhase' = "bound"
             /\ ~file'.push_detected => GatePhase' = "free" /\ GateDue' = {}
    BY <1>0 DEF GatePhase, GateDue, Missing
  <2>s. file' = file /\ stop' = stop => UNCHANGED Gate!vars
    BY <2>0 DEF Gate!vars
  <2> HIDE DEF Same
  <2>w. file' = file /\ stop' # "allowed" => Gate!Next
    BY <2>0 DEF Gate!Next, Gate!Work, Same
  <2>1. ASSUME NEW h \in Hooks, Undirected(h) PROVE Gate!Next
    <3>1. \E c : Start(h, c)
      BY <2>1 DEF Undirected, Push, Resolve, ReadComments, ReadPr, ReadOther
    <3>2. QED BY <3>1, <2>w DEF Start
  <2>2. ASSUME NEW h \in Hooks, ReadState(h) \/ AskGithub(h) \/ HookFails(h)
        PROVE  UNCHANGED Gate!vars
    BY <2>2, <2>s DEF ReadState, AskGithub, HookFails
  <2>3. ASSUME NEW h \in Hooks, Persist(h) PROVE Gate!Next \/ UNCHANGED Gate!vars
    <3> DEFINE snap == hook[h].snap
               next == hook[h].next
               c    == hook[h].call
    <3>1. /\ hook[h].phase = "decided" /\ Running(h) /\ Current(h)
          /\ snap \in State /\ next \in State /\ c \in Call
          /\ stop' = stop
      BY <2>3 DEF Persist, Running, Serial, TypeInv, TypeOK, HookState
    <3>2. stop = "idle"
      BY <3>1 DEF Serial, QuietStop
    <3>3. PICK a \in Answer : next = Handled(snap, c, a)
      BY <3>1 DEF Serial
    <3>4. CASE next = snap
      BY <3>4, <3>1, <2>3, <2>s DEF Persist
    <3>5. CASE next # snap /\ c.kind = "push"
      <4>1. file' = next
        BY <3>5, <2>3 DEF Persist
      <4>2. next = ArmedState \/ next = DefaultState
        BY <3>3, <3>5 DEF Handled, handle_bash
      <4>3. CASE next = ArmedState
        <5>1. GatePhase' = "bound" /\ GateDue' = {"comments", "mergeable"}
          BY <4>1, <4>3, <2>v, ArmedDue, Sentinels
        <5>2. QED BY <5>1, <3>1, <3>2 DEF Gate!Next, Gate!Bind, Gate!Work
      <4>4. CASE next = DefaultState
        <5>1. GatePhase' = "free" /\ GateDue' = {}
          BY <4>1, <4>4, <2>v, Sentinels
        <5>2. QED BY <5>1, <3>1, <3>2 DEF Gate!Next, Gate!Free, Gate!Work
      <4>5. QED BY <4>2, <4>3, <4>4
    <3>6. CASE next # snap /\ c.kind # "push"
      <4>1. file' = next
        BY <3>6, <2>3 DEF Persist
      <4>2. /\ snap.push_detected /\ next.push_detected
            /\ Gate!Bounded(Missing(next))
            /\ \A d, e \in Gate!Open(Missing(snap)) \ Gate!Open(Missing(next)) : d = e
        BY <3>1, <3>3, <3>6, OneDuty
      <4>3. GatePhase' = "bound" /\ GateDue' = Missing(next)
        BY <4>1, <4>2, <3>1, <2>v
      <4>4. Gate!Bounded(GateDue')
        BY <4>2, <4>3
      <4>5. CASE file = Corrupt
        <5>1. GatePhase = "unreadable"
          BY <4>5, GateView
        <5>2. QED BY <5>1, <4>3, <4>4, <3>1 DEF Gate!Next, Gate!Restore
      <4>6. CASE file # Corrupt
        <5>1. file = snap
          BY <4>2, <4>6, <3>1, Sentinels DEF Current
        <5>2. GatePhase = "bound" /\ GateDue = Missing(snap)
          BY <5>1, <4>2, <3>1, GateView
        <5>3. \A d, e \in Gate!Open(GateDue) \ Gate!Open(GateDue') : d = e
          BY <5>2, <4>2, <4>3
        <5>4. QED
          BY <5>2, <5>3, <4>3, <4>4, <3>1, <3>2 DEF Gate!Next, Gate!Discharge, Gate!Work
      <4>7. QED BY <4>5, <4>6
    <3>7. QED BY <3>4, <3>5, <3>6
  <2>4. CASE StopRead
    <3>1. file' = file /\ stop = "idle"
      BY <2>4 DEF StopRead
    <3>2. CASE file = Absent
      <4>1. stop' = "allowed"
        BY <2>4, <3>2 DEF StopRead
      <4>2. GatePhase = "free" /\ GateDue = {} /\ GatePhase' = "free" /\ GateDue' = {}
        BY <3>1, <3>2, <2>v, GateView
      <4>3. QED BY <4>1, <4>2, <3>1 DEF Gate!Next, Gate!Finish
    <3>3. CASE file # Absent
      <4>1. stop' # "allowed"
        BY <2>4, <3>3 DEF StopRead
      <4>2. QED BY <4>1, <3>1, <2>w
    <3>4. QED BY <3>2, <3>3
  <2>5. CASE StopClear
    <3>1. /\ stop = "clearing" /\ stop' = "allowed" /\ file' \in {Absent, file}
          /\ file \in State /\ Missing(file) = {}
      BY <2>5 DEF StopClear, Serial, SatisfiedWhenClearing
    <3>2. GateDue = {} /\ GatePhase \in {"bound", "free"}
      BY <3>1, GateView
    <3>3. GateDue' = {} /\ GatePhase' \in {"free", GatePhase}
      BY <3>1, <3>2, <2>0, <2>v DEF Same
    <3>4. QED BY <3>1, <3>2, <3>3 DEF Gate!Next, Gate!Finish
  <2>6. CASE NewTurn
    BY <2>6, <2>w DEF NewTurn
  <2>7. CASE Outside
    <3>1. stop' = stop /\ (file' = file \/ file' = Corrupt)
      BY <2>7 DEF Outside, Event, OpenPr, Review, Spoil
    <3>2. CASE file' = Corrupt
      BY <3>1, <3>2, <2>v DEF Gate!Next, Gate!Spoil
    <3>3. QED BY <3>1, <3>2, <2>s
  <2>8. CASE UNCHANGED vars
    BY <2>8, <2>s DEF vars
  <2>9. QED BY <2>1, <2>2, <2>3, <2>4, <2>5, <2>6, <2>7, <2>8 DEF Next, HookStep
<1>3. QED BY <1>1, <1>2, TypeInvHolds, SerialAlways, PTL DEF Spec, Gate!Spec
=============================================================================
