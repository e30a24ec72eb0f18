-------------------- MODULE IndependentReviewGateProofs --------------------
(***************************************************************************)
(* Proofs about IndependentReviewGate for any commits, bodies and checks:   *)
(* the types of every state, that what is merged was vouched for, and that  *)
(* the check follows the body once every event was judged, however pushes,  *)
(* edits, job cancellations and re-runs interleave.                         *)
(***************************************************************************)
EXTENDS IndependentReviewGate, SequenceTheorems, WellFoundedInduction, TLAPS

-----------------------------------------------------------------------------
(* The verdict.                                                             *)

\* A set of natural numbers with an upper bound has a greatest one.
LEMMA Greatest ==
    ASSUME NEW n \in Nat, NEW S, S \subseteq 1..n, S # {}
    PROVE  \E i \in S : \A j \in S : j <= i
<1> DEFINE T == {k \in Nat : \E i \in S : k = n - i}
           R == OpToRel(<, Nat)
<1>1. PICK s \in S : TRUE
  OBVIOUS
<1>2. n - s \in T
  BY <1>1
<1>3. T \subseteq Nat /\ T # {}
  BY <1>2
<1>4. IsWellFoundedOn(R, Nat)
  BY NatLessThanWellFounded
<1>5. PICK k \in T : \A l \in T : ~(<<l, k>> \in R)
  <2> HIDE DEF T, R
  <2> QED BY <1>3, <1>4, WFMin
<1>6. \A l \in T : k <= l
  <2> SUFFICES ASSUME NEW l \in T, ~(k <= l) PROVE FALSE
    OBVIOUS
  <2>1. <<l, k>> \in R
    BY DEF OpToRel
  <2> QED BY <2>1, <1>5
<1>7. PICK i \in S : k = n - i
  OBVIOUS
<1>8. ASSUME NEW j \in S PROVE j <= i
  <2>1. n - j \in T
    OBVIOUS
  <2>2. k <= n - j
    BY <1>6, <2>1
  <2> QED BY <1>7, <2>2
<1> QED BY <1>8

\* The gate's script (check) passes only what a reader of the rendered body
\* calls a clean verdict on the head.
THEOREM CheckIsClean ==
    ASSUME NEW body \in Bodies, NEW c \in Commits, check(body, c)
    PROVE  Clean(body, c)
<1> DEFINE S == Sections(body)
           i == CHOOSE k \in S : \A j \in S : j <= k
<1>1. body \in Seq(Section)
  BY GateAssumption
<1>2. Len(body) \in Nat /\ DOMAIN body = 1..Len(body)
  BY <1>1
<1>3. S \subseteq 1..Len(body) /\ S # {}
  BY <1>2 DEF Sections, check
<1>4. i \in S /\ \A j \in S : j <= i
  <2>1. \E k \in S : \A j \in S : j <= k
    <3> HIDE DEF S
    <3> QED BY <1>2, <1>3, Greatest
  <2> HIDE DEF S
  <2> QED BY <2>1
<1>5. i \in DOMAIN body /\ body[i].live
  BY <1>4 DEF Sections
<1>6. \A j \in DOMAIN body : j > i => ~body[j].live
  <2> SUFFICES ASSUME NEW j \in DOMAIN body, j > i, body[j].live PROVE FALSE
    OBVIOUS
  <2>1. j \in S
    BY DEF Sections
  <2>2. j <= i
    BY <2>1, <1>4
  <2> QED BY <2>2, <1>2, <1>5
<1>7. parse_verdict(body) = body[i]
  BY DEF parse_verdict
<1>8. body[i].status = "CLEAN" /\ body[i].commit = c /\ (body[i].capped => body[i].owner)
  BY <1>7 DEF check
<1> HIDE DEF i
<1> QED BY <1>5, <1>6, <1>8 DEF Clean
-----------------------------------------------------------------------------
(* Types.                                                                   *)

LEMMA InitType == Init => TypeOK
<1> SUFFICES ASSUME Init PROVE TypeOK
  OBVIOUS
<1>1. pr \in Payload
  BY GateAssumption DEF Init, Payload
<1>2. events \in Seq(Payload)
  BY <1>1 DEF Init
<1>3. job \in [pc : {"idle", "judge", "poll", "passed", "failed"}, on : Payload, rerun : BOOLEAN] /\ job.pc = "idle"
  BY <1>1 DEF Init, Idle
<1>4. QED BY <1>1, <1>2, <1>3, GateAssumption DEF Init, TypeOK

\* A job starts on a payload.
LEMMA StartJobType ==
    ASSUME TypeOK, NEW p \in Payload, NEW r \in BOOLEAN, StartJob(p, r)
    PROVE  /\ job' \in [pc : {"idle", "judge", "poll", "passed", "failed"}, on : Payload, rerun : BOOLEAN]
           /\ job'.pc = "judge" /\ job'.on = p
           /\ gate' \in [Commits -> {"none", "pending", "success", "failure"}]
  BY DEF TypeOK, StartJob, Payload

\* A job posts its verdict and is over.
LEMMA PostType ==
    ASSUME TypeOK, NEW ok \in BOOLEAN, Post(ok)
    PROVE  /\ job' \in [pc : {"idle", "judge", "poll", "passed", "failed"}, on : Payload, rerun : BOOLEAN]
           /\ job'.pc = "idle" /\ job'.on = job.on
           /\ gate' \in [Commits -> {"none", "pending", "success", "failure"}]
  BY DEF TypeOK, Post, Payload

\* The payloads of the events that are left.
LEMMA TailType ==
    ASSUME TypeOK, events # <<>>
    PROVE  /\ Head(events) \in Payload
           /\ Head(events) = events[1] /\ 1 \in DOMAIN events
           /\ Tail(events) \in Seq(Payload)
           /\ \A i \in DOMAIN Tail(events) : i + 1 \in DOMAIN events /\ Tail(events)[i] = events[i + 1]
<1>1. events \in Seq(Payload)
  BY DEF TypeOK
<1>2. QED BY <1>1, HeadTailProperties

LEMMA ChangeType ==
    ASSUME TypeOK, NEW new \in Payload, Change(new)
    PROVE  TypeOK'
<1>1. events' \in Seq(Payload)
  BY DEF TypeOK, Change
<1>2. steps' \in [events : 0..MaxEvents, checks : 0..MaxChecks]
  BY GateAssumption DEF TypeOK, Change
<1>3. reviewed' \subseteq Commits /\ green' \subseteq Commits
  BY DEF TypeOK, Change, Payload
<1>4. QED BY <1>1, <1>2, <1>3 DEF TypeOK, Change

LEMMA CheckStepType ==
    ASSUME TypeOK, NEW c \in Commits, NEW x \in Contexts, CheckStep(c, x)
    PROVE  TypeOK'
<1>1. checks' \in [Commits -> [Contexts -> {"pending", "success", "failure"}]]
  BY DEF TypeOK, CheckStep
<1>2. steps' \in [events : 0..MaxEvents, checks : 0..MaxChecks]
  <2>1. steps \in [events : 0..MaxEvents, checks : 0..MaxChecks] /\ MaxChecks \in Nat
    BY GateAssumption DEF TypeOK
  <2>2. steps.checks < MaxChecks /\ steps' = [steps EXCEPT !.checks = @ + 1]
    BY DEF CheckStep
  <2>3. QED BY <2>1, <2>2
<1>3. (green \cup reviewed)' \subseteq Commits
  BY DEF TypeOK, CheckStep
<1>4. QED BY <1>1, <1>2, <1>3 DEF TypeOK, CheckStep

LEMMA JobStepType ==
    ASSUME TypeOK, JobStep
    PROVE  TypeOK'
<1>1. UNCHANGED Rest
  BY DEF JobStep, Judge, Poll, PostPoll
<1>2. /\ job' \in [pc : {"idle", "judge", "poll", "passed", "failed"}, on : Payload, rerun : BOOLEAN]
      /\ gate' \in [Commits -> {"none", "pending", "success", "failure"}]
      /\ job'.pc \in {"poll", "passed", "failed"} =>
           TrustedOpener /\ job'.on.base = "main" /\ job'.on.head \in BotCommits
  <2>1. CASE Judge
    <3>1. CASE BotCandidate(job.on) /\ job' = [job EXCEPT !.pc = "poll"] /\ UNCHANGED gate
      BY <3>1 DEF TypeOK, BotCandidate
    <3>2. CASE Post(check(job.on.body, job.on.head))
      <4>1. check(job.on.body, job.on.head) \in BOOLEAN
        BY DEF check
      <4>2. QED BY <3>2, <4>1, PostType
    <3>3. QED BY <2>1, <3>1, <3>2 DEF Judge
  <2>2. CASE Poll
    BY <2>2 DEF TypeOK, Poll
  <2>3. CASE PostPoll
    BY <2>3, PostType DEF PostPoll
  <2>4. QED BY <2>1, <2>2, <2>3 DEF JobStep
<1>3. QED BY <1>1, <1>2 DEF TypeOK, Rest

LEMMA NextType ==
    ASSUME TypeOK, [Next]_vars
    PROVE  TypeOK'
<1>1. ASSUME NEW c \in Commits, Push(c) PROVE TypeOK'
  <2>1. [pr EXCEPT !.head = c] \in Payload
    BY DEF TypeOK, Payload
  <2>2. QED BY <1>1, <2>1, ChangeType DEF Push
<1>2. ASSUME NEW b \in Bodies, EditBody(b) PROVE TypeOK'
  <2>1. [pr EXCEPT !.body = b] \in Payload
    BY DEF TypeOK, Payload
  <2>2. QED BY <1>2, <2>1, ChangeType DEF EditBody
<1>3. ASSUME NEW b \in {"main", "other"}, Retarget(b) PROVE TypeOK'
  <2>1. [pr EXCEPT !.base = b] \in Payload
    BY DEF TypeOK, Payload
  <2>2. QED BY <1>3, <2>1, ChangeType DEF Retarget
<1>4. ASSUME NEW c \in Commits, NEW x \in Contexts, CheckStep(c, x) PROVE TypeOK'
  BY <1>4, CheckStepType
<1>5. CASE Merge
  <2>1. merged' \in Commits \cup {0}
    BY <1>5 DEF TypeOK, Merge, Payload
  <2>2. QED BY <1>5, <2>1 DEF TypeOK, Merge
<1>6. CASE Deliver
  <2>1. Head(events) \in Payload /\ Tail(events) \in Seq(Payload)
    BY <1>6, TailType DEF Deliver
  <2>2. QED BY <1>6, <2>1, StartJobType DEF TypeOK, Deliver
<1>7. ASSUME NEW p \in past, Rerun(p) PROVE TypeOK'
  <2>1. p \in Payload
    BY DEF TypeOK
  <2>2. QED BY <1>7, <2>1, StartJobType DEF TypeOK, Rerun
<1>8. CASE JobStep
  BY <1>8, JobStepType
<1>9. CASE UNCHANGED vars
  BY <1>9 DEF TypeOK, vars
<1>10. QED BY <1>1, <1>2, <1>3, <1>4, <1>5, <1>6, <1>7, <1>8, <1>9 DEF Next

\* Every state has its types, and only the head of a trusted bot on the
\* default branch is judged by the other checks (evaluate_bot_path).
THEOREM TypeCorrect == Spec => []TypeOK
<1>1. Init => TypeOK
  BY InitType
<1>2. TypeOK /\ [Next]_vars => TypeOK'
  BY NextType
<1>3. QED BY <1>1, <1>2, PTL DEF Spec

-----------------------------------------------------------------------------
(* What is merged was vouched for.                                          *)

\* If payload p carries a clean verdict on its head, the head is in on.
Seen(p, on) == Clean(p.body, p.head) => p.head \in on

\* The strengthening: no payload that is still to be judged, or can be judged
\* again, carries a clean verdict that was not the PR's; a job that is about
\* to pass a bot's head read all its checks green; and every green gate is
\* vouched for.
Backed ==
    /\ Seen(pr, reviewed) /\ Seen(job.on, reviewed)
    /\ \A i \in DOMAIN events : Seen(events[i], reviewed)
    /\ \A p \in past : Seen(p, reviewed)
    /\ \A c \in Commits : Passes(checks[c]) => c \in green
    /\ job.pc = "passed" => job.on.head \in green
    /\ \A c \in Commits : gate[c] = "success" => Vouched(c)
    /\ MergedIsVouched

LEMMA InitBacked == Init => Backed
<1> SUFFICES ASSUME Init PROVE Backed
  OBVIOUS
<1>1. Seen(pr, reviewed) /\ job.on = pr /\ job.pc = "idle" /\ events = <<pr>>
  BY DEF Init, Seen, Idle
<1>2. \A i \in DOMAIN events : Seen(events[i], reviewed)
  BY <1>1
<1>3. \A c \in Commits : ~Passes(checks[c]) /\ gate[c] # "success"
  BY GateAssumption DEF Init, Passes
<1>4. QED BY <1>1, <1>2, <1>3 DEF Init, Backed, MergedIsVouched

LEMMA ChangeBacked ==
    ASSUME TypeOK, Backed, NEW new \in Payload, Change(new)
    PROVE  Backed'
<1>1. reviewed \subseteq reviewed'
  BY DEF Change
<1>2. ASSUME NEW p, Seen(p, reviewed) PROVE Seen(p, reviewed')
  BY <1>1, <1>2 DEF Seen
<1>3. Seen(new, reviewed')
  BY DEF Change, Seen
<1>4. \A i \in DOMAIN events' : Seen(events'[i], reviewed')
  <2>1. events \in Seq(Payload)
    BY DEF TypeOK
  <2>2. CASE events' = events
    BY <1>2, <2>2 DEF Backed
  <2>3. CASE events' = Append(events, new)
    <3>1. ASSUME NEW i \in DOMAIN events' PROVE Seen(events'[i], reviewed')
      <4>1. CASE i = Len(events) + 1
        <5>1. events'[i] = new
          BY <2>1, <2>3, <4>1, AppendProperties
        <5>2. QED BY <5>1, <1>3
      <4>2. CASE i # Len(events) + 1
        <5>1. i \in DOMAIN events /\ events'[i] = events[i]
          BY <2>1, <2>3, <4>2, AppendProperties
        <5>2. QED BY <5>1, <1>2 DEF Backed
      <4>3. QED BY <4>1, <4>2
    <3>2. QED BY <3>1
  <2>4. QED BY <2>2, <2>3 DEF Change
<1>5. \A c : Vouched(c) => Vouched(c)'
  BY <1>1 DEF Vouched, Change
<1>6. Seen(pr', reviewed') /\ Seen(job'.on, reviewed') /\ \A p \in past' : Seen(p, reviewed')
  BY <1>2, <1>3 DEF Backed, Change
<1>7. QED BY <1>4, <1>5, <1>6 DEF Backed, Change, MergedIsVouched, Passes

LEMMA CheckStepBacked ==
    ASSUME TypeOK, Backed, NEW c \in Commits, NEW x \in Contexts, CheckStep(c, x)
    PROVE  Backed'
<1>1. green \subseteq green'
  BY DEF CheckStep
<1>2. \A d \in Commits : Passes(checks'[d]) => d \in green'
  <2> SUFFICES ASSUME NEW d \in Commits, Passes(checks'[d]) PROVE d \in green'
    OBVIOUS
  <2>1. CASE d = c
    BY <2>1 DEF CheckStep, Passes
  <2>2. CASE d # c
    <3>1. checks'[d] = checks[d]
      BY <2>2 DEF CheckStep, TypeOK
    <3>2. QED BY <3>1, <1>1 DEF Backed
  <2>3. QED BY <2>1, <2>2
<1>3. \A d : Vouched(d) => Vouched(d)'
  BY <1>1 DEF Vouched, CheckStep
<1>4. \A p : Seen(p, reviewed) => Seen(p, reviewed')
  BY DEF Seen, CheckStep
<1>5. QED BY <1>1, <1>2, <1>3, <1>4 DEF Backed, CheckStep, MergedIsVouched, Passes

\* A job that starts leaves no gate green but those that were.
LEMMA StartJobBacked ==
    ASSUME TypeOK, Backed, NEW p \in Payload, Seen(p, reviewed),
           NEW r \in BOOLEAN, StartJob(p, r),
           UNCHANGED <<pr, checks, merged, green, reviewed>>,
           \A i \in DOMAIN events' : Seen(events'[i], reviewed),
           \A q \in past' : Seen(q, reviewed)
    PROVE  Backed'
<1>1. job'.pc = "judge" /\ job'.on = p
  BY StartJobType
<1>2. \A c \in Commits : gate'[c] = "success" => gate[c] = "success"
  BY DEF StartJob
<1>3. \A q : Seen(q, reviewed') <=> Seen(q, reviewed)
  BY DEF Seen
<1>4. \A c : Vouched(c)' <=> Vouched(c)
  BY DEF Vouched
<1>5. QED BY <1>1, <1>2, <1>3, <1>4 DEF Backed, MergedIsVouched, Passes

\* A job that passes its head may do so.
LEMMA PostBacked ==
    ASSUME TypeOK, Backed, NEW ok \in BOOLEAN, Post(ok), UNCHANGED Rest,
           ok => Vouched(job.on.head)
    PROVE  Backed'
<1>1. job'.pc = "idle" /\ job'.on = job.on
  BY PostType
<1>2. \A c \in Commits : gate'[c] = "success" => Vouched(c)
  BY DEF Post, TypeOK, Backed
<1>3. \A q : Seen(q, reviewed') <=> Seen(q, reviewed)
  BY DEF Seen, Rest
<1>4. \A c : Vouched(c)' <=> Vouched(c)
  BY DEF Vouched, Rest
<1>5. QED BY <1>1, <1>2, <1>3, <1>4 DEF Backed, MergedIsVouched, Passes, Rest

LEMMA JobStepBacked ==
    ASSUME TypeOK, Backed, JobStep
    PROVE  Backed'
<1>1. job.on \in Payload /\ job.on.body \in Bodies /\ job.on.head \in Commits
  BY DEF TypeOK, Payload
<1>2. ASSUME job'.on = job.on, job'.pc # "passed" \/ job.on.head \in green, UNCHANGED <<gate, Rest>>
      PROVE  Backed'
  <2>1. \A q : Seen(q, reviewed') <=> Seen(q, reviewed)
    BY <1>2 DEF Seen, Rest
  <2>2. \A c : Vouched(c)' <=> Vouched(c)
    BY <1>2 DEF Vouched, Rest
  <2>3. QED BY <1>2, <2>1, <2>2 DEF Backed, MergedIsVouched, Passes, Rest
<1>3. CASE Judge
  <2>1. CASE BotCandidate(job.on) /\ job' = [job EXCEPT !.pc = "poll"] /\ UNCHANGED gate
    <3>1. job'.on = job.on /\ job'.pc = "poll"
      BY <2>1 DEF TypeOK
    <3>2. QED BY <1>2, <1>3, <2>1, <3>1 DEF Judge
  <2>2. CASE Post(check(job.on.body, job.on.head))
    <3>1. check(job.on.body, job.on.head) \in BOOLEAN
      BY DEF check
    <3>2. check(job.on.body, job.on.head) => Vouched(job.on.head)
      <4>1. check(job.on.body, job.on.head) => Clean(job.on.body, job.on.head)
        BY <1>1, CheckIsClean
      <4>2. Seen(job.on, reviewed)
        BY DEF Backed
      <4>3. QED BY <4>1, <4>2 DEF Seen, Vouched
    <3>3. QED BY <1>3, <2>2, <3>1, <3>2, PostBacked DEF Judge
  <2>3. QED BY <1>3, <2>1, <2>2 DEF Judge
<1>4. CASE Poll
  <2>1. job'.on = job.on /\ (job'.pc = "passed" => Passes(checks[job.on.head]))
    BY <1>4 DEF Poll, TypeOK
  <2>2. job'.pc = "passed" => job.on.head \in green
    BY <1>1, <2>1 DEF Backed
  <2>3. QED BY <1>2, <1>4, <2>1, <2>2 DEF Poll
<1>5. CASE PostPoll
  <2>1. job.pc = "passed" => Vouched(job.on.head)
    BY DEF Backed, TypeOK, Vouched
  <2>2. QED BY <1>5, <2>1, PostBacked DEF PostPoll
<1>6. QED BY <1>3, <1>4, <1>5 DEF JobStep

LEMMA NextBacked ==
    ASSUME TypeOK, Backed, [Next]_vars
    PROVE  Backed'
<1>1. ASSUME NEW c \in Commits, Push(c) PROVE Backed'
  <2>1. [pr EXCEPT !.head = c] \in Payload
    BY DEF TypeOK, Payload
  <2>2. QED BY <1>1, <2>1, ChangeBacked DEF Push
<1>2. ASSUME NEW b \in Bodies, EditBody(b) PROVE Backed'
  <2>1. [pr EXCEPT !.body = b] \in Payload
    BY DEF TypeOK, Payload
  <2>2. QED BY <1>2, <2>1, ChangeBacked DEF EditBody
<1>3. ASSUME NEW b \in {"main", "other"}, Retarget(b) PROVE Backed'
  <2>1. [pr EXCEPT !.base = b] \in Payload
    BY DEF TypeOK, Payload
  <2>2. QED BY <1>3, <2>1, ChangeBacked DEF Retarget
<1>4. ASSUME NEW c \in Commits, NEW x \in Contexts, CheckStep(c, x) PROVE Backed'
  BY <1>4, CheckStepBacked
<1>5. CASE Merge
  <2>1. Vouched(merged')
    BY <1>5 DEF Merge, Backed, TypeOK, Payload
  <2>2. \A c : Vouched(c)' <=> Vouched(c)
    BY <1>5 DEF Merge, Vouched
  <2>3. \A q : Seen(q, reviewed') <=> Seen(q, reviewed)
    BY <1>5 DEF Merge, Seen
  <2>4. QED BY <1>5, <2>1, <2>2, <2>3 DEF Merge, Backed, MergedIsVouched, Passes
<1>6. CASE Deliver
  <2>1. events # <<>> /\ events' = Tail(events) /\ past' = past \cup {Head(events)}
    BY <1>6 DEF Deliver
  <2>2. Head(events) \in Payload /\ Seen(Head(events), reviewed)
    BY <2>1, TailType DEF Backed
  <2>3. \A i \in DOMAIN events' : Seen(events'[i], reviewed)
    BY <2>1, TailType DEF Backed
  <2>4. \A q \in past' : Seen(q, reviewed)
    BY <2>1, <2>2 DEF Backed
  <2>5. QED BY <1>6, <2>2, <2>3, <2>4, StartJobBacked DEF Deliver
<1>7. ASSUME NEW p \in past, Rerun(p) PROVE Backed'
  <2>1. p \in Payload /\ Seen(p, reviewed)
    BY DEF TypeOK, Backed
  <2>2. QED BY <1>7, <2>1, StartJobBacked DEF Rerun, Backed
<1>8. CASE JobStep
  BY <1>8, JobStepBacked
<1>9. CASE UNCHANGED vars
  <2>1. \A c : Vouched(c)' <=> Vouched(c)
    BY <1>9 DEF vars, Vouched
  <2>2. \A q : Seen(q, reviewed') <=> Seen(q, reviewed)
    BY <1>9 DEF vars, Seen
  <2>3. QED BY <1>9, <2>1, <2>2 DEF vars, Backed, MergedIsVouched, Passes
<1>10. QED BY <1>1, <1>2, <1>3, <1>4, <1>5, <1>6, <1>7, <1>8, <1>9 DEF Next

\* A head that is merged was the head under a clean verdict naming it, or was
\* made by the trusted bot that opened the PR and had every other required
\* check green at one time (check, evaluate_bot_path, and the triggers and the
\* cancellation of independent-review-pending.yml): also when jobs are run
\* again on outdated payloads.
THEOREM MergeIsVouchedFor == Spec => []MergedIsVouched
<1>1. Init => TypeOK /\ Backed
  BY InitType, InitBacked
<1>2. TypeOK /\ Backed /\ [Next]_vars => (TypeOK /\ Backed)'
  BY NextType, NextBacked
<1>3. Backed => MergedIsVouched
  BY DEF Backed
<1>4. QED BY <1>1, <1>2, <1>3, PTL DEF Spec

-----------------------------------------------------------------------------
(* The check follows the body.                                              *)

\* The last event, and then the job it starts, is about the PR as it is now.
LastWord ==
    /\ events # <<>> => events[Len(events)] = pr
    /\ events = <<>> /\ ~job.rerun => job.on = pr

Follows == LastWord /\ GateFollowsBody

LEMMA InitFollows == Init => Follows
<1> SUFFICES ASSUME Init PROVE Follows
  OBVIOUS
<1>1. events = <<pr>> /\ Len(events) = 1 /\ events[1] = pr
  BY DEF Init
<1>2. QED BY <1>1 DEF Follows, LastWord, GateFollowsBody

LEMMA ChangeFollows ==
    ASSUME TypeOK, NEW new \in Payload, Change(new)
    PROVE  Follows'
<1>1. events \in Seq(Payload) /\ events' = Append(events, new) /\ pr' = new
  BY DEF TypeOK, Change, Triggered
<1>2. events' # <<>> /\ events'[Len(events')] = new
  BY <1>1, AppendProperties
<1>3. QED BY <1>1, <1>2 DEF Follows, LastWord, GateFollowsBody

LEMMA DeliverFollows ==
    ASSUME TypeOK, Follows, Deliver
    PROVE  Follows'
<1>1. /\ events # <<>> /\ events' = Tail(events) /\ pr' = pr
      /\ events \in Seq(Payload) /\ Head(events) \in Payload
      /\ StartJob(Head(events), FALSE)
  BY TailType DEF Deliver, TypeOK
<1>2. job'.pc = "judge" /\ job'.on = Head(events)
  BY <1>1, StartJobType
<1>3. Len(events) \in Nat /\ Len(events) >= 1 /\ Head(events) = events[1]
  BY <1>1, LenProperties, HeadTailProperties, EmptySeq
<1>4. /\ Tail(events) \in Seq(Payload) /\ Len(Tail(events)) = Len(events) - 1
      /\ \A i \in 1..Len(Tail(events)) : Tail(events)[i] = events[i + 1]
  BY <1>1, HeadTailProperties
<1>5. events[Len(events)] = pr
  BY <1>1 DEF Follows, LastWord
<1>6. CASE Len(events) = 1
  <2>1. Head(events) = pr
    BY <1>3, <1>5, <1>6
  <2>2. events' = <<>>
    BY <1>1, <1>4, <1>6, EmptySeq
  <2>3. QED BY <1>1, <1>2, <2>1, <2>2 DEF Follows, LastWord, GateFollowsBody
<1>7. CASE Len(events) # 1
  <2>1. Len(Tail(events)) \in 1..Len(Tail(events)) /\ Len(Tail(events)) + 1 = Len(events)
    BY <1>3, <1>4, <1>7
  <2>2. events'[Len(events')] = pr
    BY <1>1, <1>4, <1>5, <2>1
  <2>3. events' # <<>>
    BY <1>1, <1>3, <1>4, <1>7, EmptySeq
  <2>4. QED BY <1>1, <1>2, <2>2, <2>3 DEF Follows, LastWord, GateFollowsBody
<1>8. QED BY <1>6, <1>7

\* A verdict posted on the PR as it is now is the one its body or its checks
\* call for.
LEMMA JobStepFollows ==
    ASSUME TypeOK, Backed, Follows, JobStep
    PROVE  Follows'
<1>1. /\ job.on \in Payload /\ job.on.body \in Bodies /\ job.on.head \in Commits
      /\ pr' = pr /\ events' = events /\ green' = green
  BY DEF TypeOK, Payload, JobStep, Judge, Poll, PostPoll, Rest
<1>2. job'.on = job.on /\ job'.rerun = job.rerun
  BY DEF TypeOK, JobStep, Judge, Poll, PostPoll, Post
<1>3. LastWord'
  BY <1>1, <1>2 DEF Follows, LastWord
<1>4. CASE job'.pc # "idle"
  BY <1>3, <1>4 DEF Follows, GateFollowsBody
<1>5. CASE job'.pc = "idle"
  <2>1. PICK ok \in BOOLEAN :
          /\ Post(ok)
          /\ ok => \/ Clean(job.on.body, job.on.head)
                   \/ TrustedOpener /\ job.on.head \in BotCommits /\ job.on.head \in green
    <3>1. CASE Judge
      <4>1. Post(check(job.on.body, job.on.head))
        BY <1>5, <3>1 DEF Judge, TypeOK
      <4>2. check(job.on.body, job.on.head) \in BOOLEAN
        BY DEF check
      <4>3. check(job.on.body, job.on.head) => Clean(job.on.body, job.on.head)
        BY <1>1, CheckIsClean
      <4>4. QED BY <4>1, <4>2, <4>3
    <3>2. CASE Poll
      BY <1>5, <3>2 DEF Poll, TypeOK
    <3>3. CASE PostPoll
      BY <3>3 DEF PostPoll, TypeOK, Backed
    <3>4. QED BY <3>1, <3>2, <3>3 DEF JobStep
  <2>2. ASSUME events' = <<>>, ~job'.rerun, gate'[pr'.head] = "success"
        PROVE  \/ Clean(pr.body, pr.head)
               \/ TrustedOpener /\ pr.head \in BotCommits /\ pr.head \in green
    <3>1. job.on = pr
      BY <1>1, <1>2, <2>2 DEF Follows, LastWord
    <3>2. gate'[pr.head] = IF ok THEN "success" ELSE "failure"
      BY <1>1, <2>1, <3>1 DEF Post, TypeOK
    <3>3. ok
      BY <1>1, <2>2, <3>2
    <3>4. QED BY <2>1, <3>1, <3>3
  <2>3. GateFollowsBody'
    BY <1>1, <2>2 DEF GateFollowsBody, Clean
  <2>4. QED BY <1>3, <2>3 DEF Follows
<1>6. QED BY <1>4, <1>5

LEMMA NextFollows ==
    ASSUME TypeOK, Backed, Follows, [Next]_vars
    PROVE  Follows'
<1>1. ASSUME NEW c \in Commits, Push(c) PROVE Follows'
  <2>1. [pr EXCEPT !.head = c] \in Payload
    BY DEF TypeOK, Payload
  <2>2. QED BY <1>1, <2>1, ChangeFollows DEF Push
<1>2. ASSUME NEW b \in Bodies, EditBody(b) PROVE Follows'
  <2>1. [pr EXCEPT !.body = b] \in Payload
    BY DEF TypeOK, Payload
  <2>2. QED BY <1>2, <2>1, ChangeFollows DEF EditBody
<1>3. ASSUME NEW b \in {"main", "other"}, Retarget(b) PROVE Follows'
  <2>1. [pr EXCEPT !.base = b] \in Payload
    BY DEF TypeOK, Payload
  <2>2. QED BY <1>3, <2>1, ChangeFollows DEF Retarget
<1>4. ASSUME NEW c \in Commits, NEW x \in Contexts, CheckStep(c, x) PROVE Follows'
  BY <1>4 DEF CheckStep, Follows, LastWord, GateFollowsBody
<1>5. CASE Merge
  BY <1>5 DEF Merge, Follows, LastWord, GateFollowsBody
<1>6. CASE Deliver
  BY <1>6, DeliverFollows
<1>7. ASSUME NEW p \in past, Rerun(p) PROVE Follows'
  <2>1. job'.rerun = TRUE /\ events' = events /\ pr' = pr
    BY <1>7 DEF Rerun, StartJob
  <2>2. QED BY <2>1 DEF Follows, LastWord, GateFollowsBody
<1>8. CASE JobStep
  BY <1>8, JobStepFollows
<1>9. CASE UNCHANGED vars
  BY <1>9 DEF vars, Follows, LastWord, GateFollowsBody
<1>10. QED BY <1>1, <1>2, <1>3, <1>4, <1>5, <1>6, <1>7, <1>8, <1>9 DEF Next

\* Once the last event's job has ended and nobody ran an older job again, the
\* check on the head is green only under the body as it is now, or for a
\* bot's own head: whichever jobs were cancelled on the way (concurrency and
\* triggers of independent-review-pending.yml, main).
THEOREM CheckFollowsBody == Spec => []GateFollowsBody
<1>1. Init => TypeOK /\ Backed /\ Follows
  BY InitType, InitBacked, InitFollows
<1>2. TypeOK /\ Backed /\ Follows /\ [Next]_vars => (TypeOK /\ Backed /\ Follows)'
  BY NextType, NextBacked, NextFollows
<1>3. Follows => GateFollowsBody
  BY DEF Follows
<1>4. QED BY <1>1, <1>2, <1>3, PTL DEF Spec
=============================================================================
