------------------------- MODULE BotMergeGateProofs -------------------------
(***************************************************************************)
(* Proofs about BotMergeGate for any checks, time-outs and durations of a   *)
(* GET: what the job may pass on, when it may give up, and how long its     *)
(* poll takes at most.                                                      *)
(***************************************************************************)
EXTENDS BotMergeGate, SequenceTheorems, TLAPS

Polling == {"fetch", "decide"}

\* Who is asked how far the job has come.
Trusted ==
    /\ pc \in {"rules", "emails", "identity"} \cup Polling => facts.defaultBase
    /\ pc \in {"identity"} \cup Polling => facts.trustedOpener
    /\ pc \in Polling => facts.botCommit /\ Others # {}

\* The poll's clock.
Timely ==
    /\ pc \in {"bots", "rules", "emails", "identity"} => deadline = 0
    /\ pc = "fetch" => clock <= deadline
    /\ pc = "decide" => readAt = clock
    /\ PollBounded

\* The job has a result exactly when it is done.
Ended == result # "none" <=> pc = "done"

IInv ==
    /\ TypeOK
    /\ facts \in [defaultBase : BOOLEAN, trustedOpener : BOOLEAN, botCommit : BOOLEAN]
    /\ Trusted
    /\ Timely
    /\ Ended
    /\ TimeoutIsEarned
    /\ PassOnLatest

-----------------------------------------------------------------------------
LEMMA LongestGetIs == LongestGet \in Nat
<1>1. LongestGet = 3 * SocketTimeout + 15 BY BotGateAssumption DEF LongestGet, LongestCall
<1> QED BY <1>1, BotGateAssumption

\* When a check run always carries started_at, the latest run is the newest.
LEMMA LatestIsNewest ==
    ASSUME QueuedHasStart, NEW rs \in Seq(Statuses), rs # <<>>
    PROVE  _latest(rs) = Len(rs)
<1>1. Len(rs) \in Nat /\ Len(rs) > 0 /\ DOMAIN rs = 1..Len(rs) OBVIOUS
<1>2. \A i \in DOMAIN rs : StartedAt(rs, i) = i BY DEF StartedAt
<1> DEFINE Greatest(i) == \A j \in DOMAIN rs :
               \/ StartedAt(rs, j) < StartedAt(rs, i)
               \/ StartedAt(rs, j) = StartedAt(rs, i) /\ j <= i
<1>3. Len(rs) \in DOMAIN rs /\ Greatest(Len(rs)) BY <1>1, <1>2
<1>4. ASSUME NEW i \in DOMAIN rs, Greatest(i) PROVE i = Len(rs)
  <2>1. StartedAt(rs, i) = i /\ StartedAt(rs, Len(rs)) = Len(rs) BY <1>2, <1>3
  <2>2. Len(rs) <= i BY <1>1, <1>3, <1>4, <2>1
  <2> QED BY <1>1, <2>2
<1>5. _latest(rs) = CHOOSE i \in DOMAIN rs : Greatest(i) BY DEF _latest
<1> HIDE DEF Greatest
<1> QED BY <1>3, <1>4, <1>5

\* What Latest says of a context, in terms of its newest run.
LEMMA LatestIs ==
    ASSUME QueuedHasStart, TypeOK, NEW c \in Contexts
    PROVE  Latest(c) = IF snap[c] = <<>> THEN "queued" ELSE Newest(snap[c])
<1>1. snap[c] \in Seq(Statuses) BY DEF TypeOK
<1> QED BY <1>1, LatestIsNewest DEF Latest, Newest

\* The checks the job waits for are those other than its own.
LEMMA OthersAre == required_check_contexts = Others
BY DEF required_check_contexts, Others

-----------------------------------------------------------------------------
(* The steps.                                                               *)

LEMMA CIKeeps ==
    ASSUME IInv, NEW c \in Contexts, Queue(c) \/ Advance(c)
    PROVE  IInv'
<1>1. UNCHANGED <<clock, pc, facts, required, snap, lastError, readAt, deadline, result>>
  BY DEF Queue, Advance, CI
<1>2. runs' \in [Contexts -> Seq(Statuses)]
  <2>1. runs \in [Contexts -> Seq(Statuses)] BY DEF IInv, TypeOK
  <2>2. CASE Queue(c)
    <3>1. Append(runs[c], "queued") \in Seq(Statuses) BY <2>1 DEF Statuses
    <3> QED BY <2>1, <2>2, <3>1 DEF Queue, CI
  <2>3. CASE Advance(c)
    <3>1. PICK status \in {"in_progress"} \cup Completed :
            runs' = [runs EXCEPT ![c] = [runs[c] EXCEPT ![Len(runs[c])] = status]]
      BY <2>3 DEF Advance, CI
    <3>2. [runs[c] EXCEPT ![Len(runs[c])] = status] \in Seq(Statuses)
      <4>1. runs[c] \in Seq(Statuses) /\ status \in Statuses BY <2>1 DEF Statuses, Completed, Passing
      <4>2. runs[c] # <<>> BY <2>3 DEF Advance
      <4>3. Len(runs[c]) \in 1..Len(runs[c]) BY <4>1, <4>2
      <4> QED BY <4>1, <4>3, ExceptSeq
    <3> QED BY <2>1, <3>1, <3>2
  <2> QED BY <2>2, <2>3
<1>3. TypeOK' BY <1>1, <1>2 DEF IInv, TypeOK
<1>4. (Trusted /\ Timely /\ Ended)'
  BY <1>1 DEF IInv, Trusted, Others, Timely, PollBounded, Ended
<1>5. (TimeoutIsEarned /\ PassOnLatest)'
  BY <1>1 DEF IInv, TimeoutIsEarned, PassOnLatest, Others
<1> QED BY <1>1, <1>3, <1>4, <1>5 DEF IInv

\* A step that ends the job with a result that claims nothing.
LEMMA FinishKeeps ==
    ASSUME IInv, pc # "done", pc' = "done", result' \in {"human", "fail", "killed"},
           UNCHANGED <<clock, facts, required, runs, snap, lastError, readAt, deadline>>
    PROVE  IInv'
<1>1. TypeOK' BY DEF IInv, TypeOK
<1>2. (Trusted /\ Timely /\ Ended)' BY DEF IInv, Trusted, Timely, PollBounded, Ended, Polling
<1>3. (TimeoutIsEarned /\ PassOnLatest)' BY DEF TimeoutIsEarned, PassOnLatest
<1> QED BY <1>1, <1>2, <1>3 DEF IInv

LEMMA PrepareKeeps ==
    ASSUME IInv, \/ Prepare("bots", facts.defaultBase, "rules")
                 \/ Prepare("rules", TRUE, "emails")
                 \/ Prepare("emails", facts.trustedOpener, "identity")
    PROVE  IInv'
<1>1. UNCHANGED <<facts, required, runs, snap, lastError, readAt, deadline>>
  BY DEF Prepare
<1>2. pc \in {"bots", "rules", "emails"} BY DEF Prepare
<1>3. clock \in Nat /\ clock' \in Nat
  BY BotGateAssumption, LongestGetIs DEF IInv, TypeOK, Prepare, Get
<1>4. deadline = 0 /\ deadline' = 0 /\ result = "none"
  BY <1>1, <1>2 DEF IInv, Timely, Ended
<1>5. \/ pc' = "done" /\ result' = "human"
      \/ /\ result' = result
         /\ \/ pc = "bots" /\ pc' = "rules" /\ facts.defaultBase
            \/ pc = "rules" /\ pc' = "emails"
            \/ pc = "emails" /\ pc' = "identity" /\ facts.trustedOpener
  BY DEF Prepare, Finish
<1>6. TypeOK' BY <1>1, <1>3, <1>5 DEF IInv, TypeOK
<1>7. Trusted' BY <1>1, <1>5 DEF IInv, Trusted, Polling, Others
<1>8. (Timely /\ Ended)' BY <1>4, <1>5 DEF Timely, PollBounded, Ended
<1>9. (TimeoutIsEarned /\ PassOnLatest)' BY <1>4, <1>5 DEF TimeoutIsEarned, PassOnLatest
<1> QED BY <1>1, <1>6, <1>7, <1>8, <1>9 DEF IInv

LEMMA StartPollKeeps == ASSUME IInv, StartPoll PROVE IInv'
<1>1. UNCHANGED <<clock, facts, required, runs, snap, lastError, readAt>> /\ pc = "identity"
  BY DEF StartPoll
<1>2. CASE ~HeadIsBots \/ required_check_contexts = {}
  BY <1>1, <1>2, FinishKeeps DEF StartPoll, Finish
<1>3. CASE HeadIsBots /\ required_check_contexts # {}
  <2>1. pc' = "fetch" /\ deadline' = clock + PollTimeout /\ result' = result
    BY <1>3 DEF StartPoll
  <2>2. clock \in Nat /\ PollTimeout \in Nat BY BotGateAssumption DEF IInv, TypeOK
  <2>3. facts.botCommit /\ Others # {} /\ facts.defaultBase /\ facts.trustedOpener
    BY <1>1, <1>3, OthersAre DEF HeadIsBots, IInv, Trusted
  <2>4. TypeOK' BY <1>1, <2>1, <2>2, <2>3 DEF IInv, TypeOK
  <2>5. Trusted' BY <1>1, <2>1, <2>3 DEF Trusted, Others
  <2>6. (Timely /\ Ended)'
    BY <1>1, <2>1, <2>2, LongestGetIs DEF IInv, Timely, PollBounded, Ended
  <2>7. result' = "none" BY <1>1, <2>1 DEF IInv, Ended
  <2>8. (TimeoutIsEarned /\ PassOnLatest)' BY <2>7 DEF TimeoutIsEarned, PassOnLatest
  <2> QED BY <1>1, <2>4, <2>5, <2>6, <2>8 DEF IInv
<1> QED BY <1>2, <1>3

LEMMA FetchKeeps == ASSUME IInv, Fetch PROVE IInv'
<1>1. /\ UNCHANGED <<facts, required, runs, deadline, result>> /\ pc = "fetch" /\ pc' = "decide"
      /\ readAt' = clock'
  BY DEF Fetch
<1>2. PICK s \in FetchSeconds : clock' = clock + s BY DEF Fetch, Get
<1>3. clock \in Nat /\ deadline \in Nat /\ clock <= deadline /\ s \in 0..LongestGet
  BY <1>1, BotGateAssumption DEF IInv, TypeOK, Timely
<1>4. clock' \in Nat /\ clock' <= deadline + LongestGet BY <1>2, <1>3, LongestGetIs
<1>5. snap' \in {snap, runs} /\ lastError' \in BOOLEAN BY DEF Fetch, Get
<1>6. TypeOK' BY <1>1, <1>4, <1>5 DEF IInv, TypeOK, Trusted, Polling
<1>7. Trusted' BY <1>1 DEF IInv, Trusted, Polling, Others
<1>8. (Timely /\ Ended)' BY <1>1, <1>4 DEF IInv, Timely, PollBounded, Ended
<1>9. result' = "none" BY <1>1 DEF IInv, Ended
<1>10. (TimeoutIsEarned /\ PassOnLatest)' BY <1>9 DEF TimeoutIsEarned, PassOnLatest
<1> QED BY <1>1, <1>6, <1>7, <1>8, <1>10 DEF IInv

LEMMA DecideKeeps == ASSUME QueuedHasStart, IInv, Decide PROVE IInv'
<1>1. UNCHANGED <<facts, required, runs, snap, lastError, readAt, deadline>> /\ pc = "decide"
  BY DEF Decide
<1>2. /\ clock \in Nat /\ deadline \in Nat /\ readAt = clock /\ result = "none"
      /\ deadline > 0 => clock <= deadline + LongestGet
      /\ facts.defaultBase /\ facts.trustedOpener /\ facts.botCommit /\ Others # {}
  BY <1>1 DEF IInv, TypeOK, Timely, PollBounded, Ended, Trusted, Polling
<1>3. Others \subseteq Contexts BY DEF IInv, TypeOK, Others
<1>4. \A c \in Others : Latest(c) = IF snap[c] = <<>> THEN "queued" ELSE Newest(snap[c])
  BY <1>3, LatestIs DEF IInv
<1>5. CASE ~lastError /\ Bad # {}
  BY <1>1, <1>5, FinishKeeps DEF Decide, Finish
<1>6. CASE ~lastError /\ Bad = {} /\ Unresolved = {}
  <2>1. pc' = "done" /\ result' = "pass" /\ clock' = clock BY <1>6 DEF Decide, Finish
  <2>2. ASSUME NEW c \in Others PROVE snap[c] # <<>> /\ Newest(snap[c]) \in Passing
    <3>1. Latest(c) \in Completed /\ Latest(c) \in Passing
      BY <1>6, <2>2, OthersAre DEF Unresolved, Bad
    <3>2. Latest(c) # "queued" BY <3>1 DEF Passing
    <3> QED BY <1>4, <3>1, <3>2
  <2>3. PassOnLatest' BY <1>1, <1>2, <2>2 DEF PassOnLatest, Others
  <2>4. TimeoutIsEarned' BY <2>1 DEF TimeoutIsEarned
  <2>5. TypeOK' BY <1>1, <2>1 DEF IInv, TypeOK
  <2>6. (Trusted /\ Timely /\ Ended)'
    BY <1>1, <2>1 DEF IInv, Trusted, Timely, PollBounded, Ended, Polling
  <2> QED BY <1>1, <2>3, <2>4, <2>5, <2>6 DEF IInv
<1>7. CASE (lastError \/ (Bad = {} /\ Unresolved # {})) /\ Over
  <2>1. pc' = "done" /\ result' = "timeout" /\ clock' = clock BY <1>7 DEF Decide, Finish
  <2>2. readAt >= deadline BY <1>2, <1>7 DEF Over
  <2>3. lastError \/ \E c \in Others : snap[c] = <<>> \/ Newest(snap[c]) \notin Completed
    <3>1. CASE lastError BY <3>1
    <3>2. CASE Unresolved # {}
      <4>1. PICK c \in Others : Latest(c) \notin Completed BY <3>2, OthersAre DEF Unresolved
      <4> QED BY <1>4, <4>1
    <3> QED BY <1>7, <3>1, <3>2
  <2>4. TimeoutIsEarned' BY <1>1, <2>2, <2>3 DEF TimeoutIsEarned, Others
  <2>5. PassOnLatest' BY <2>1 DEF PassOnLatest
  <2>6. TypeOK' BY <1>1, <2>1 DEF IInv, TypeOK
  <2>7. (Trusted /\ Timely /\ Ended)'
    BY <1>1, <2>1 DEF IInv, Trusted, Timely, PollBounded, Ended, Polling
  <2> QED BY <1>1, <2>4, <2>5, <2>6, <2>7 DEF IInv
<1>8. CASE (lastError \/ (Bad = {} /\ Unresolved # {})) /\ ~Over
  <2>1. pc' = "fetch" /\ result' = result /\ clock' = clock + Nap BY <1>8 DEF Decide
  <2>2. PollInterval \in Nat /\ clock < deadline BY <1>2, <1>8, BotGateAssumption DEF Over
  <2>3. Nap \in Nat /\ clock + Nap <= deadline BY <1>2, <2>2 DEF Nap, Shorter
  <2>4. TypeOK' BY <1>1, <1>2, <2>1, <2>3 DEF IInv, TypeOK
  <2>5. Trusted' BY <1>1, <1>2, <2>1 DEF Trusted, Others
  <2>6. (Timely /\ Ended)'
    BY <1>1, <1>2, <2>1, <2>3, LongestGetIs DEF Timely, PollBounded, Ended
  <2>7. (TimeoutIsEarned /\ PassOnLatest)' BY <1>2, <2>1 DEF TimeoutIsEarned, PassOnLatest
  <2> QED BY <1>1, <2>4, <2>5, <2>6, <2>7 DEF IInv
<1> QED BY <1>5, <1>6, <1>7, <1>8

-----------------------------------------------------------------------------
LEMMA Inductive == QueuedHasStart => (Spec => []IInv)
<1> SUFFICES ASSUME QueuedHasStart PROVE Spec => []IInv OBVIOUS
<1>1. Init => IInv
  <2> SUFFICES ASSUME Init PROVE IInv OBVIOUS
  <2>1. NoRuns \in [Contexts -> Seq(Statuses)]
    <3>1. <<>> \in Seq(Statuses) OBVIOUS
    <3> QED BY <3>1 DEF NoRuns
  <2>2. required \subseteq Contexts BY BotGateAssumption DEF Init
  <2>3. TypeOK BY <2>1, <2>2 DEF Init, TypeOK
  <2>4. Trusted /\ Timely /\ Ended BY DEF Init, Trusted, Timely, PollBounded, Ended, Polling
  <2>5. TimeoutIsEarned /\ PassOnLatest BY DEF Init, TimeoutIsEarned, PassOnLatest
  <2> QED BY <2>3, <2>4, <2>5 DEF Init, IInv
<1>2. IInv /\ [Next]_vars => IInv'
  <2> SUFFICES ASSUME IInv, [Next]_vars PROVE IInv' OBVIOUS
  <2>1. ASSUME NEW c \in Contexts, Queue(c) \/ Advance(c) PROVE IInv' BY <2>1, CIKeeps
  <2>2. CASE StartPoll \/ Fetch \/ Decide
    BY <2>2, StartPollKeeps, FetchKeeps, DecideKeeps
  <2>3. CASE Kill BY <2>3, FinishKeeps DEF Kill, Finish
  <2>4. CASE UNCHANGED vars
    <3>1. TypeOK' BY <2>4 DEF IInv, TypeOK, vars
    <3>2. (Trusted /\ Timely /\ Ended)'
      BY <2>4 DEF IInv, Trusted, Others, Timely, PollBounded, Ended, vars
    <3>3. (TimeoutIsEarned /\ PassOnLatest)'
      BY <2>4 DEF IInv, TimeoutIsEarned, PassOnLatest, Others, vars
    <3> QED BY <2>4, <3>1, <3>2, <3>3 DEF IInv, vars
  <2> QED BY <2>1, <2>2, <2>3, <2>4, PrepareKeeps DEF Next, JobStep
<1> QED BY <1>1, <1>2, PTL DEF Spec

\* Types, and only a trusted bot's own head is polled for (evaluate_bot_path).
THEOREM TypeCorrect == QueuedHasStart => (Spec => []TypeOK)
<1>1. IInv => TypeOK BY DEF IInv
<1> QED BY <1>1, Inductive, PTL

\* If a check run always carries started_at, the job passes only on one read
\* in which the newest run of every other required check had completed well,
\* for any checks and however CI runs them again (poll_bot_required_checks).
THEOREM PassIsEarned == QueuedHasStart => (Spec => []PassOnLatest)
<1>1. IInv => PassOnLatest BY DEF IInv
<1> QED BY <1>1, Inductive, PTL

\* It gives up only on a read made at or after the deadline that left
\* something open.
THEOREM GivesUpInTime == QueuedHasStart => (Spec => []TimeoutIsEarned)
<1>1. IInv => TimeoutIsEarned BY DEF IInv
<1> QED BY <1>1, Inductive, PTL

\* And its poll overruns the deadline by one GET at most, whatever the
\* time-outs are.
THEOREM PollEndsInTime == QueuedHasStart => (Spec => []PollBounded)
<1>1. IInv => PollBounded BY DEF IInv, Timely
<1> QED BY <1>1, Inductive, PTL
=============================================================================
