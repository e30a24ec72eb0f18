-------------------------- MODULE RetroStubProofs --------------------------
(***************************************************************************)
(* Proofs about RetroStub for any number of issues, runs, re-runs, faults   *)
(* and reopenings: an issue is told of its closing once, is never closed    *)
(* untold unless a person reopened it, and an opener whose searches miss    *)
(* nothing opens one retrospective.                                         *)
(***************************************************************************)
EXTENDS RetroStub, FiniteSetTheorems, WellFoundedInduction, TLAPS

Sweep == [pc : {"idle", "next", "look", "comment", "patch"}, todo : SUBSET Issues,
          cur : Issues \cup {0}]

\* A comment is on record as told, or its issue was reopened since.
TellsOrReopened == \A i \in Issues : comments[i] > 0 => i \in told \cup reopened

\* The sweep is about to comment only on an issue without its comment.
CommentsOnce == sweep.pc = "comment" => comments[sweep.cur] = 0

\* An opener that is about to create has seen that it never opened one.
SearchedFirst == opener = "create" /\ ~lagged => opened = {}

IInv ==
    /\ TypeOK
    /\ TellsOrReopened
    /\ CommentsOnce
    /\ SearchedFirst
    /\ ToldOnce
    /\ EveryCloseTold
    /\ OneRetrospective

-----------------------------------------------------------------------------
(* What the answer of a call says about its request, for any number of      *)
(* attempts (GithubHttp).                                                   *)

\* A call ends on one of its attempts: the first final one, if there is one.
LEMMA FinalAttemptIs ==
    ASSUME NEW n \in Nat \ {0}, NEW rs \in [1..n -> Attempt]
    PROVE  FinalAttempt(rs) \in 1..n
<1> DEFINE Ends(i) == /\ Final(rs[i]) \/ i + 1 \notin DOMAIN rs
                      /\ \A j \in 1..(i - 1) : ~Final(rs[j])
           final   == {i \in 1..n : Final(rs[i])}
<1>1. DOMAIN rs = 1..n OBVIOUS
<1>2. \E i \in 1..n : Ends(i)
  <2>1. CASE final = {}
    <3>1. n \in 1..n /\ n + 1 \notin 1..n OBVIOUS
    <3>2. \A j \in 1..(n - 1) : ~Final(rs[j]) BY <2>1
    <3>3. Ends(n) BY <1>1, <3>1, <3>2
    <3> QED BY <3>1, <3>3
  <2>2. CASE final # {}
    <3>1. final \subseteq Nat OBVIOUS
    <3>2. PICK i \in final : \A j \in final : ~(<<j, i>> \in OpToRel(<, Nat))
      BY <2>2, <3>1, NatLessThanWellFounded, WFMin
    <3>3. \A j \in final : ~(j < i) BY <3>1, <3>2 DEF OpToRel
    <3>4. \A j \in 1..(i - 1) : ~Final(rs[j]) BY <3>3
    <3>5. i \in 1..n /\ Ends(i) BY <3>4
    <3> QED BY <3>5
  <2> QED BY <2>1, <2>2
<1>3. FinalAttempt(rs) = CHOOSE i \in DOMAIN rs : Ends(i) BY DEF FinalAttempt
<1> HIDE DEF Ends
<1> QED BY <1>1, <1>2, <1>3

\* A request that is answered 2xx was carried out, and at most once per
\* attempt; one that is refused was not by its last attempt
\* (request_with_retry): so a refused call of one attempt changed nothing.
THEOREM AnswerMeans ==
    ASSUME NEW n \in Nat \ {0}, NEW o \in Outcomes(n)
    PROVE  /\ o.code \in {"ok", "client", "transient"}
           /\ o.applied \in 0..n
           /\ o.code = "ok" => o.applied > 0
           /\ o.code = "client" => o.applied < n
<1>1. PICK rs \in [1..n -> Attempt] : o = request_with_retry(rs)
  BY DEF Outcomes
<1> DEFINE k == FinalAttempt(rs)
           done == {i \in 1..k : rs[i].applied}
<1>2. k \in 1..n BY FinalAttemptIs
<1>3. o.code = rs[k].code /\ o.applied = Cardinality(done)
  BY <1>1 DEF request_with_retry
<1> HIDE DEF k
<1>4. IsFiniteSet(1..k) /\ Cardinality(1..k) = k BY <1>2, FS_Interval
<1>5. IsFiniteSet(done) /\ Cardinality(done) \in Nat /\ Cardinality(done) <= k
  BY <1>4, FS_Subset, FS_CardinalityType
<1>6. rs[k] \in Attempt BY <1>2
<1>7. rs[k].code = "ok" => Cardinality(done) > 0
  <2> SUFFICES ASSUME rs[k].code = "ok" PROVE Cardinality(done) > 0 OBVIOUS
  <2>1. k \in done BY <1>2, <1>6 DEF Attempt
  <2>2. Cardinality(done) # 0 BY <1>5, <2>1, FS_EmptySet
  <2> QED BY <1>5, <2>2
<1>8. rs[k].code = "client" => Cardinality(done) < n
  <2> SUFFICES ASSUME rs[k].code = "client" PROVE Cardinality(done) < n OBVIOUS
  <2>1. k \notin done /\ k \in 1..k BY <1>2, <1>6 DEF Attempt
  <2>2. Cardinality(done) # k BY <1>4, <2>1, FS_Subset
  <2> QED BY <1>2, <1>5, <2>2
<1> QED BY <1>2, <1>3, <1>5, <1>6, <1>7, <1>8 DEF Attempt

-----------------------------------------------------------------------------
(* Issues, calls and creations.                                             *)

\* Issues are numbered from 1: 0 names none of them.
LEMMA IssuesAre == IsFiniteSet(Issues) /\ 0 \notin Issues
<1>1. \A n \in Nat : 0 \notin 1..n OBVIOUS
<1>2. Cardinality(Issues) \in Nat BY RetroAssumption, FS_CardinalityType
<1>3. 0 \notin 1..Cardinality(Issues) BY <1>1, <1>2
<1> QED BY <1>3, RetroAssumption

\* What a call can come to, whether GitHub refuses the issue or not.
LEMMA CallIs ==
    ASSUME NEW max \in Nat \ {0}, NEW i, NEW o \in Calls(max, i)
    PROVE  /\ o.code \in {"ok", "client", "transient"}
           /\ o.applied \in 0..max
           /\ o.code = "ok" => o.applied > 0
<1>1. CASE i \in Poisoned
  <2>1. o = [code |-> "client", applied |-> 0] BY <1>1 DEF Calls
  <2> QED BY <2>1
<1>2. CASE i \notin Poisoned
  <2>1. o \in Outcomes(max) BY <1>2 DEF Calls
  <2> QED BY <2>1, AnswerMeans
<1> QED BY <1>1, <1>2

\* A creation makes new issues out of issues that were not there, and touches
\* no other.
LEMMA CreateMakes ==
    ASSUME TypeOK, NEW n \in Nat, NEW text \in {"stub", "real"}, Create(n, text)
    PROVE  \E new \in SUBSET (Issues \ Created) :
             /\ Cardinality(new) = n
             /\ \A i \in Issues : state'[i] = IF i \in new THEN "open" ELSE state[i]
             /\ state' \in [Issues -> {"none", "open", "closed"}]
             /\ body' \in [Issues -> {"stub", "real"}]
             /\ UNCHANGED <<stale, comments, indexed>>
<1> DEFINE new == {i \in Issues \ Created : Cardinality({j \in Issues \ Created : j < i}) < n}
<1>1. /\ Cardinality(new) = n
      /\ state' = [i \in Issues |-> IF i \in new THEN "open" ELSE state[i]]
      /\ body' = [i \in Issues |-> IF i \in new THEN text ELSE body[i]]
      /\ UNCHANGED <<stale, comments, indexed>>
  BY DEF Create
<1>2. new \subseteq Issues \ Created OBVIOUS
<1> HIDE DEF new
<1> QED BY <1>1, <1>2 DEF TypeOK

\* Issues are never uncreated.
LEMMA CreatedGrows ==
    ASSUME TypeOK, \A i \in Issues : state[i] # "none" => state'[i] # "none"
    PROVE  Created \subseteq Created'
BY DEF Created

\* A step that leaves alone what the sweep and the opener did keeps the rest
\* of the invariant, if it keeps the types and forgets no telling.
LEMMA OthersKeep ==
    ASSUME IInv, TypeOK', UNCHANGED <<comments, opened>>,
           told \cup reopened \subseteq told' \cup reopened',
           silent' \subseteq silent, reopened \subseteq reopened',
           lagged' = lagged, opener' = opener, sweep' = sweep
    PROVE  IInv'
<1>1. TellsOrReopened' BY DEF IInv, TellsOrReopened
<1>2. CommentsOnce' BY DEF IInv, CommentsOnce
<1>3. SearchedFirst' BY DEF IInv, SearchedFirst
<1>4. (ToldOnce /\ EveryCloseTold /\ OneRetrospective)'
  BY DEF IInv, ToldOnce, EveryCloseTold, OneRetrospective
<1> QED BY <1>1, <1>2, <1>3, <1>4 DEF IInv

-----------------------------------------------------------------------------
(* GitHub, people and the agent session.                                    *)

LEMMA PeopleKeep ==
    ASSUME IInv, NEW i \in Issues, Index(i) \/ Ages(i) \/ Reopen(i) \/ CloseByHand(i)
    PROVE  IInv'
<1> USE DEF IInv
<1>1. CASE Index(i)
  <2>1. TypeOK' BY <1>1 DEF Index, TypeOK, history, sweeps, search, Created
  <2> QED BY <1>1, <2>1, OthersKeep DEF Index, history, sweeps, search
<1>2. CASE Ages(i)
  <2>1. TypeOK' BY <1>2 DEF Ages, TypeOK, history, sweeps, search, Created
  <2> QED BY <1>2, <2>1, OthersKeep DEF Ages, history, sweeps, search
<1>3. CASE Reopen(i)
  <2>0. state' = [state EXCEPT ![i] = "open"] /\ state[i] = "closed" BY <1>3 DEF Reopen
  <2>1. Created' = Created BY <2>0 DEF Created, TypeOK
  <2>2. TypeOK' BY <1>3, <2>1 DEF Reopen, TypeOK, search
  <2> QED BY <1>3, <2>2, OthersKeep DEF Reopen, search
<1>4. CASE CloseByHand(i)
  <2>0. state' = [state EXCEPT ![i] = "closed"] /\ state[i] = "open" BY <1>4 DEF CloseByHand
  <2>1. Created' = Created BY <2>0 DEF Created, TypeOK
  <2>2. TypeOK' BY <1>4, <2>1 DEF CloseByHand, TypeOK, history, sweeps, search
  <2> QED BY <1>4, <2>2, OthersKeep DEF CloseByHand, history, sweeps, search
<1> QED BY <1>1, <1>2, <1>3, <1>4

LEMMA SessionKeeps == ASSUME IInv, SessionLooks \/ SessionFiles PROVE IInv'
<1> USE DEF IInv
<1>1. CASE SessionLooks
  <2>1. session' \in [pc : {"idle", "create", "fill"}, stub : Issues \cup {0}]
    <3>1. \/ session' = [IdleSession EXCEPT !.pc = "create"]
          \/ session' = IdleSession
          \/ \E i \in Created : session' = [pc |-> "fill", stub |-> i]
      BY <1>1 DEF SessionLooks
    <3> QED BY <3>1 DEF IdleSession, Created
  <2>2. UNCHANGED <<github, opener, sweep, history>> BY <1>1 DEF SessionLooks
  <2>3. TypeOK' BY <2>1, <2>2 DEF TypeOK, Created, github, history, sweeps, search
  <2> QED BY <2>2, <2>3, OthersKeep DEF github, history, sweeps, search
<1>2. CASE SessionFiles
  <2>0. UNCHANGED <<opener, sweep, history>> /\ session' = IdleSession BY <1>2 DEF SessionFiles
  <2>1. CASE session.pc = "create" /\ Create(1, "real")
    <3>1. PICK new \in SUBSET (Issues \ Created) :
             /\ \A i \in Issues : state'[i] = IF i \in new THEN "open" ELSE state[i]
             /\ state' \in [Issues -> {"none", "open", "closed"}]
             /\ body' \in [Issues -> {"stub", "real"}]
             /\ UNCHANGED <<stale, comments, indexed>>
      BY <2>1, CreateMakes
    <3>2. Created \subseteq Created' BY <3>1, CreatedGrows
    <3>3. TypeOK' BY <2>0, <3>1, <3>2 DEF TypeOK, IdleSession, history, sweeps, search
    <3> QED BY <2>0, <3>1, <3>3, OthersKeep DEF history, sweeps, search
  <2>2. CASE /\ session.pc = "fill"
             /\ body' = [body EXCEPT ![session.stub] = "real"]
             /\ UNCHANGED <<state, stale, comments, indexed>>
    <3>1. TypeOK' BY <2>0, <2>2 DEF TypeOK, IdleSession, Created, history, sweeps, search
    <3> QED BY <2>0, <2>2, <3>1, OthersKeep DEF history, sweeps, search
  <2> QED BY <1>2, <2>1, <2>2 DEF SessionFiles
<1> QED BY <1>1, <1>2

-----------------------------------------------------------------------------
(* The opener.                                                              *)

LEMMA OpenerStarts == ASSUME IInv, StartOpener PROVE IInv'
<1> USE DEF IInv
<1>1. UNCHANGED <<github, session, sweep, history>> /\ opener' = "search" BY DEF StartOpener
<1>2. TypeOK' BY <1>1 DEF TypeOK, Created, github, history, sweeps, search
<1>3. (TellsOrReopened /\ CommentsOnce /\ SearchedFirst)'
  BY <1>1 DEF TellsOrReopened, CommentsOnce, SearchedFirst, github, history, sweeps, search
<1>4. (ToldOnce /\ EveryCloseTold /\ OneRetrospective)'
  BY <1>1 DEF ToldOnce, EveryCloseTold, OneRetrospective, github, history, sweeps, search
<1> QED BY <1>2, <1>3, <1>4

LEMMA SearchKeeps == ASSUME IInv, Search PROVE IInv'
<1> USE DEF IInv
<1>1. /\ UNCHANGED <<github, session, sweep, sweeps, opened>>
      /\ lagged' \in BOOLEAN /\ opener' \in {"create", "idle"}
      /\ opener' = "create" => indexed = {}
      /\ ~lagged' => ~lagged /\ indexed = Created
  BY DEF Search, find_existing_retro_issue, TypeOK
<1>2. TypeOK' BY <1>1 DEF TypeOK, Created, github, sweeps
<1>3. SearchedFirst' BY <1>1 DEF SearchedFirst, TypeOK
<1>4. (TellsOrReopened /\ CommentsOnce)'
  BY <1>1 DEF TellsOrReopened, CommentsOnce, github, sweeps
<1>5. (ToldOnce /\ EveryCloseTold)' BY <1>1 DEF ToldOnce, EveryCloseTold, github, sweeps
<1>6. OneRetrospective' BY <1>1 DEF OneRetrospective
<1> QED BY <1>2, <1>3, <1>4, <1>5, <1>6

LEMMA OpenKeeps == ASSUME IInv, open_retro_issue PROVE IInv'
<1> USE DEF IInv
<1>1. PICK o \in Calls(CreateAttempts, 0) :
        IF o.applied = 0 THEN UNCHANGED github ELSE Create(o.applied, "stub")
  BY DEF open_retro_issue
<1>2. /\ UNCHANGED <<session, sweep, sweeps, lagged>> /\ opener = "create" /\ opener' = "idle"
      /\ opened' = opened \cup {i \in Issues : state[i] # state'[i]}
  BY DEF open_retro_issue
<1>3. o.applied \in 0..1 BY CallIs DEF CreateAttempts
<1>4. PICK new \in SUBSET (Issues \ Created) :
        /\ IsFiniteSet(new) /\ Cardinality(new) <= 1
        /\ \A i \in Issues : state'[i] = IF i \in new THEN "open" ELSE state[i]
        /\ state' \in [Issues -> {"none", "open", "closed"}]
        /\ body' \in [Issues -> {"stub", "real"}]
        /\ UNCHANGED <<stale, comments, indexed>>
  <2>1. CASE o.applied = 0
    BY <1>1, <2>1, FS_EmptySet DEF github, TypeOK
  <2>2. CASE o.applied = 1
    <3>1. PICK new \in SUBSET (Issues \ Created) :
             /\ Cardinality(new) = 1
             /\ \A i \in Issues : state'[i] = IF i \in new THEN "open" ELSE state[i]
             /\ state' \in [Issues -> {"none", "open", "closed"}]
             /\ body' \in [Issues -> {"stub", "real"}]
             /\ UNCHANGED <<stale, comments, indexed>>
      BY <1>1, <2>2, CreateMakes
    <3>2. IsFiniteSet(new) BY <3>1, IssuesAre, FS_Subset
    <3> QED BY <3>1, <3>2
  <2> QED BY <1>3, <2>1, <2>2
<1>5. Created' = Created \cup new BY <1>4 DEF Created
<1>6. opened' = opened \cup new BY <1>2, <1>4 DEF Created
<1>7. TypeOK' BY <1>2, <1>4, <1>5, <1>6 DEF TypeOK, sweeps
<1>8. OneRetrospective'
  <2>1. CASE lagged BY <1>2, <2>1 DEF OneRetrospective
  <2>2. CASE ~lagged
    <3>1. opened' = new BY <1>2, <1>6, <2>2 DEF SearchedFirst
    <3> QED BY <1>4, <3>1 DEF OneRetrospective
  <2> QED BY <2>1, <2>2
<1>9. SearchedFirst' BY <1>2 DEF SearchedFirst
<1>10. (TellsOrReopened /\ CommentsOnce /\ ToldOnce /\ EveryCloseTold)'
  BY <1>2, <1>4 DEF TellsOrReopened, CommentsOnce, ToldOnce, EveryCloseTold, sweeps
<1> QED BY <1>7, <1>8, <1>9, <1>10

-----------------------------------------------------------------------------
(* The sweep.                                                               *)

\* A step of the sweep that only moves it on.
LEMMA SweepMoves ==
    ASSUME IInv, UNCHANGED <<github, opener, session, history>>, sweep' \in Sweep,
           sweep'.pc \in {"look", "comment", "patch"} => sweep'.cur # 0,
           sweep'.pc = "patch" => comments[sweep'.cur] > 0,
           sweep'.pc = "comment" => comments[sweep'.cur] = 0
    PROVE  IInv'
<1> USE DEF IInv
<1>1. TypeOK' BY DEF TypeOK, Sweep, Created, github, history, sweeps, search
<1>2. (TellsOrReopened /\ SearchedFirst)'
  BY DEF TellsOrReopened, SearchedFirst, github, history, sweeps, search
<1>3. CommentsOnce' BY DEF CommentsOnce, github
<1>4. (ToldOnce /\ EveryCloseTold /\ OneRetrospective)'
  BY DEF ToldOnce, EveryCloseTold, OneRetrospective, github, history, sweeps, search
<1> QED BY <1>1, <1>2, <1>3, <1>4

\* Idle, and going on after a failure, are states of the sweep.
LEMMA SweepRests ==
    ASSUME TypeOK
    PROVE  /\ IdleSweep \in Sweep /\ IdleSweep.pc = "idle"
           /\ AfterFailure \in Sweep /\ AfterFailure.pc = "next"
BY DEF TypeOK, Sweep, IdleSweep, AfterFailure

LEMMA QuietSweepKeeps == ASSUME IInv, List \/ Take \/ Look \/ SweepDies PROVE IInv'
<1>0. TypeOK /\ sweep \in Sweep /\ comments \in [Issues -> Nat]
  BY DEF IInv, TypeOK, Sweep
<1>1. CASE List
  <2>1. UNCHANGED <<github, opener, session, history>> BY <1>1 DEF List
  <2>2. sweep' = [pc |-> "next", todo |-> StaleStubs, cur |-> 0] BY <1>1 DEF List
  <2>3. StaleStubs \subseteq Issues BY <1>0 DEF StaleStubs, TypeOK, Created
  <2>4. sweep' \in Sweep /\ sweep'.pc = "next" BY <2>2, <2>3 DEF Sweep
  <2> QED BY <2>1, <2>4, SweepMoves
<1>2. CASE Take
  <2>1. UNCHANGED <<github, opener, session, history>> BY <1>2 DEF Take
  <2>2. CASE sweep' = IdleSweep BY <1>0, <2>1, <2>2, SweepRests, SweepMoves
  <2>3. CASE \E i \in sweep.todo : sweep' = [pc |-> "look", todo |-> sweep.todo \ {i}, cur |-> i]
    <3>1. PICK i \in sweep.todo : sweep' = [pc |-> "look", todo |-> sweep.todo \ {i}, cur |-> i]
      BY <2>3
    <3>2. i \in Issues /\ i # 0 BY <1>0, IssuesAre DEF Sweep
    <3>3. sweep' \in Sweep /\ sweep'.pc = "look" /\ sweep'.cur # 0 BY <1>0, <3>1, <3>2 DEF Sweep
    <3> QED BY <2>1, <3>3, SweepMoves
  <2> QED BY <1>2, <2>2, <2>3 DEF Take
<1>3. CASE Look
  <2>1. UNCHANGED <<github, opener, session, history>> /\ sweep.pc = "look" BY <1>3 DEF Look
  <2>2. sweep.cur \in Issues BY <1>0, <2>1 DEF TypeOK, Sweep
  <2>3. \/ sweep' = AfterFailure
        \/ comments[sweep.cur] > 0 /\ sweep' = [sweep EXCEPT !.pc = "patch"]
        \/ ~(comments[sweep.cur] > 0) /\ sweep' = [sweep EXCEPT !.pc = "comment"]
    BY <1>3 DEF Look, Has_close_comment
  <2>4. CASE sweep' = AfterFailure BY <1>0, <2>1, <2>4, SweepRests, SweepMoves
  <2>5. CASE comments[sweep.cur] > 0 /\ sweep' = [sweep EXCEPT !.pc = "patch"]
    <3>1. sweep' \in Sweep /\ sweep'.pc = "patch" /\ sweep'.cur = sweep.cur
      BY <1>0, <2>5 DEF Sweep
    <3> QED BY <2>1, <2>2, <2>5, <3>1, IssuesAre, SweepMoves
  <2>6. CASE ~(comments[sweep.cur] > 0) /\ sweep' = [sweep EXCEPT !.pc = "comment"]
    <3>1. sweep' \in Sweep /\ sweep'.pc = "comment" /\ sweep'.cur = sweep.cur
      BY <1>0, <2>6 DEF Sweep
    <3>2. comments[sweep.cur] = 0 BY <1>0, <2>2, <2>6
    <3> QED BY <2>1, <2>2, <3>1, <3>2, IssuesAre, SweepMoves
  <2> QED BY <2>3, <2>4, <2>5, <2>6
<1>4. CASE SweepDies
  BY <1>0, <1>4, SweepRests, SweepMoves DEF SweepDies
<1> QED BY <1>1, <1>2, <1>3, <1>4

LEMMA CommentKeeps == ASSUME IInv, Comment PROVE IInv'
<1> USE DEF IInv
<1> DEFINE i == sweep.cur
<1>1. PICK o \in Calls(CommentAttempts, i) :
        /\ comments' = [comments EXCEPT ![i] = @ + o.applied]
        /\ told' = IF o.applied > 0 THEN told \cup {i} ELSE told
        /\ sweep' = IF o.code = "ok" THEN [sweep EXCEPT !.pc = "patch"] ELSE AfterFailure
  BY DEF Comment
<1>2. /\ UNCHANGED <<state, body, stale, indexed, opener, session, silent, reopened, search>>
      /\ sweep.pc = "comment"
  BY DEF Comment
<1>3. o.applied \in 0..1 /\ (o.code = "ok" => o.applied > 0) BY CallIs DEF CommentAttempts
<1>4. i \in Issues /\ sweep \in Sweep /\ comments \in [Issues -> Nat] /\ comments[i] = 0
  BY <1>2 DEF TypeOK, Sweep, CommentsOnce
<1> HIDE DEF i
<1>5. /\ comments' \in [Issues -> Nat] /\ comments'[i] = o.applied
      /\ \A j \in Issues : j # i => comments'[j] = comments[j]
  BY <1>1, <1>3, <1>4
<1>6. /\ sweep' \in Sweep /\ sweep'.pc \in {"patch", "next"}
      /\ sweep'.pc = "patch" => sweep'.cur = i /\ comments'[i] > 0
  <2>1. CASE o.code = "ok"
    <3>1. sweep' = [sweep EXCEPT !.pc = "patch"] BY <1>1, <2>1
    <3>2. sweep' \in Sweep /\ sweep'.pc = "patch" /\ sweep'.cur = sweep.cur BY <1>4, <3>1 DEF Sweep
    <3> QED BY <1>3, <1>5, <2>1, <3>2 DEF i
  <2>2. CASE o.code # "ok" BY <1>1, <2>2, SweepRests
  <2> QED BY <2>1, <2>2
<1>7. TypeOK'
  BY <1>1, <1>2, <1>4, <1>5, <1>6, IssuesAre DEF TypeOK, Sweep, Created, search
<1>8. TellsOrReopened' BY <1>1, <1>2, <1>3, <1>4, <1>5 DEF TellsOrReopened
<1>9. ToldOnce' BY <1>3, <1>5 DEF ToldOnce
<1>10. (CommentsOnce /\ SearchedFirst)' BY <1>2, <1>6 DEF CommentsOnce, SearchedFirst, search
<1>11. (EveryCloseTold /\ OneRetrospective)'
  BY <1>2 DEF EveryCloseTold, OneRetrospective, search
<1> QED BY <1>7, <1>8, <1>9, <1>10, <1>11

LEMMA PatchKeeps == ASSUME IInv, Patch PROVE IInv'
<1> USE DEF IInv
<1> DEFINE i == sweep.cur
<1>1. PICK o \in Calls(3, i) :
        /\ state' = [state EXCEPT ![i] = IF o.applied > 0 THEN "closed" ELSE @]
        /\ silent' = IF o.applied > 0 /\ state[i] = "open" /\ i \notin told
                     THEN silent \cup {i} ELSE silent
        /\ sweep' = IF o.code = "ok" THEN [sweep EXCEPT !.pc = "next"] ELSE AfterFailure
  BY DEF Patch
<1>2. /\ UNCHANGED <<body, stale, comments, indexed, opener, session, told, reopened, search>>
      /\ sweep.pc = "patch"
  BY DEF Patch
<1>4. i \in Issues /\ sweep \in Sweep /\ comments[i] > 0 BY <1>2 DEF TypeOK, Sweep
<1> HIDE DEF i
<1>5. sweep' \in Sweep /\ sweep'.pc = "next"
  <2>1. [sweep EXCEPT !.pc = "next"] \in Sweep /\ [sweep EXCEPT !.pc = "next"].pc = "next"
    BY <1>4 DEF Sweep
  <2> QED BY <1>1, <2>1, SweepRests
<1>6. i \in told \cup reopened BY <1>4 DEF TellsOrReopened
<1>7. EveryCloseTold' BY <1>1, <1>2, <1>6 DEF EveryCloseTold
<1>8. state' \in [Issues -> {"none", "open", "closed"}] /\ Created \subseteq Created'
  BY <1>1, <1>4 DEF TypeOK, Created
<1>9. TypeOK' BY <1>1, <1>2, <1>4, <1>5, <1>8 DEF TypeOK, Sweep, search
<1>10. (TellsOrReopened /\ CommentsOnce /\ SearchedFirst)'
  BY <1>2, <1>5 DEF TellsOrReopened, CommentsOnce, SearchedFirst, search
<1>11. (ToldOnce /\ OneRetrospective)' BY <1>2 DEF ToldOnce, OneRetrospective, search
<1> QED BY <1>7, <1>9, <1>10, <1>11

-----------------------------------------------------------------------------
LEMMA Inductive == Spec => []IInv
<1>1. Init => IInv
  <2> SUFFICES ASSUME Init PROVE IInv OBVIOUS
  <2>1. TypeOK BY DEF Init, TypeOK, Created, IdleSession, IdleSweep
  <2>2. TellsOrReopened /\ CommentsOnce /\ SearchedFirst
    BY DEF Init, TellsOrReopened, CommentsOnce, SearchedFirst, IdleSweep
  <2>3. ToldOnce /\ EveryCloseTold BY DEF Init, ToldOnce, EveryCloseTold
  <2>4. OneRetrospective BY FS_EmptySet DEF Init, OneRetrospective
  <2> QED BY <2>1, <2>2, <2>3, <2>4 DEF IInv
<1>2. IInv /\ [Next]_vars => IInv'
  <2> SUFFICES ASSUME IInv, [Next]_vars PROVE IInv' OBVIOUS
  <2>1. ASSUME NEW i \in Issues, Index(i) \/ Ages(i) \/ Reopen(i) \/ CloseByHand(i) PROVE IInv'
    BY <2>1, PeopleKeep
  <2>2. CASE StartOpener \/ Search \/ open_retro_issue
    BY <2>2, OpenerStarts, SearchKeeps, OpenKeeps
  <2>3. CASE SessionLooks \/ SessionFiles BY <2>3, SessionKeeps
  <2>4. CASE SweepStep \/ SweepDies
    BY <2>4, QuietSweepKeeps, CommentKeeps, PatchKeeps DEF SweepStep
  <2>5. CASE UNCHANGED vars
    <3>1. UNCHANGED <<github, opener, session, sweep, history>> BY <2>5 DEF vars
    <3>2. TypeOK' BY <3>1 DEF IInv, TypeOK, Created, github, history, sweeps, search
    <3> QED BY <3>1, <3>2, OthersKeep DEF github, history, sweeps, search
  <2> QED BY <2>1, <2>2, <2>3, <2>4, <2>5 DEF Next
<1> QED BY <1>1, <1>2, PTL DEF Spec

\* Types; the sweep is about to close only what carries its comment
\* (close_stale_stub).
THEOREM TypeCorrect == Spec => []TypeOK
<1>1. IInv => TypeOK BY DEF IInv
<1> QED BY <1>1, Inductive, PTL

\* However many sweeps run, die or lose answers, an issue is told of its
\* closing once (_has_close_comment before a single-attempt POST).
THEOREM ToldOnceAlways == Spec => []ToldOnce
<1>1. IInv => ToldOnce BY DEF IInv
<1> QED BY <1>1, Inductive, PTL

\* An issue the sweep closes was told, or a person had reopened it.
THEOREM NoSilentClose == Spec => []EveryCloseTold
<1>1. IInv => EveryCloseTold BY DEF IInv
<1> QED BY <1>1, Inductive, PTL

\* An opener whose searches see every issue opens one, however often it is
\* run again (main: the search comes before the single-attempt creation).
THEOREM OneIsOpened == Spec => []OneRetrospective
<1>1. IInv => OneRetrospective BY DEF IInv
<1> QED BY <1>1, Inductive, PTL
=============================================================================
