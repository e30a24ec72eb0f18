------------------------- MODULE AcmIssueGateProofs -------------------------
(***************************************************************************)
(* Proofs about AcmIssueGate for any number of edits: the label and the     *)
(* comment agree with the body once the runs are done, and one call at most *)
(* tells the issue.                                                         *)
(***************************************************************************)
EXTENDS AcmIssueGate, FiniteSetTheorems, TLAPS

Adding == {"ensure", "add", "look", "post"}

\* The last event carries the present body, and the run that judges the last
\* event leaves nothing of an earlier verdict behind.
Current ==
    /\ events # <<>> => events[Len(events)] = body
    /\ events = <<>> => payload = body
    /\ pc = "remove" => payload = "disclosed"
    /\ pc \in Adding => payload = "bare"
    /\ pc = "post" => markers = 0
    /\ Settled => label = (payload = "bare") /\ (payload = "bare" => markers > 0)

IInv == TypeOK /\ Current

-----------------------------------------------------------------------------
(* The events.                                                              *)

LEMMA EditKeeps == ASSUME IInv, NEW b \in Bodies, Edit(b) PROVE IInv'
<1>1. TypeOK' BY AcmAssumption DEF IInv, TypeOK, Edit, issue
<1>2. events' # <<>> /\ events'[Len(events')] = b BY DEF IInv, TypeOK, Edit
<1>3. Current' BY <1>2 DEF IInv, Current, Edit, issue, Settled
<1> QED BY <1>1, <1>3 DEF IInv

LEMMA DeliverKeeps == ASSUME IInv, Deliver PROVE IInv'
<1>1. events \in Seq(Bodies) /\ events # <<>> BY DEF IInv, TypeOK, Deliver
<1>2. Head(events) \in Bodies /\ Tail(events) \in Seq(Bodies) BY <1>1
<1>3. Len(events) \in Nat /\ Len(events) > 0 /\ Len(Tail(events)) = Len(events) - 1 BY <1>1
<1>4. TypeOK' BY <1>2 DEF IInv, TypeOK, Deliver, issue
<1>5. Tail(events) # <<>> => Tail(events)[Len(Tail(events))] = events[Len(events)]
  BY <1>1, <1>3
<1>6. Tail(events) = <<>> => Head(events) = events[Len(events)]
  <2> SUFFICES ASSUME Tail(events) = <<>> PROVE Head(events) = events[Len(events)] OBVIOUS
  <2>1. Len(<<>>) = 0 OBVIOUS
  <2>2. Len(Tail(events)) = 0 BY <2>1, Zenon
  <2>3. Len(events) = 1 BY <1>3, <2>2
  <2> QED BY <1>1, <2>3
<1>7. events[Len(events)] = body BY <1>1 DEF IInv, Current
<1>8. Current' BY <1>5, <1>6, <1>7 DEF Deliver, Current, Adding, Settled
<1> QED BY <1>4, <1>8 DEF IInv

-----------------------------------------------------------------------------
(* The run's calls.                                                         *)

\* The calls of the gate make one attempt, or three at most: a request that is
\* answered 2xx was carried out.
LEMMA AnswerIs ==
    ASSUME NEW n \in {1, 3}, NEW o \in Outcomes(n)
    PROVE  /\ o.code \in {"ok", "client", "transient"}
           /\ o.applied \in Nat
           /\ o.code = "ok" => o.applied > 0
<1>1. PICK rs \in [1..n -> Attempt] : o = request_with_retry(rs)
  BY DEF Outcomes
<1> DEFINE Ends(i) == /\ Final(rs[i]) \/ i + 1 \notin DOMAIN rs
                      /\ \A j \in 1..(i - 1) : ~Final(rs[j])
           k    == FinalAttempt(rs)
           done == {i \in 1..k : rs[i].applied}
<1>2. DOMAIN rs = 1..n OBVIOUS
<1>3. \E i \in 1..n : Ends(i)
  <2>1. CASE n = 1 \/ Final(rs[1])
    <3>1. Ends(1) BY <1>2, <2>1
    <3> QED BY <3>1
  <2>2. CASE n = 3 /\ ~Final(rs[1]) /\ Final(rs[2])
    <3>1. Ends(2) BY <1>2, <2>2
    <3> QED BY <2>2, <3>1
  <2>3. CASE n = 3 /\ ~Final(rs[1]) /\ ~Final(rs[2])
    <3>1. Ends(3) BY <1>2, <2>3
    <3> QED BY <2>3, <3>1
  <2> QED BY <2>1, <2>2, <2>3
<1>4. k = CHOOSE i \in DOMAIN rs : Ends(i) BY DEF FinalAttempt
<1> HIDE DEF Ends
<1>5. k \in 1..n BY <1>2, <1>3, <1>4
<1> HIDE DEF k
<1>6. o.code = rs[k].code /\ o.applied = Cardinality(done)
  BY <1>1 DEF request_with_retry, k
<1>7. IsFiniteSet(1..k) BY <1>5, FS_Interval
<1>8. IsFiniteSet(done) /\ Cardinality(done) \in Nat
  BY <1>7, FS_Subset, FS_CardinalityType
<1>9. rs[k] \in Attempt BY <1>5
<1>10. rs[k].code = "ok" => Cardinality(done) > 0
  <2> SUFFICES ASSUME rs[k].code = "ok" PROVE Cardinality(done) > 0 OBVIOUS
  <2>1. k \in done BY <1>5, <1>9 DEF Attempt
  <2>2. Cardinality(done) # 0 BY <1>8, <2>1, FS_EmptySet
  <2> QED BY <1>8, <2>2
<1> QED BY <1>6, <1>8, <1>9, <1>10 DEF Attempt

LEMMA JudgeKeeps == ASSUME IInv, Judge PROVE IInv'
<1>1. /\ UNCHANGED <<body, events, payload, edits, defined, label, markers, failed>>
      /\ pc' = IF payload = "disclosed" THEN "remove" ELSE "ensure"
  BY DEF Judge, Judged, GoTo, Env, issue
<1>2. TypeOK' BY <1>1 DEF IInv, TypeOK
<1>3. Current' BY <1>1 DEF IInv, TypeOK, Bodies, Current, Adding, Settled
<1> QED BY <1>2, <1>3 DEF IInv

LEMMA RemoveKeeps == ASSUME IInv, remove_label PROVE IInv'
<1>1. PICK o \in Outcomes(1) :
        /\ label' = (label /\ o.applied = 0)
        /\ End(o.code = "transient" \/ (o.code = "client" /\ label))
  BY DEF remove_label
<1>2. UNCHANGED <<body, events, payload, edits, defined, markers>> /\ pc = "remove"
  BY DEF remove_label, Env
<1>3. o.code \in {"ok", "client", "transient"} /\ (o.code = "ok" => o.applied # 0)
  BY AnswerIs
<1>4. /\ label' \in BOOLEAN /\ failed' \in BOOLEAN /\ pc' = "idle"
      /\ ~failed' => ~label'
  BY <1>1, <1>3 DEF End, IInv, TypeOK
<1>5. TypeOK' BY <1>2, <1>4 DEF IInv, TypeOK
<1>6. payload = "disclosed" BY <1>2 DEF IInv, Current
<1>7. Current' BY <1>2, <1>4, <1>6 DEF IInv, Current, Adding, Settled
<1> QED BY <1>5, <1>7 DEF IInv

LEMMA EnsureKeeps == ASSUME IInv, ensure_label_exists PROVE IInv'
<1>1. PICK o \in Outcomes(1) :
        /\ defined' = (defined \/ o.applied > 0)
        /\ IF Exists(o) THEN GoTo("add") ELSE End(TRUE)
  BY DEF ensure_label_exists
<1>2. UNCHANGED <<body, events, payload, edits, label, markers>> /\ pc = "ensure"
  BY DEF ensure_label_exists, Env
<1>3. o.applied \in Nat /\ (o.code = "ok" => o.applied > 0)
  BY AnswerIs
<1>4. /\ defined' \in BOOLEAN /\ failed' \in BOOLEAN
      /\ \/ pc' = "add" /\ defined'
         \/ pc' = "idle" /\ failed'
  <2>1. CASE Exists(o)
    <3>1. pc' = "add" /\ failed' = failed BY <1>1, <2>1 DEF GoTo
    <3>2. o.applied > 0 \/ defined BY <1>3, <2>1 DEF Exists
    <3> QED BY <1>1, <3>1, <3>2 DEF IInv, TypeOK
  <2>2. CASE ~Exists(o)
    <3>1. pc' = "idle" /\ failed' = TRUE BY <1>1, <2>2 DEF End
    <3> QED BY <1>1, <3>1
  <2> QED BY <2>1, <2>2
<1>5. TypeOK' BY <1>2, <1>4 DEF IInv, TypeOK
<1>6. Current' BY <1>2, <1>4 DEF IInv, Current, Adding, Settled
<1> QED BY <1>5, <1>6 DEF IInv

LEMMA AddKeeps == ASSUME IInv, add_label PROVE IInv'
<1>1. PICK o \in Outcomes(3) :
        /\ label' = (label \/ o.applied > 0)
        /\ IF o.code = "ok" THEN GoTo("look") ELSE End(TRUE)
  BY DEF add_label
<1>2. UNCHANGED <<body, events, payload, edits, defined, markers>> /\ pc = "add"
  BY DEF add_label, Env
<1>3. o.applied \in Nat /\ (o.code = "ok" => o.applied > 0)
  BY AnswerIs
<1>4. /\ label' \in BOOLEAN /\ failed' \in BOOLEAN
      /\ \/ pc' = "look" /\ label'
         \/ pc' = "idle" /\ failed'
  <2>1. CASE o.code = "ok"
    <3>1. pc' = "look" /\ failed' = failed BY <1>1, <2>1 DEF GoTo
    <3> QED BY <1>1, <1>3, <2>1, <3>1 DEF IInv, TypeOK
  <2>2. CASE o.code # "ok"
    <3>1. pc' = "idle" /\ failed' = TRUE BY <1>1, <2>2 DEF End
    <3> QED BY <1>1, <3>1
  <2> QED BY <2>1, <2>2
<1>5. TypeOK' BY <1>2, <1>4 DEF IInv, TypeOK
<1>6. Current' BY <1>2, <1>4 DEF IInv, Current, Adding, Settled
<1> QED BY <1>5, <1>6 DEF IInv

LEMMA LookKeeps == ASSUME IInv, has_marker_comment PROVE IInv'
<1>1. PICK o \in Outcomes(3) :
        IF o.code # "ok" THEN End(TRUE)
        ELSE IF Found THEN End(FALSE) ELSE GoTo("post")
  BY DEF has_marker_comment
<1>2. UNCHANGED <<body, events, payload, edits, defined, label, markers>> /\ pc = "look"
  BY DEF has_marker_comment, Env, issue
<1>3. \/ pc' = "idle" /\ failed' = TRUE
      \/ pc' = "idle" /\ failed' = FALSE /\ markers > 0
      \/ pc' = "post" /\ failed' = failed /\ markers = 0
  BY <1>1 DEF End, GoTo, Found, IInv, TypeOK
<1>4. TypeOK' BY <1>2, <1>3 DEF IInv, TypeOK
<1>5. label /\ payload = "bare" BY <1>2 DEF IInv, TypeOK, Current, Adding
<1>6. Current' BY <1>2, <1>3, <1>5 DEF IInv, TypeOK, Current, Adding, Settled
<1> QED BY <1>4, <1>6 DEF IInv

LEMMA PostKeeps == ASSUME IInv, post_comment PROVE IInv'
<1>1. PICK o \in Outcomes(3) : markers' = markers + o.applied /\ End(o.code # "ok")
  BY DEF post_comment
<1>2. UNCHANGED <<body, events, payload, edits, defined, label>> /\ pc = "post"
  BY DEF post_comment, Env
<1>3. o.applied \in Nat /\ (o.code = "ok" => o.applied > 0)
  BY AnswerIs
<1>4. /\ markers' \in Nat /\ failed' \in BOOLEAN /\ pc' = "idle"
      /\ ~failed' => markers' > 0
  <2>1. pc' = "idle" /\ failed' = (o.code # "ok") BY <1>1 DEF End
  <2>2. markers' \in Nat /\ (o.code = "ok" => markers' > 0) BY <1>1, <1>3 DEF IInv, TypeOK
  <2>3. CASE o.code = "ok" BY <2>1, <2>2, <2>3
  <2>4. CASE o.code # "ok" BY <2>1, <2>2, <2>4
  <2> QED BY <2>3, <2>4
<1>5. TypeOK' BY <1>2, <1>4 DEF IInv, TypeOK
<1>6. label /\ payload = "bare" BY <1>2 DEF IInv, TypeOK, Current, Adding
<1>7. Current' BY <1>2, <1>4, <1>6 DEF IInv, TypeOK, Current, Adding, Settled
<1> QED BY <1>5, <1>7 DEF IInv

-----------------------------------------------------------------------------
LEMMA Inductive == Spec => []IInv
<1>1. Init => IInv
  <2> SUFFICES ASSUME Init PROVE IInv OBVIOUS
  <2>1. TypeOK
    <3>1. events \in Seq(Bodies) /\ {body, payload} \subseteq Bodies BY DEF Init
    <3>2. edits \in 0..MaxEdits /\ markers \in Nat BY AcmAssumption DEF Init
    <3>3. {defined, label, failed} \subseteq BOOLEAN BY DEF Init
    <3>4. pc = "idle" BY DEF Init
    <3> QED BY <3>1, <3>2, <3>3, <3>4 DEF TypeOK
  <2>2. events # <<>> /\ Len(events) = 1 /\ events[1] = body BY DEF Init
  <2>3. Current BY <2>2 DEF Init, Current, Adding, Settled
  <2> QED BY <2>1, <2>3 DEF IInv
<1>2. IInv /\ [Next]_vars => IInv'
  <2> SUFFICES ASSUME IInv, [Next]_vars PROVE IInv' OBVIOUS
  <2>1. ASSUME NEW b \in Bodies, Edit(b) PROVE IInv' BY <2>1, EditKeeps
  <2>2. CASE Deliver BY <2>2, DeliverKeeps
  <2>3. CASE RunStep
    BY <2>3, JudgeKeeps, RemoveKeeps, EnsureKeeps, AddKeeps, LookKeeps, PostKeeps DEF RunStep
  <2>4. CASE UNCHANGED vars
    <3>1. TypeOK' BY <2>4 DEF IInv, TypeOK, vars
    <3>2. Current' BY <2>4 DEF IInv, Current, Settled, vars
    <3> QED BY <3>1, <3>2 DEF IInv
  <2> QED BY <2>1, <2>2, <2>3, <2>4 DEF Next
<1> QED BY <1>1, <1>2, PTL DEF Spec

\* The state of the issue and of the run, for any number of edits: the label is
\* added only once it is defined, the comment only on a labelled issue (main).
THEOREM TypeCorrect == Spec => []TypeOK
<1>1. IInv => TypeOK BY DEF IInv
<1> QED BY <1>1, Inductive, PTL

\* When all events are dealt with and the last run did not fail, the label
\* says what the present body says (main, over events that cancel each other).
THEOREM FlagIsRight == Spec => []FlagMatchesBody
<1>1. IInv => FlagMatchesBody BY DEF IInv, Current, FlagMatchesBody, Settled
<1> QED BY <1>1, Inductive, PTL

\* The comment is posted by one call only (has_marker_comment before
\* post_comment, in one run at a time).
THEOREM OneCallTells == Spec => ToldByOneCall
<1>1. IInv /\ [Next]_vars => [markers' # markers => markers = 0]_vars
  <2> SUFFICES ASSUME IInv, Next, markers' # markers PROVE markers = 0 OBVIOUS
  <2>1. CASE post_comment BY <2>1 DEF post_comment, IInv, Current
  <2>2. CASE ~post_comment
    BY <2>2 DEF Next, RunStep, Edit, Deliver, Judge, remove_label, ensure_label_exists, add_label,
                has_marker_comment, issue
  <2> QED BY <2>1, <2>2
<1>2. Spec => [][markers' # markers => markers = 0]_vars BY <1>1, Inductive, PTL DEF Spec
<1> QED BY <1>2 DEF ToldByOneCall
=============================================================================
