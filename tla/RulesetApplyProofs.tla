------------------------- MODULE RulesetApplyProofs -------------------------
(***************************************************************************)
(* Proofs about RulesetApply for any page size, number of pages, committed  *)
(* files and bounds: a run that nobody disturbs has joined its file with    *)
(* exactly the live rulesets of its name before it writes or answers.       *)
(***************************************************************************)
EXTENDS RulesetApply, FiniteSetTheorems, SequenceTheorems, TLAPS

Distinct(s) == \A i, j \in DOMAIN s : s[i].id = s[j].id => i = j

\* The ids of a name among the first k of the listing.
IdsUpTo(s, name, k) == {s[i].id : i \in {j \in DOMAIN s : j <= k /\ s[j].name = name}}

IdsOf(name) == IdsUpTo(rulesets, name, Len(rulesets))

\* What an undisturbed run has seen of the listing.
ListedSoFar ==
    run.pc = "list" /\ ~run.touched =>
        LET seen == (run.page - 1) * PageSize
        IN  /\ seen <= Len(rulesets)
            /\ ToSet(run.matches) = IdsUpTo(rulesets, run.sot.name, seen)
            /\ Len(run.matches) = Cardinality(ToSet(run.matches))

\* The ruleset it joined its file with is the only one of the name, or there
\* is none.
Joined ==
    run.pc \in {"detail", "write"} /\ ~run.touched =>
        IdsOf(run.sot.name) = IF run.live_id = None THEN {} ELSE {run.live_id}

IdIsKnown ==
    /\ run.pc = "list" => run.live_id = None
    /\ run.pc = "detail" => run.live_id # None

IInv == TypeOK /\ ListedSoFar /\ Joined /\ IdIsKnown /\ AppliedIsLive

-----------------------------------------------------------------------------
(* Sets and sequences.                                                      *)

\* SetToSeq lists a finite set, each member once.
LEMMA SetToSeqLists ==
    ASSUME NEW S, IsFiniteSet(S)
    PROVE  /\ SetToSeq(S) \in Seq(S)
           /\ Len(SetToSeq(S)) = Cardinality(S)
           /\ ToSet(SetToSeq(S)) = S
<1>1. Cardinality(S) \in Nat /\ ExistsBijection(1..Cardinality(S), S) BY FS_CardinalityType
<1>2. PICK b \in Bijection(1..Cardinality(S), S) : TRUE BY <1>1 DEF ExistsBijection
<1>3. b \in [1..Cardinality(S) -> S] /\ IsInjective(b)
  BY <1>2 DEF Bijection, Injection
<1> DEFINE f == SetToSeq(S)
<1>4. f \in [1..Cardinality(S) -> S] /\ IsInjective(f) BY <1>3 DEF SetToSeq
<1> HIDE DEF f
<1>5. f \in Seq(S) /\ Len(f) = Cardinality(S) BY <1>1, <1>4, IsASeq, LenProperties
<1>6. ToSet(f) = S
  <2>1. IsFiniteSet(1..Cardinality(S)) /\ Cardinality(1..Cardinality(S)) = Cardinality(S)
    BY <1>1, FS_Interval
  <2>2. f \in Injection(1..Cardinality(S), S) BY <1>4 DEF Injection
  <2>3. f \in Surjection(1..Cardinality(S), S) BY <2>1, <2>2, FS_Injection
  <2>4. DOMAIN f = 1..Cardinality(S) BY <1>4
  <2> QED BY <1>4, <2>3, <2>4 DEF ToSet, Surjection
<1> QED BY <1>5, <1>6 DEF f

\* A list without a member twice, made longer by new members.
LEMMA JoinedLists ==
    ASSUME NEW T, NEW s \in Seq(T), NEW t \in Seq(T),
           IsFiniteSet(ToSet(s)), IsFiniteSet(ToSet(t)), ToSet(s) \cap ToSet(t) = {},
           Len(s) = Cardinality(ToSet(s)), Len(t) = Cardinality(ToSet(t))
    PROVE  /\ s \o t \in Seq(T)
           /\ ToSet(s \o t) = ToSet(s) \cup ToSet(t)
           /\ Len(s \o t) = Cardinality(ToSet(s \o t))
<1>1. s \o t \in Seq(T) /\ Len(s \o t) = Len(s) + Len(t) BY ConcatProperties
<1>2. ToSet(s \o t) = ToSet(s) \cup ToSet(t)
  <2>1. Range(s \o t) = Range(s) \cup Range(t) BY RangeConcatenation
  <2> QED BY <2>1 DEF ToSet, Range
<1>3. Cardinality(ToSet(s) \cup ToSet(t)) = Cardinality(ToSet(s)) + Cardinality(ToSet(t))
  <2>1. Cardinality(ToSet(s) \cup ToSet(t)) =
          Cardinality(ToSet(s)) + Cardinality(ToSet(t)) - Cardinality(ToSet(s) \cap ToSet(t))
    BY FS_Union
  <2>2. Cardinality(ToSet(s)) \in Nat /\ Cardinality(ToSet(t)) \in Nat BY FS_CardinalityType
  <2>3. Cardinality(ToSet(s) \cap ToSet(t)) = 0 BY FS_EmptySet
  <2> QED BY <2>1, <2>2, <2>3
<1> QED BY <1>1, <1>2, <1>3

\* The members of a sequence are finitely many.
LEMMA ToSetFinite ==
    ASSUME NEW T, NEW s \in Seq(T)
    PROVE  IsFiniteSet(ToSet(s)) /\ Cardinality(ToSet(s)) <= Len(s) /\ Cardinality(ToSet(s)) \in Nat
<1>1. Len(s) \in Nat /\ DOMAIN s = 1..Len(s) /\ s \in [1..Len(s) -> T] BY LenProperties
<1>2. IsFiniteSet(1..Len(s)) /\ Cardinality(1..Len(s)) = Len(s) BY <1>1, FS_Interval
<1>3. s \in Surjection(1..Len(s), ToSet(s)) BY <1>1 DEF Surjection, ToSet
<1> QED BY <1>2, <1>3, FS_Surjection, FS_CardinalityType

-----------------------------------------------------------------------------
(* Pages of the listing.                                                    *)

LEMMA PageEnds ==
    ASSUME NEW n \in Nat \ {0}
    PROVE  /\ (n - 1) * PageSize \in Nat /\ n * PageSize \in Nat
           /\ n * PageSize = (n - 1) * PageSize + PageSize
BY RulesetAssumption

\* A page that is not full is the last one; a full one ends within the listing.
LEMMA FullPages ==
    ASSUME rulesets \in Seq(Ruleset), Distinct(rulesets), NEW n \in Nat \ {0},
           (n - 1) * PageSize <= Len(rulesets)
    PROVE  /\ IsFiniteSet(Page(n))
           /\ IsLast(n) => Len(rulesets) < n * PageSize
           /\ ~IsLast(n) => n * PageSize <= Len(rulesets)
<1> DEFINE lo == (n - 1) * PageSize
           L == Len(rulesets)
           hi == IF L < lo + PageSize THEN L ELSE lo + PageSize
           D == lo + 1 .. hi
<1>1. lo \in Nat /\ n * PageSize = lo + PageSize /\ PageSize \in Nat \ {0}
  BY PageEnds, RulesetAssumption
<1>2. L \in Nat /\ DOMAIN rulesets = 1..L BY LenProperties
<1> HIDE DEF lo, L
<1>3. DOMAIN rulesets \cap (lo + 1 .. n * PageSize) = D BY <1>1, <1>2
<1>4. Page(n) = {rulesets[i] : i \in D} BY <1>3 DEF Page, lo
<1>5. lo <= L BY DEF lo, L
<1>6. hi \in Nat /\ lo <= hi /\ (hi < lo + PageSize <=> L < lo + PageSize) BY <1>1, <1>2, <1>5
<1>7. IsFiniteSet(D) /\ Cardinality(D) = hi - lo
  <2> HIDE DEF hi
  <2>1. IsFiniteSet(D) /\ Cardinality(D) = IF lo + 1 > hi THEN 0 ELSE hi - (lo + 1) + 1
    <3>1. lo + 1 \in Int /\ hi \in Int BY <1>1, <1>6
    <3> QED BY <3>1, FS_Interval
  <2> QED BY <1>1, <1>6, <2>1
<1> DEFINE b == [i \in D |-> rulesets[i]]
<1>8. \A i \in D : i \in DOMAIN rulesets BY <1>1, <1>2, <1>6
<1>9. b \in Bijection(D, Page(n))
  <2>1. IsInjective(b) BY <1>8 DEF IsInjective, Distinct
  <2>2. b \in [D -> Page(n)] /\ \A t \in Page(n) : \E i \in D : b[i] = t BY <1>4
  <2> QED BY <2>1, <2>2 DEF Bijection, Injection, Surjection
<1>10. IsFiniteSet(Page(n)) /\ Cardinality(Page(n)) = hi - lo
  BY <1>7, <1>9, FS_Bijection DEF ExistsBijection
<1>11. IsLast(n) <=> hi - lo < PageSize BY <1>10 DEF IsLast
<1>12. hi - lo < PageSize <=> L < lo + PageSize BY <1>1, <1>6
<1>13. IsLast(n) <=> L < n * PageSize BY <1>1, <1>11, <1>12
<1> QED BY <1>1, <1>2, <1>10, <1>13 DEF L

\* What a page adds to the ids of a name.
LEMMA PageAdds ==
    ASSUME rulesets \in Seq(Ruleset), Distinct(rulesets), NEW n \in Nat \ {0}, NEW name
    PROVE  LET new == match_by_name(Page(n), name)
               old == IdsUpTo(rulesets, name, (n - 1) * PageSize)
           IN  /\ IsFiniteSet(new) /\ new \subseteq Nat \ {0}
               /\ old \cap new = {}
               /\ old \cup new = IdsUpTo(rulesets, name, n * PageSize)
<1> DEFINE lo == (n - 1) * PageSize
           new == match_by_name(Page(n), name)
           D == {i \in DOMAIN rulesets : lo < i /\ i <= n * PageSize /\ rulesets[i].name = name}
<1>1. lo \in Nat /\ n * PageSize \in Nat /\ lo <= n * PageSize
  <2>1. lo \in Nat /\ n * PageSize = lo + PageSize /\ PageSize \in Nat
    BY PageEnds, RulesetAssumption
  <2> QED BY <2>1
<1>2. Len(rulesets) \in Nat /\ DOMAIN rulesets = 1..Len(rulesets) BY LenProperties
<1>3. \A i \in DOMAIN rulesets : rulesets[i] \in Ruleset BY <1>2, ElementOfSeq
<1> HIDE DEF lo
<1>4. \A i \in DOMAIN rulesets : i \in lo + 1 .. n * PageSize <=> lo < i /\ i <= n * PageSize
  BY <1>1, <1>2
<1>5. new = {rulesets[i].id : i \in D}
  BY <1>4 DEF match_by_name, Page, lo
<1>6. new \subseteq Nat \ {0} BY <1>3, <1>5 DEF Ruleset
<1>7. IsFiniteSet(new)
  <2>1. IsFiniteSet(1..Len(rulesets)) BY <1>2, FS_Interval
  <2>2. IsFiniteSet(D) BY <1>2, <2>1, FS_Subset
  <2> DEFINE f == [i \in D |-> rulesets[i].id]
  <2>3. f \in Surjection(D, new) BY <1>5 DEF Surjection
  <2> QED BY <2>2, <2>3, FS_Surjection
<1>8. IdsUpTo(rulesets, name, lo) \cap new = {}
  BY <1>1, <1>2, <1>5 DEF IdsUpTo, Distinct
<1>9. IdsUpTo(rulesets, name, lo) \cup new = IdsUpTo(rulesets, name, n * PageSize)
  BY <1>1, <1>2, <1>5 DEF IdsUpTo
<1> QED BY <1>6, <1>7, <1>8, <1>9 DEF lo

\* Ids stand for rulesets.
LEMMA IdsStand ==
    ASSUME rulesets \in Seq(Ruleset), Distinct(rulesets), NEW name
    PROVE  /\ \A id : id \in IdsOf(name) <=> \E r \in Named(name) : r.id = id
           /\ IsFiniteSet(Named(name)) /\ Cardinality(Named(name)) \in Nat
           /\ Cardinality(IdsOf(name)) = Cardinality(Named(name))
<1>1. DOMAIN rulesets = 1..Len(rulesets) /\ Len(rulesets) \in Nat BY LenProperties
<1>2. \A id : id \in IdsOf(name) <=> \E r \in Named(name) : r.id = id
  BY <1>1 DEF IdsOf, IdsUpTo, Named, ToSet
<1>3. IsFiniteSet(Named(name)) /\ Cardinality(Named(name)) \in Nat
  BY ToSetFinite, FS_Subset, FS_CardinalityType DEF Named
<1> DEFINE b == [r \in Named(name) |-> r.id]
<1>4. b \in Bijection(Named(name), IdsOf(name))
  <2>1. \A q, r \in Named(name) : q.id = r.id => q = r BY DEF Named, ToSet, Distinct
  <2>2. IsInjective(b) BY <2>1 DEF IsInjective
  <2>3. b \in [Named(name) -> IdsOf(name)] BY <1>2
  <2>4. \A id \in IdsOf(name) : \E r \in Named(name) : b[r] = id BY <1>2
  <2> QED BY <2>2, <2>3, <2>4 DEF Bijection, Injection, Surjection
<1>5. Cardinality(IdsOf(name)) = Cardinality(Named(name))
  BY <1>3, <1>4, FS_Bijection DEF ExistsBijection
<1> QED BY <1>2, <1>3, <1>5

\* One id is one ruleset.
LEMMA OneId ==
    ASSUME rulesets \in Seq(Ruleset), Distinct(rulesets), NEW name, NEW id, IdsOf(name) = {id}
    PROVE  /\ \E r : Named(name) = {r} /\ WithId(id) = {r} /\ r.name = name /\ r \in Ruleset
           /\ Cardinality(Named(name)) = 1
<1>1. PICK r \in Named(name) : r.id = id BY IdsStand
<1>2. \A q \in ToSet(rulesets) : q.id = id => q = r BY <1>1 DEF Named, ToSet, Distinct
<1>3. \A q \in Named(name) : q.id = id BY IdsStand
<1>4. Named(name) = {r} /\ WithId(id) = {r} BY <1>1, <1>2, <1>3 DEF Named, WithId
<1>5. r.name = name BY <1>1 DEF Named
<1>6. r \in Ruleset
  <2>1. DOMAIN rulesets = 1..Len(rulesets) BY LenProperties
  <2> QED BY <1>1, <2>1, ElementOfSeq DEF Named, ToSet
<1> QED BY <1>4, <1>5, <1>6, FS_Singleton

-----------------------------------------------------------------------------
(* The listing.                                                             *)

Runs == [pc : {"idle", "list", "detail", "write", "done"}, mode : Modes \cup {"none"},
         sot : Commits, page : 1 .. MaxPages, matches : Seq(Nat \ {0}),
         live_id : Nat \cup {None}, exit : {None, 0, 1, 2},
         touched : BOOLEAN, garbled : BOOLEAN]

LEMMA TypeGives ==
    ASSUME TypeOK
    PROVE  rulesets \in Seq(Ruleset) /\ Distinct(rulesets) /\ run \in Runs
BY DEF TypeOK, Distinct, Runs

\* A step of a run that touches neither rulesets nor files.
LEMMA RunMoves ==
    ASSUME IInv, UNCHANGED <<rulesets, made, sot, edits>>, troubles' \in 0 .. Troubles,
           run' \in Runs, run'.pc = "write" => run'.mode = "apply",
           (ListedSoFar /\ Joined /\ IdIsKnown /\ AppliedIsLive)'
    PROVE  IInv'
BY DEF IInv, TypeOK, Runs

\* What one GET of the listing finds.
LEMMA GetFinds ==
    ASSUME IInv, run.pc = "list"
    PROVE  LET found == run.matches \o SetToSeq(match_by_name(Page(run.page), run.sot.name))
           IN  /\ found \in Seq(Nat \ {0})
               /\ ~run.touched =>
                    /\ ToSet(found) = IdsUpTo(rulesets, run.sot.name, run.page * PageSize)
                    /\ Len(found) = Cardinality(ToSet(found))
<1> DEFINE new == match_by_name(Page(run.page), run.sot.name)
<1>1. rulesets \in Seq(Ruleset) /\ Distinct(rulesets) /\ run \in Runs BY TypeGives DEF IInv
<1>2. run.page \in Nat \ {0} /\ run.matches \in Seq(Nat \ {0})
  BY <1>1, RulesetAssumption DEF Runs
<1>3. /\ IsFiniteSet(new) /\ new \subseteq Nat \ {0}
      /\ IdsUpTo(rulesets, run.sot.name, (run.page - 1) * PageSize) \cap new = {}
      /\ IdsUpTo(rulesets, run.sot.name, (run.page - 1) * PageSize) \cup new
           = IdsUpTo(rulesets, run.sot.name, run.page * PageSize)
  BY <1>1, <1>2, PageAdds
<1> HIDE DEF new
<1>4. SetToSeq(new) \in Seq(new) /\ Len(SetToSeq(new)) = Cardinality(new) /\ ToSet(SetToSeq(new)) = new
  BY <1>3, SetToSeqLists
<1>5. SetToSeq(new) \in Seq(Nat \ {0}) BY <1>3, <1>4, SeqMonotonic
<1>6. run.matches \o SetToSeq(new) \in Seq(Nat \ {0}) BY <1>2, <1>5, ConcatProperties
<1>7. ASSUME ~run.touched
      PROVE  /\ ToSet(run.matches \o SetToSeq(new)) = IdsUpTo(rulesets, run.sot.name, run.page * PageSize)
             /\ Len(run.matches \o SetToSeq(new)) = Cardinality(ToSet(run.matches \o SetToSeq(new)))
  <2>1. /\ ToSet(run.matches) = IdsUpTo(rulesets, run.sot.name, (run.page - 1) * PageSize)
        /\ Len(run.matches) = Cardinality(ToSet(run.matches))
    BY <1>7 DEF IInv, ListedSoFar
  <2>2. IsFiniteSet(ToSet(run.matches)) BY <1>2, ToSetFinite
  <2>3. ToSet(run.matches) \cap ToSet(SetToSeq(new)) = {} BY <1>3, <1>4, <2>1
  <2>4. /\ ToSet(run.matches \o SetToSeq(new)) = ToSet(run.matches) \cup ToSet(SetToSeq(new))
        /\ Len(run.matches \o SetToSeq(new)) = Cardinality(ToSet(run.matches \o SetToSeq(new)))
    <3>1. /\ IsFiniteSet(ToSet(SetToSeq(new)))
          /\ Len(SetToSeq(new)) = Cardinality(ToSet(SetToSeq(new)))
      BY <1>3, <1>4
    <3> DEFINE old == run.matches
               add == SetToSeq(new)
    <3>2. /\ old \in Seq(Nat \ {0}) /\ add \in Seq(Nat \ {0})
          /\ IsFiniteSet(ToSet(old)) /\ IsFiniteSet(ToSet(add))
          /\ ToSet(old) \cap ToSet(add) = {}
          /\ Len(old) = Cardinality(ToSet(old)) /\ Len(add) = Cardinality(ToSet(add))
      BY <1>2, <1>5, <2>1, <2>2, <2>3, <3>1
    <3> HIDE DEF old, add
    <3>3. /\ ToSet(old \o add) = ToSet(old) \cup ToSet(add)
          /\ Len(old \o add) = Cardinality(ToSet(old \o add))
      BY <3>2, JoinedLists
    <3> QED BY <3>3 DEF old, add
  <2> QED BY <1>3, <1>4, <2>1, <2>4
<1> QED BY <1>6, <1>7 DEF new

\* What the end of a page says of the listing.
LEMMA GetEnds ==
    ASSUME IInv, run.pc = "list", ~run.touched
    PROVE  /\ TooMany(run.page) => Len(rulesets) >= PageSize * MaxPages
           /\ IsLast(run.page) =>
                IdsUpTo(rulesets, run.sot.name, run.page * PageSize) = IdsOf(run.sot.name)
           /\ ~IsLast(run.page) => run.page * PageSize <= Len(rulesets)
<1>1. rulesets \in Seq(Ruleset) /\ Distinct(rulesets) /\ run \in Runs BY TypeGives DEF IInv
<1>2. run.page \in Nat \ {0} BY <1>1, RulesetAssumption DEF Runs
<1>3. (run.page - 1) * PageSize <= Len(rulesets) BY DEF IInv, ListedSoFar
<1>4. /\ IsLast(run.page) => Len(rulesets) < run.page * PageSize
      /\ ~IsLast(run.page) => run.page * PageSize <= Len(rulesets)
  BY <1>1, <1>2, <1>3, FullPages
<1>5. ASSUME TooMany(run.page) PROVE Len(rulesets) >= PageSize * MaxPages
  <2>1. run.page = MaxPages /\ ~IsLast(run.page) BY <1>5 DEF TooMany
  <2>2. MaxPages * PageSize = PageSize * MaxPages BY RulesetAssumption
  <2> QED BY <1>4, <2>1, <2>2
<1>6. ASSUME IsLast(run.page)
      PROVE  IdsUpTo(rulesets, run.sot.name, run.page * PageSize) = IdsOf(run.sot.name)
  <2>1. Len(rulesets) < run.page * PageSize BY <1>4, <1>6
  <2>2. DOMAIN rulesets = 1..Len(rulesets) /\ Len(rulesets) \in Nat BY <1>1, LenProperties
  <2>3. run.page * PageSize \in Nat BY <1>2, PageEnds
  <2>4. \A i \in DOMAIN rulesets : i <= run.page * PageSize /\ i <= Len(rulesets)
    BY <2>1, <2>2, <2>3
  <2> QED BY <2>4 DEF IdsOf, IdsUpTo
<1> QED BY <1>4, <1>5, <1>6

\* A listing that has come to its end: the run is resolved.
LEMMA ResolvedKeeps ==
    ASSUME IInv, UNCHANGED <<rulesets, made, sot, edits>>, troubles' \in 0 .. Troubles,
           NEW job \in Runs, run' = Resolved(job), job.pc = "list", job.live_id = None,
           ~job.touched => /\ ToSet(job.matches) = IdsOf(job.sot.name)
                           /\ Len(job.matches) = Cardinality(IdsOf(job.sot.name))
    PROVE  IInv'
<1>1. rulesets \in Seq(Ruleset) /\ Distinct(rulesets) BY TypeGives DEF IInv
<1>2. job.matches \in Seq(Nat \ {0}) /\ Len(job.matches) \in Nat
  BY LenProperties DEF Runs
<1>3. /\ \A n \in Nat : n = 0 \/ n = 1 \/ n > 1
      /\ \A n \in Nat : n > 1 => n # 0 /\ n # 1
      /\ Len(job.matches) \in Nat
  <2>1. \A n \in Nat : (n = 0 \/ n = 1 \/ n > 1) /\ (n > 1 => n # 0 /\ n # 1) OBVIOUS
  <2> QED BY <1>2, <2>1
<1>4. IsFiniteSet(ToSet(job.matches)) BY <1>2, ToSetFinite
<1>5. CASE Len(job.matches) = 0
  <2>1. ~job.touched => IdsOf(job.sot.name) = {} BY <1>4, <1>5, FS_EmptySet
  <2>2. run' = Absent(job) BY <1>5 DEF Resolved
  <2>3. CASE job.mode = "apply"
    <3>1. run' = [job EXCEPT !.pc = "write"] BY <2>2, <2>3 DEF Absent
    <3>2. run' \in Runs /\ run'.pc = "write" /\ run'.mode = "apply" BY <2>3, <3>1 DEF Runs
    <3>3. Joined' BY <2>1, <3>1 DEF Joined, IdsOf, Runs
    <3>4. (ListedSoFar /\ IdIsKnown /\ AppliedIsLive)'
      BY <3>2 DEF ListedSoFar, IdIsKnown, AppliedIsLive
    <3> QED BY <3>2, <3>3, <3>4, RunMoves
  <2>4. CASE job.mode # "apply"
    <3>1. run' = Ended(job, 0) \/ run' = Ended(job, 2) BY <2>2, <2>4 DEF Absent
    <3>2. run' \in Runs /\ run'.pc = "done" /\ run'.mode = job.mode BY <3>1 DEF Runs, Ended
    <3>3. (ListedSoFar /\ Joined /\ IdIsKnown /\ AppliedIsLive)'
      BY <2>4, <3>2 DEF ListedSoFar, Joined, IdIsKnown, AppliedIsLive
    <3> QED BY <3>2, <3>3, RunMoves
  <2> QED BY <2>3, <2>4
<1>6. CASE Len(job.matches) = 1
  <2>1. run' = [job EXCEPT !.pc = "detail", !.live_id = job.matches[1]] BY <1>6 DEF Resolved
  <2>2. DOMAIN job.matches = {1} /\ job.matches[1] \in Nat \ {0} BY <1>2, <1>6, LenProperties, ElementOfSeq
  <2>3. ToSet(job.matches) = {job.matches[1]} BY <2>2 DEF ToSet
  <2>4. job.matches[1] # None BY <2>2, RulesetAssumption
  <2>5. run' \in Runs /\ run'.pc = "detail" /\ run'.live_id = job.matches[1]
    BY <2>1, <2>2 DEF Runs
  <2>6. Joined' BY <2>1, <2>3, <2>4, <2>5 DEF Joined, IdsOf, Runs
  <2>7. (ListedSoFar /\ IdIsKnown /\ AppliedIsLive)'
    BY <2>4, <2>5 DEF ListedSoFar, IdIsKnown, AppliedIsLive
  <2> QED BY <2>5, <2>6, <2>7, RunMoves
<1>7. CASE Len(job.matches) > 1
  <2>0. Len(job.matches) # 0 /\ Len(job.matches) # 1 BY <1>3, <1>7
  <2>1. run' = Ended(job, 1) BY <2>0 DEF Resolved
  <2>2. run' \in Runs /\ run'.pc = "done" /\ run'.exit = 1 BY <2>1 DEF Runs, Ended
  <2>3. (ListedSoFar /\ Joined /\ IdIsKnown /\ AppliedIsLive)'
    BY <2>2 DEF ListedSoFar, Joined, IdIsKnown, AppliedIsLive
  <2> QED BY <2>2, <2>3, RunMoves
<1>8. Len(job.matches) = 0 \/ Len(job.matches) = 1 \/ Len(job.matches) > 1 BY <1>3
<1> QED BY <1>5, <1>6, <1>7, <1>8

LEMMA ListKeeps ==
    ASSUME IInv, run.pc = "list", run' = Listed(run),
           UNCHANGED <<rulesets, made, sot, edits, troubles>>
    PROVE  IInv'
<1> DEFINE more  == run.matches \o SetToSeq(match_by_name(Page(run.page), run.sot.name))
           found == [run EXCEPT !.matches = more]
<1>1. rulesets \in Seq(Ruleset) /\ Distinct(rulesets) /\ run \in Runs BY TypeGives DEF IInv
<1>2. run.page \in Nat \ {0} /\ run.page \in 1 .. MaxPages /\ MaxPages \in Nat
  BY <1>1, RulesetAssumption DEF Runs
<1>3. /\ more \in Seq(Nat \ {0})
      /\ ~run.touched =>
           /\ ToSet(more) = IdsUpTo(rulesets, run.sot.name, run.page * PageSize)
           /\ Len(more) = Cardinality(ToSet(more))
  BY GetFinds
<1> HIDE DEF more
<1>4. found \in Runs /\ found.pc = "list" /\ found.live_id = None
      /\ found.touched = run.touched /\ found.sot = run.sot /\ found.page = run.page
      /\ found.matches = more
  BY <1>1, <1>3 DEF Runs, IInv, IdIsKnown
<1>5. ~run.touched =>
        /\ IsLast(run.page) =>
             IdsUpTo(rulesets, run.sot.name, run.page * PageSize) = IdsOf(run.sot.name)
        /\ ~IsLast(run.page) => run.page * PageSize <= Len(rulesets)
  BY GetEnds
<1>6. run' = IF TooMany(run.page) THEN Ended(found, 1)
             ELSE IF IsLast(run.page) THEN Resolved(found)
             ELSE [found EXCEPT !.page = @ + 1]
  BY DEF Listed, more
<1>7. troubles' \in 0 .. Troubles BY DEF IInv, TypeOK
<1> HIDE DEF found
<1>8. CASE TooMany(run.page)
  <2>1. run' = Ended(found, 1) BY <1>6, <1>8
  <2>2. run' \in Runs /\ run'.pc = "done" /\ run'.exit = 1 BY <1>4, <2>1 DEF Runs, Ended
  <2>3. (ListedSoFar /\ Joined /\ IdIsKnown /\ AppliedIsLive)'
    BY <2>2 DEF ListedSoFar, Joined, IdIsKnown, AppliedIsLive
  <2> QED BY <1>7, <2>2, <2>3, RunMoves
<1>9. CASE ~TooMany(run.page) /\ IsLast(run.page)
  <2>1. run' = Resolved(found) BY <1>6, <1>9
  <2>2. ~found.touched => /\ ToSet(found.matches) = IdsOf(found.sot.name)
                          /\ Len(found.matches) = Cardinality(IdsOf(found.sot.name))
    BY <1>3, <1>4, <1>5, <1>9
  <2> QED BY <1>4, <1>7, <2>1, <2>2, ResolvedKeeps
<1>10. CASE ~TooMany(run.page) /\ ~IsLast(run.page)
  <2>1. run' = [found EXCEPT !.page = @ + 1] BY <1>6, <1>10
  <2>2. run.page # MaxPages BY <1>10 DEF TooMany
  <2>3. run.page + 1 \in 1 .. MaxPages /\ (run.page + 1) - 1 = run.page BY <1>2, <2>2
  <2>4. run' \in Runs /\ run'.pc = "list" /\ run'.page = run.page + 1 /\ run'.matches = more
        /\ run'.sot = run.sot /\ run'.touched = run.touched /\ run'.live_id = None
    <3>1. run' = [found EXCEPT !.page = run.page + 1] BY <1>4, <2>1
    <3>2. run' \in Runs BY <1>4, <2>3, <3>1 DEF Runs
    <3>3. found.pc = run'.pc /\ run'.page = run.page + 1 /\ found.matches = run'.matches
          /\ found.sot = run'.sot /\ found.touched = run'.touched /\ found.live_id = run'.live_id
      BY <1>4, <3>1 DEF Runs
    <3> QED BY <1>4, <3>2, <3>3
  <2>5. (run'.page - 1) * PageSize = run.page * PageSize BY <2>3, <2>4
  <2>6. ListedSoFar'
    BY <1>3, <1>5, <1>10, <2>4, <2>5 DEF ListedSoFar
  <2>7. (Joined /\ IdIsKnown /\ AppliedIsLive)'
    BY <2>4 DEF Joined, IdIsKnown, AppliedIsLive
  <2> QED BY <1>7, <2>4, <2>6, <2>7, RunMoves
<1> QED BY <1>8, <1>9, <1>10

-----------------------------------------------------------------------------
(* The other steps of a run.                                                *)

\* A run that ends with 1 or 2 is over, and not well.
LEMMA EndsBadly ==
    ASSUME NEW job \in Runs, NEW code \in {1, 2}
    PROVE  /\ Ended(job, code) \in Runs /\ Ended(job, code).pc = "done"
           /\ Ended(job, code).exit # 0
<1>1. code # 0 /\ code \in {None, 0, 1, 2} OBVIOUS
<1>2. Ended(job, code).exit = code BY DEF Runs, Ended
<1>3. Ended(job, code) \in Runs /\ Ended(job, code).pc = "done" BY <1>1 DEF Runs, Ended
<1> QED BY <1>1, <1>2, <1>3

LEMMA DetailKeeps ==
    ASSUME IInv, run.pc = "detail", run' = Detailed(run),
           UNCHANGED <<rulesets, made, sot, edits, troubles>>
    PROVE  IInv'
<1>1. rulesets \in Seq(Ruleset) /\ Distinct(rulesets) /\ run \in Runs BY TypeGives DEF IInv
<1>2. troubles' \in 0 .. Troubles BY DEF IInv, TypeOK
<1>3. run.live_id # None /\ (~run.touched => IdsOf(run.sot.name) = {run.live_id})
  BY DEF IInv, IdIsKnown, Joined
<1>4. CASE WithId(run.live_id) = {}
  <2>1. PICK code \in {1, 2} : run' = Ended(run, code) BY <1>4 DEF Detailed, Unread
  <2>2. run' \in Runs /\ run'.pc = "done" /\ run'.exit # 0 BY <1>1, <2>1, EndsBadly
  <2>3. (ListedSoFar /\ Joined /\ IdIsKnown /\ AppliedIsLive)'
    BY <2>2 DEF ListedSoFar, Joined, IdIsKnown, AppliedIsLive
  <2> QED BY <1>2, <2>2, <2>3, RunMoves
<1>5. CASE WithId(run.live_id) # {}
  <2> DEFINE live == CHOOSE r \in WithId(run.live_id) : TRUE
  <2>1. run' = Found(run, live) BY <1>5 DEF Detailed
  <2> HIDE DEF live
  <2>2. CASE run.mode = "apply"
    <3>1. run' = [run EXCEPT !.pc = "write"] BY <2>1, <2>2 DEF Found
    <3>2. run' \in Runs /\ run'.pc = "write" /\ run'.mode = "apply" BY <1>1, <2>2, <3>1 DEF Runs
    <3>3. Joined' BY <1>1, <1>3, <3>1 DEF Joined, IdsOf, Runs
    <3>4. (ListedSoFar /\ IdIsKnown /\ AppliedIsLive)'
      BY <3>2 DEF ListedSoFar, IdIsKnown, AppliedIsLive
    <3> QED BY <1>2, <3>2, <3>3, <3>4, RunMoves
  <2>3. CASE run.mode # "apply"
    <3>1. PICK code \in {0, 1} : run' = Ended(run, code) BY <2>1, <2>3 DEF Found
    <3>2. run' \in Runs /\ run'.pc = "done" /\ run'.mode # "apply"
      BY <1>1, <2>3, <3>1 DEF Runs, Ended
    <3>3. (ListedSoFar /\ Joined /\ IdIsKnown /\ AppliedIsLive)'
      BY <3>2 DEF ListedSoFar, Joined, IdIsKnown, AppliedIsLive
    <3> QED BY <1>2, <3>2, <3>3, RunMoves
  <2> QED BY <2>2, <2>3
<1> QED BY <1>4, <1>5

\* A run that could not read, could not use what it read or was refused does
\* not end well.
LEMMA FailuresKeep == ASSUME IInv, ReadFails \/ ReadIsNoRuleset \/ WriteFails PROVE IInv'
<1>1. run \in Runs BY TypeGives DEF IInv
<1>2. UNCHANGED <<rulesets, made, sot, edits>> BY DEF ReadFails, ReadIsNoRuleset, WriteFails
<1>3. troubles' \in 0 .. Troubles
  BY RulesetAssumption DEF ReadFails, ReadIsNoRuleset, WriteFails, Trouble, IInv, TypeOK
<1>4. PICK code \in {1, 2} :
        run' = Ended(run, code) \/ run' = [Ended(run, code) EXCEPT !.garbled = TRUE]
  BY DEF ReadFails, ReadIsNoRuleset, WriteFails, Unread
<1>5. run' \in Runs /\ run'.pc = "done" /\ run'.exit # 0
  <2> DEFINE end == Ended(run, code)
  <2>1. end \in Runs /\ end.pc = "done" /\ end.exit # 0 BY <1>1, EndsBadly
  <2>2. run' = end \/ run' = [end EXCEPT !.garbled = TRUE] BY <1>4
  <2> HIDE DEF end
  <2>3. run' \in Runs /\ run'.pc = end.pc /\ run'.exit = end.exit BY <2>1, <2>2 DEF Runs
  <2> QED BY <2>1, <2>3
<1>6. (ListedSoFar /\ Joined /\ IdIsKnown /\ AppliedIsLive)'
  BY <1>5 DEF ListedSoFar, Joined, IdIsKnown, AppliedIsLive
<1> QED BY <1>2, <1>3, <1>5, <1>6, RunMoves

LEMMA StartKeeps == ASSUME IInv, NEW mode \in Modes, Start(mode) PROVE IInv'
<1>1. /\ UNCHANGED <<rulesets, made, sot, edits, troubles>>
      /\ run' = [NoRun(sot) EXCEPT !.pc = "list", !.mode = mode]
  BY DEF Start
<1>2. <<>> \in Seq(Nat \ {0}) /\ 1 \in 1 .. MaxPages BY RulesetAssumption
<1>3. /\ run' \in Runs /\ run'.pc = "list" /\ run'.page = 1 /\ run'.matches = <<>>
      /\ run'.live_id = None
  BY <1>1, <1>2 DEF NoRun, Runs, IInv, TypeOK
<1>4. ListedSoFar'
  <2>1. rulesets \in Seq(Ruleset) BY DEF IInv, TypeOK
  <2>2. DOMAIN rulesets = 1..Len(rulesets) /\ Len(rulesets) \in Nat BY <2>1, LenProperties
  <2>3. (1 - 1) * PageSize = 0 BY RulesetAssumption
  <2>4. \A name : IdsUpTo(rulesets, name, 0) = {} BY <2>2 DEF IdsUpTo
  <2>5. ToSet(<<>>) = {} BY DEF ToSet
  <2>6. Len(<<>>) = Cardinality(ToSet(<<>>)) BY <2>5, FS_EmptySet
  <2>7. (run'.page - 1) * PageSize = 0 /\ 0 <= Len(rulesets') BY <1>1, <1>3, <2>2, <2>3
  <2>8. ToSet(run'.matches) = IdsUpTo(rulesets', run'.sot.name, 0) BY <1>1, <1>3, <2>4, <2>5
  <2> QED BY <1>3, <2>6, <2>7, <2>8 DEF ListedSoFar
<1>5. (Joined /\ IdIsKnown /\ AppliedIsLive)'
  BY <1>3 DEF Joined, IdIsKnown, AppliedIsLive
<1>6. troubles' \in 0 .. Troubles BY <1>1 DEF IInv, TypeOK
<1> QED BY <1>1, <1>3, <1>4, <1>5, <1>6, RunMoves

-----------------------------------------------------------------------------
(* What the write leaves behind.                                            *)

\* The ruleset a write stores.
Stored(id, is) == [id |-> id, name |-> run.sot.name, is |-> is]

\* Named, of a listing that is not the current one.
NamedIn(s, name) == {r \in ToSet(s) : r.name = name}

LEMMA StoreTypes ==
    ASSUME TypeOK, run.pc = "write", NEW is \in Contents, Stores(is)
    PROVE  /\ rulesets' \in Seq(Ruleset) /\ made' \in Nat /\ Distinct(rulesets')
           /\ \A i \in DOMAIN rulesets' : rulesets'[i].id <= made'
           /\ run.live_id = None => rulesets' = Append(rulesets, Stored(made + 1, is))
           /\ run.live_id # None =>
                /\ DOMAIN rulesets' = DOMAIN rulesets
                /\ \A i \in DOMAIN rulesets :
                     rulesets'[i] = IF rulesets[i].id = run.live_id THEN Stored(run.live_id, is)
                                    ELSE rulesets[i]
<1>1. rulesets \in Seq(Ruleset) /\ Distinct(rulesets) /\ run \in Runs /\ made \in Nat
  BY TypeGives DEF TypeOK
<1>2. DOMAIN rulesets = 1..Len(rulesets) /\ Len(rulesets) \in Nat BY <1>1, LenProperties
<1>3. \A i \in DOMAIN rulesets : rulesets[i] \in Ruleset /\ rulesets[i].id <= made
  BY <1>1, <1>2, ElementOfSeq DEF TypeOK
<1>4. run.sot.name \in Names BY <1>1, RulesetAssumption DEF Runs
<1>5. CASE run.live_id = None
  <2>1. rulesets' = Append(rulesets, Stored(made + 1, is)) /\ made' = made + 1
    BY <1>5 DEF Stores, Stored
  <2>2. Stored(made + 1, is) \in Ruleset /\ Stored(made + 1, is).id = made + 1
    BY <1>1, <1>4 DEF Stored, Ruleset
  <2>3. /\ rulesets' \in Seq(Ruleset) /\ DOMAIN rulesets' = 1..(Len(rulesets) + 1)
        /\ \A i \in 1..Len(rulesets) : rulesets'[i] = rulesets[i]
        /\ rulesets'[Len(rulesets) + 1] = Stored(made + 1, is)
    BY <1>1, <1>2, <2>1, <2>2, AppendProperties, LenProperties
  <2>4. \A i \in DOMAIN rulesets' : /\ rulesets'[i].id <= made'
                                    /\ i \in DOMAIN rulesets \/ i = Len(rulesets) + 1
    BY <1>1, <1>2, <1>3, <2>1, <2>2, <2>3 DEF Ruleset
  <2>5. \A i \in DOMAIN rulesets : rulesets'[i].id # made + 1
    <3>1. \A i \in DOMAIN rulesets : rulesets[i].id \in Nat BY <1>3 DEF Ruleset
    <3> QED BY <1>1, <1>2, <1>3, <2>3, <3>1
  <2>6. Distinct(rulesets')
    <3>1. \A i, j \in DOMAIN rulesets : rulesets'[i].id = rulesets'[j].id => i = j
      BY <1>1, <1>2, <2>3 DEF Distinct
    <3>2. rulesets'[Len(rulesets) + 1].id = made + 1 BY <2>2, <2>3
    <3> QED BY <2>4, <2>5, <3>1, <3>2 DEF Distinct
  <2> QED BY <1>1, <1>5, <2>1, <2>3, <2>4, <2>6
<1>6. CASE run.live_id # None
  <2>1. /\ rulesets' = [i \in DOMAIN rulesets |->
                         IF rulesets[i].id = run.live_id THEN Stored(run.live_id, is) ELSE rulesets[i]]
        /\ made' = made
    BY <1>6 DEF Stores, Stored
  <2>2. \A i \in DOMAIN rulesets : rulesets'[i] \in Ruleset /\ rulesets'[i].id = rulesets[i].id
    BY <1>3, <1>4, <2>1 DEF Stored, Ruleset
  <2>3. rulesets' \in Seq(Ruleset)
    <3>1. DOMAIN rulesets' = 1..Len(rulesets) BY <1>2, <2>1
    <3>2. rulesets' \in [1..Len(rulesets) -> Ruleset] BY <1>2, <2>1, <2>2
    <3> QED BY <1>2, <3>2, SeqDef
  <2>4. Distinct(rulesets') BY <1>1, <2>1, <2>2 DEF Distinct
  <2> QED BY <1>1, <1>3, <1>6, <2>1, <2>2, <2>3, <2>4
<1> QED BY <1>5, <1>6

\* An undisturbed write stores the only ruleset of the name and leaves those of
\* other names alone.
LEMMA StoreIsAlone ==
    ASSUME IInv, run.pc = "write", ~run.touched, NEW is \in Contents, Stores(is)
    PROVE  /\ \E id : NamedIn(rulesets', run.sot.name) = {Stored(id, is)}
           /\ \A r \in ToSet(rulesets) : r.name # run.sot.name => r \in ToSet(rulesets')
           /\ Named(run.sot.name) # {} => Len(rulesets') = Len(rulesets)
<1>1. rulesets \in Seq(Ruleset) /\ Distinct(rulesets) BY TypeGives DEF IInv
<1>2. DOMAIN rulesets = 1..Len(rulesets) /\ Len(rulesets) \in Nat BY <1>1, LenProperties
<1>3. /\ rulesets' \in Seq(Ruleset)
      /\ run.live_id = None => rulesets' = Append(rulesets, Stored(made + 1, is))
      /\ run.live_id # None =>
           /\ DOMAIN rulesets' = DOMAIN rulesets
           /\ \A i \in DOMAIN rulesets :
                rulesets'[i] = IF rulesets[i].id = run.live_id THEN Stored(run.live_id, is)
                               ELSE rulesets[i]
  BY StoreTypes DEF IInv
<1>4. IdsOf(run.sot.name) = IF run.live_id = None THEN {} ELSE {run.live_id}
  BY DEF IInv, Joined
<1>5. CASE run.live_id = None
  <2>1. Named(run.sot.name) = {} BY <1>1, <1>4, <1>5, IdsStand
  <2>2. /\ DOMAIN rulesets' = 1..(Len(rulesets) + 1)
        /\ \A i \in 1..Len(rulesets) : rulesets'[i] = rulesets[i]
        /\ rulesets'[Len(rulesets) + 1] = Stored(made + 1, is)
    BY <1>1, <1>2, <1>3, <1>5, AppendProperties, LenProperties
  <2>3. ToSet(rulesets') = ToSet(rulesets) \cup {Stored(made + 1, is)}
    BY <1>2, <2>2 DEF ToSet
  <2>4. NamedIn(rulesets', run.sot.name) = {Stored(made + 1, is)}
    BY <2>1, <2>3 DEF NamedIn, Named, Stored
  <2> QED BY <2>1, <2>3, <2>4
<1>6. CASE run.live_id # None
  <2>1. PICK r : /\ Named(run.sot.name) = {r} /\ WithId(run.live_id) = {r}
                 /\ r.name = run.sot.name /\ r \in Ruleset
    <3>1. IdsOf(run.sot.name) = {run.live_id} BY <1>4, <1>6
    <3>2. /\ \E r : /\ Named(run.sot.name) = {r} /\ WithId(run.live_id) = {r}
                     /\ r.name = run.sot.name /\ r \in Ruleset
          /\ Cardinality(Named(run.sot.name)) = 1
      BY <1>1, <3>1, OneId, Zenon
    <3> QED BY <3>2
  <2>2. \A i \in DOMAIN rulesets : rulesets[i].name = run.sot.name <=> rulesets[i].id = run.live_id
    <3>1. \A q \in ToSet(rulesets) : q.name = run.sot.name <=> q = r BY <2>1 DEF Named
    <3>2. \A q \in ToSet(rulesets) : q.id = run.live_id <=> q = r BY <2>1 DEF WithId
    <3>3. \A i \in DOMAIN rulesets : rulesets[i] \in ToSet(rulesets) BY DEF ToSet
    <3> QED BY <3>1, <3>2, <3>3
  <2>3. \E i \in DOMAIN rulesets : rulesets[i].id = run.live_id
    BY <2>1 DEF WithId, ToSet
  <2>4. NamedIn(rulesets', run.sot.name) = {Stored(run.live_id, is)}
    <3>1. \A i \in DOMAIN rulesets' : rulesets'[i].name = run.sot.name =>
                                       rulesets'[i] = Stored(run.live_id, is)
      BY <1>3, <1>6, <2>2
    <3>2. \E i \in DOMAIN rulesets' : rulesets'[i] = Stored(run.live_id, is)
      BY <1>3, <1>6, <2>3
    <3>3. Stored(run.live_id, is).name = run.sot.name BY DEF Stored
    <3> QED BY <3>1, <3>2, <3>3 DEF NamedIn, ToSet
  <2>5. \A q \in ToSet(rulesets) : q.name # run.sot.name => q \in ToSet(rulesets')
    <3>1. \A i \in DOMAIN rulesets : rulesets[i].name # run.sot.name =>
              i \in DOMAIN rulesets' /\ rulesets'[i] = rulesets[i]
      BY <1>3, <1>6, <2>2
    <3> QED BY <3>1 DEF ToSet
  <2>6. Len(rulesets') = Len(rulesets)
    <3>1. DOMAIN rulesets' = 1..Len(rulesets) BY <1>2, <1>3, <1>6
    <3>2. DOMAIN rulesets' = 1..Len(rulesets') /\ Len(rulesets') \in Nat BY <1>3, LenProperties
    <3>3. \A m, n \in Nat : 1..m = 1..n => m = n
      <4>1. SUFFICES ASSUME NEW m \in Nat, NEW n \in Nat, 1..m = 1..n, m < n PROVE FALSE
        OBVIOUS
      <4>2. n \in 1..n /\ n \notin 1..m BY <4>1
      <4> QED BY <4>1, <4>2
    <3> QED BY <1>2, <3>1, <3>2, <3>3
  <2> QED BY <2>4, <2>5, <2>6
<1> QED BY <1>5, <1>6

\* What passes the check after a write is the file, with GitHub's defaults or
\* without.
LEMMA VerifiedIsKept ==
    ASSUME NEW file, file.is \in Contents, NEW is \in Contents, verify_applied(file, is)
    PROVE  is \in Kept(file)
<1>1. is.checks = file.is.checks /\ is.bypass = file.is.bypass BY DEF verify_applied
<1>2. is.defaults = file.is.defaults \/ is.defaults = TRUE BY DEF verify_applied, Contents
<1>3. CASE is.defaults = file.is.defaults
  <2>1. is = file.is BY <1>1, <1>3 DEF Contents
  <2> QED BY <2>1 DEF Kept
<1>4. CASE is.defaults = TRUE
  <2> DEFINE full == [file.is EXCEPT !.defaults = TRUE]
  <2>1. /\ full \in Contents /\ full.defaults = TRUE
        /\ full.checks = file.is.checks /\ full.bypass = file.is.bypass
    BY DEF Contents
  <2> HIDE DEF full
  <2>2. is = full BY <1>1, <1>4, <2>1 DEF Contents
  <2> QED BY <2>2 DEF Kept, full
<1> QED BY <1>2, <1>3, <1>4

LEMMA WriteKeeps == ASSUME IInv, Write PROVE IInv'
<1>1. PICK is \in Contents, answered \in BOOLEAN :
        /\ Stores(is)
        /\ IF answered /\ is \in Kept(run.sot) THEN UNCHANGED troubles ELSE Trouble
        /\ run' = Ended(run, IF answered /\ verify_applied(run.sot, is) THEN 0 ELSE 1)
  BY DEF Write
<1>2. UNCHANGED <<sot, edits>> /\ run.pc = "write" BY DEF Write
<1>3. run \in Runs /\ run.mode = "apply" BY <1>2 DEF IInv, TypeOK, Runs
<1>4. troubles' \in 0 .. Troubles BY <1>1, RulesetAssumption DEF Trouble, IInv, TypeOK
<1>5. /\ run' \in Runs /\ run'.pc = "done" /\ run'.mode = "apply"
      /\ run'.sot = run.sot /\ run'.touched = run.touched
      /\ run'.exit = 0 => is \in Kept(run.sot)
  <2>1. PICK code \in {0, 1} :
          run' = Ended(run, code) /\ (code = 0 => verify_applied(run.sot, is))
    BY <1>1
  <2>2. run.sot.is \in Contents BY <1>3, RulesetAssumption DEF Runs
  <2>3. verify_applied(run.sot, is) => is \in Kept(run.sot) BY <2>2, VerifiedIsKept
  <2> QED BY <1>3, <2>1, <2>3 DEF Runs, Ended
<1>6. /\ rulesets' \in Seq(Ruleset) /\ made' \in Nat /\ Distinct(rulesets')
      /\ \A i \in DOMAIN rulesets' : rulesets'[i].id <= made'
  BY <1>1, <1>2, StoreTypes DEF IInv
<1>7. TypeOK' BY <1>2, <1>4, <1>5, <1>6 DEF TypeOK, Distinct, IInv, Runs
<1>8. AppliedIsLive'
  <2>1. ASSUME ~run.touched, run'.exit = 0
        PROVE  /\ Cardinality(NamedIn(rulesets', run.sot.name)) = 1
               /\ \A r \in NamedIn(rulesets', run.sot.name) : r.is \in Kept(run.sot)
    <3>1. PICK id : NamedIn(rulesets', run.sot.name) = {Stored(id, is)}
      BY <1>1, <1>2, <2>1, StoreIsAlone
    <3>2. Stored(id, is).is \in Kept(run.sot) BY <1>5, <2>1 DEF Stored
    <3>3. Cardinality({Stored(id, is)}) = 1 BY FS_Singleton
    <3> QED BY <3>1, <3>2, <3>3
  <2> QED BY <1>5, <2>1 DEF AppliedIsLive, Named, NamedIn
<1>9. (ListedSoFar /\ Joined /\ IdIsKnown)'
  BY <1>5 DEF ListedSoFar, Joined, IdIsKnown
<1> QED BY <1>7, <1>8, <1>9 DEF IInv

-----------------------------------------------------------------------------
(* People.                                                                  *)

\* A disturbed run claims nothing: only the types are left to keep.
LEMMA EditKeeps ==
    ASSUME IInv, Edit, rulesets' \in Seq(Ruleset), made' \in Nat, Distinct(rulesets'),
           \A i \in DOMAIN rulesets' : rulesets'[i].id <= made'
    PROVE  IInv'
<1>1. /\ run' = [run EXCEPT !.touched = TRUE] /\ UNCHANGED <<sot, troubles>>
      /\ edits < Edits /\ edits' = edits + 1
  BY DEF Edit
<1>2. run \in Runs BY TypeGives DEF IInv
<1>3. /\ run' \in Runs /\ run'.touched = TRUE /\ run'.pc = run.pc /\ run'.mode = run.mode
      /\ run'.live_id = run.live_id
  BY <1>1, <1>2 DEF Runs
<1>4. edits' \in 0 .. Edits BY <1>1, RulesetAssumption DEF IInv, TypeOK
<1>5. TypeOK' BY <1>1, <1>3, <1>4 DEF IInv, TypeOK, Distinct, Runs
<1>6. IdIsKnown' BY <1>3 DEF IInv, IdIsKnown
<1>7. (ListedSoFar /\ Joined /\ AppliedIsLive)'
  BY <1>3 DEF ListedSoFar, Joined, AppliedIsLive
<1> QED BY <1>5, <1>6, <1>7 DEF IInv

LEMMA CreateKeeps ==
    ASSUME IInv, NEW name \in Names, NEW is \in Contents, CreateByHand(name, is)
    PROVE  IInv'
<1> DEFINE new == [id |-> made + 1, name |-> name, is |-> is]
<1>1. Edit /\ rulesets' = Append(rulesets, new) /\ made' = made + 1 BY DEF CreateByHand
<1>2. rulesets \in Seq(Ruleset) /\ Distinct(rulesets) /\ made \in Nat
  BY TypeGives DEF IInv, TypeOK
<1>3. DOMAIN rulesets = 1..Len(rulesets) /\ Len(rulesets) \in Nat BY <1>2, LenProperties
<1>4. \A i \in DOMAIN rulesets : rulesets[i].id \in Nat /\ rulesets[i].id <= made
  <2>1. \A i \in DOMAIN rulesets : rulesets[i].id <= made BY DEF IInv, TypeOK
  <2>2. \A i \in DOMAIN rulesets : rulesets[i] \in Ruleset BY <1>2, <1>3, ElementOfSeq
  <2> QED BY <2>1, <2>2 DEF Ruleset
<1>5. new \in Ruleset /\ new.id = made + 1 BY <1>2 DEF Ruleset
<1> HIDE DEF new
<1>6. /\ rulesets' \in Seq(Ruleset) /\ DOMAIN rulesets' = 1..(Len(rulesets) + 1)
      /\ \A i \in 1..Len(rulesets) : rulesets'[i] = rulesets[i]
      /\ rulesets'[Len(rulesets) + 1] = new
  BY <1>1, <1>2, <1>3, <1>5, AppendProperties, LenProperties
<1>7. \A i \in DOMAIN rulesets' : i \in DOMAIN rulesets \/ i = Len(rulesets) + 1
  BY <1>3, <1>6
<1>8. \A i \in DOMAIN rulesets : rulesets'[i].id # made + 1 /\ rulesets'[i].id <= made + 1
  <2>1. \A i \in DOMAIN rulesets : rulesets'[i] = rulesets[i] BY <1>3, <1>6
  <2>2. \A n \in Nat : n <= made => n # made + 1 /\ n <= made + 1 BY <1>2
  <2> SUFFICES ASSUME NEW i \in DOMAIN rulesets
               PROVE  rulesets'[i].id # made + 1 /\ rulesets'[i].id <= made + 1
    OBVIOUS
  <2>3. rulesets'[i].id \in Nat /\ rulesets'[i].id <= made BY <1>4, <2>1
  <2> QED BY <2>2, <2>3
<1>9. \A i \in DOMAIN rulesets' : rulesets'[i].id <= made'
  BY <1>1, <1>2, <1>5, <1>6, <1>7, <1>8
<1>10. Distinct(rulesets')
  <2>1. \A i, j \in DOMAIN rulesets : rulesets'[i].id = rulesets'[j].id => i = j
    BY <1>2, <1>3, <1>6 DEF Distinct
  <2>2. rulesets'[Len(rulesets) + 1].id = made + 1 BY <1>5, <1>6
  <2> QED BY <1>7, <1>8, <2>1, <2>2 DEF Distinct
<1>11. made' \in Nat BY <1>1, <1>2
<1> QED BY <1>1, <1>6, <1>9, <1>10, <1>11, EditKeeps

LEMMA ChangeKeeps ==
    ASSUME IInv, NEW i \in DOMAIN rulesets, NEW name \in Names, NEW is \in Contents,
           ChangeByHand(i, name, is)
    PROVE  IInv'
<1>1. /\ Edit /\ made' = made
      /\ rulesets' = [rulesets EXCEPT ![i].name = name, ![i].is = is]
  BY DEF ChangeByHand
<1>2. rulesets \in Seq(Ruleset) /\ Distinct(rulesets) /\ made \in Nat
  BY TypeGives DEF IInv, TypeOK
<1>3. DOMAIN rulesets = 1..Len(rulesets) /\ Len(rulesets) \in Nat BY <1>2, LenProperties
<1>4. \A j \in DOMAIN rulesets : rulesets[j] \in Ruleset /\ rulesets[j].id <= made
  BY <1>2, <1>3, ElementOfSeq DEF IInv, TypeOK
<1>5. \A j \in DOMAIN rulesets : rulesets'[j] \in Ruleset /\ rulesets'[j].id = rulesets[j].id
  BY <1>1, <1>4 DEF Ruleset
<1>6. DOMAIN rulesets' = DOMAIN rulesets BY <1>1
<1>7. rulesets' \in Seq(Ruleset)
  <2>1. rulesets' \in [1..Len(rulesets) -> Ruleset] BY <1>1, <1>3, <1>5
  <2> QED BY <1>3, <2>1, SeqDef
<1>8. Distinct(rulesets') BY <1>2, <1>5, <1>6 DEF Distinct
<1>9. \A j \in DOMAIN rulesets' : rulesets'[j].id <= made' BY <1>1, <1>4, <1>5, <1>6
<1> QED BY <1>1, <1>2, <1>7, <1>8, <1>9, EditKeeps

\* What is left of a listing when one ruleset goes.
LEMMA RemovalLeaves ==
    ASSUME NEW T, NEW s \in Seq(T), NEW i \in DOMAIN s
    PROVE  /\ RemoveAt(s, i) \in Seq(T)
           /\ DOMAIN RemoveAt(s, i) = 1..(Len(s) - 1)
           /\ \A j \in DOMAIN RemoveAt(s, i) :
                RemoveAt(s, i)[j] = s[IF j < i THEN j ELSE j + 1]
<1>1. DOMAIN s = 1..Len(s) /\ Len(s) \in Nat BY LenProperties
<1> DEFINE a == SubSeq(s, 1, i - 1)
           b == SubSeq(s, i + 1, Len(s))
<1>2. a \in Seq(T) /\ Len(a) = i - 1 /\ \A j \in 1..(i - 1) : a[j] = s[j]
  BY <1>1, SubSeqProperties
<1>3. b \in Seq(T) /\ Len(b) = Len(s) - i /\ \A j \in 1..(Len(s) - i) : b[j] = s[i + j]
  BY <1>1, SubSeqProperties
<1> HIDE DEF a, b
<1>4. /\ a \o b \in Seq(T) /\ Len(a \o b) = Len(a) + Len(b)
      /\ \A j \in 1..(Len(a) + Len(b)) : (a \o b)[j] = IF j <= Len(a) THEN a[j] ELSE b[j - Len(a)]
  BY <1>2, <1>3, ConcatProperties
<1>5. Len(a) + Len(b) = Len(s) - 1 BY <1>1, <1>2, <1>3
<1>6. DOMAIN (a \o b) = 1..(Len(s) - 1) BY <1>4, <1>5, LenProperties
<1>7. \A j \in 1..(Len(s) - 1) : (a \o b)[j] = s[IF j < i THEN j ELSE j + 1]
  <2> SUFFICES ASSUME NEW j \in 1..(Len(s) - 1)
               PROVE  (a \o b)[j] = s[IF j < i THEN j ELSE j + 1]
    OBVIOUS
  <2>1. CASE j < i BY <1>1, <1>2, <1>4, <1>5, <2>1
  <2>2. CASE ~(j < i)
    <3>1. (a \o b)[j] = b[j - (i - 1)] BY <1>1, <1>2, <1>4, <1>5, <2>2
    <3>2. j - (i - 1) \in 1..(Len(s) - i) /\ i + (j - (i - 1)) = j + 1 BY <1>1, <2>2
    <3> QED BY <1>3, <2>2, <3>1, <3>2
  <2> QED BY <2>1, <2>2
<1> QED BY <1>4, <1>6, <1>7 DEF RemoveAt, a, b

LEMMA DeleteKeeps ==
    ASSUME IInv, NEW i \in DOMAIN rulesets, DeleteByHand(i)
    PROVE  IInv'
<1>1. Edit /\ made' = made /\ rulesets' = RemoveAt(rulesets, i) BY DEF DeleteByHand
<1>2. rulesets \in Seq(Ruleset) /\ Distinct(rulesets) /\ made \in Nat
  BY TypeGives DEF IInv, TypeOK
<1>3. DOMAIN rulesets = 1..Len(rulesets) /\ Len(rulesets) \in Nat BY <1>2, LenProperties
<1>4. /\ rulesets' \in Seq(Ruleset) /\ DOMAIN rulesets' = 1..(Len(rulesets) - 1)
      /\ \A j \in DOMAIN rulesets' : rulesets'[j] = rulesets[IF j < i THEN j ELSE j + 1]
  BY <1>1, <1>2, RemovalLeaves
<1>5. \A j \in DOMAIN rulesets' : (IF j < i THEN j ELSE j + 1) \in DOMAIN rulesets
  BY <1>3, <1>4
<1>6. \A j, k \in DOMAIN rulesets' :
        (IF j < i THEN j ELSE j + 1) = (IF k < i THEN k ELSE k + 1) => j = k
  BY <1>3, <1>4
<1>7. Distinct(rulesets') BY <1>2, <1>4, <1>5, <1>6 DEF Distinct
<1>8. \A j \in DOMAIN rulesets' : rulesets'[j].id <= made'
  BY <1>1, <1>4, <1>5 DEF IInv, TypeOK
<1> QED BY <1>1, <1>2, <1>4, <1>7, <1>8, EditKeeps

LEMMA CommitKeeps == ASSUME IInv, Commit PROVE IInv'
<1>1. /\ UNCHANGED <<rulesets, made, run, troubles>> /\ sot' \in Commits
      /\ edits < Edits /\ edits' = edits + 1
  BY DEF Commit
<1>2. edits' \in 0 .. Edits BY <1>1, RulesetAssumption DEF IInv, TypeOK
<1>3. TypeOK' BY <1>1, <1>2 DEF IInv, TypeOK
<1>4. (ListedSoFar /\ Joined /\ IdIsKnown)'
  BY <1>1 DEF IInv, ListedSoFar, Joined, IdIsKnown, IdsOf
<1>5. AppliedIsLive'
  BY <1>1 DEF IInv, AppliedIsLive, Named
<1> QED BY <1>3, <1>4, <1>5 DEF IInv

-----------------------------------------------------------------------------
LEMMA Inductive == Spec => []IInv
<1>1. Init => IInv
  <2> SUFFICES ASSUME Init PROVE IInv OBVIOUS
  <2>1. <<>> \in Seq(Ruleset) /\ <<>> \in Seq(Nat \ {0}) /\ 1 \in 1 .. MaxPages
    BY RulesetAssumption
  <2>2. TypeOK BY <2>1, RulesetAssumption DEF Init, TypeOK, NoRun
  <2>3. run.pc = "idle" BY DEF Init, NoRun
  <2>4. ListedSoFar /\ Joined /\ IdIsKnown BY <2>3 DEF ListedSoFar, Joined, IdIsKnown
  <2>5. AppliedIsLive BY <2>3 DEF AppliedIsLive
  <2> QED BY <2>2, <2>4, <2>5 DEF IInv
<1>2. IInv /\ [Next]_vars => IInv'
  <2> SUFFICES ASSUME IInv, [Next]_vars PROVE IInv' OBVIOUS
  <2>1. ASSUME NEW name \in Names, NEW is \in Settings, CreateByHand(name, is) PROVE IInv'
    BY <2>1, CreateKeeps, RulesetAssumption
  <2>2. ASSUME NEW name \in Names, NEW is \in Settings, NEW i \in DOMAIN rulesets,
               ChangeByHand(i, name, is)
        PROVE  IInv'
    BY <2>2, ChangeKeeps, RulesetAssumption
  <2>3. ASSUME NEW i \in DOMAIN rulesets, DeleteByHand(i) PROVE IInv' BY <2>3, DeleteKeeps
  <2>4. CASE Commit BY <2>4, CommitKeeps
  <2>5. ASSUME NEW mode \in Modes, Start(mode) PROVE IInv' BY <2>5, StartKeeps
  <2>6. CASE RunStep
    <3>1. CASE Read BY <3>1, ListKeeps, DetailKeeps DEF Read
    <3>2. CASE Write BY <3>2, WriteKeeps
    <3>3. CASE ReadFails \/ ReadIsNoRuleset \/ WriteFails BY <3>3, FailuresKeep
    <3> QED BY <2>6, <3>1, <3>2, <3>3 DEF RunStep
  <2>7. CASE UNCHANGED vars
    <3>1. UNCHANGED <<rulesets, made, sot, run, edits, troubles>> BY <2>7 DEF vars
    <3>2. TypeOK' BY <3>1 DEF IInv, TypeOK
    <3>3. (ListedSoFar /\ Joined /\ IdIsKnown)'
      BY <3>1 DEF IInv, ListedSoFar, Joined, IdIsKnown, IdsOf
    <3>4. AppliedIsLive'
      BY <3>1 DEF IInv, AppliedIsLive, Named
    <3> QED BY <3>2, <3>3, <3>4 DEF IInv
  <2> QED BY <2>1, <2>2, <2>3, <2>4, <2>5, <2>6, <2>7 DEF Next
<1> QED BY <1>1, <1>2, PTL DEF Spec

\* Types; GitHub's ids stay its own, and only `apply` writes (main).
THEOREM TypeCorrect == Spec => []TypeOK
<1>1. IInv => TypeOK BY DEF IInv
<1> QED BY <1>1, Inductive, PTL

\* An undisturbed `apply` that exits 0 leaves exactly the committed ruleset in
\* force under its name (run, verify_applied).
THEOREM SuccessIsLive == Spec => []AppliedIsLive
<1>1. IInv => AppliedIsLive BY DEF IInv
<1> QED BY <1>1, Inductive, PTL

-----------------------------------------------------------------------------
(* What a scan says.                                                        *)

\* A listing never ends a scan well, and ends it undisturbed for a reason.
LEMMA ListTells ==
    ASSUME IInv, run.mode \in Scans, run.pc = "list", run' = Listed(run), run'.pc = "done"
    PROVE  /\ run'.exit # 0
           /\ ~run.touched => /\ run'.exit = 1 => Wrong
                              /\ run'.exit = 2 => Named(run.sot.name) = {}
<1> DEFINE more  == run.matches \o SetToSeq(match_by_name(Page(run.page), run.sot.name))
           found == [run EXCEPT !.matches = more]
<1>1. rulesets \in Seq(Ruleset) /\ Distinct(rulesets) /\ run \in Runs BY TypeGives DEF IInv
<1>2. /\ more \in Seq(Nat \ {0})
      /\ ~run.touched =>
           /\ ToSet(more) = IdsUpTo(rulesets, run.sot.name, run.page * PageSize)
           /\ Len(more) = Cardinality(ToSet(more))
  BY GetFinds
<1>3. run' = IF TooMany(run.page) THEN Ended(found, 1)
             ELSE IF IsLast(run.page) THEN Resolved(found)
             ELSE [found EXCEPT !.page = @ + 1]
  BY DEF Listed
<1> HIDE DEF more
<1>4. found \in Runs /\ found.pc = "list" /\ found.mode = run.mode /\ found.matches = more
  BY <1>1, <1>2 DEF Runs
<1> HIDE DEF found
<1>5. Len(more) \in Nat /\ IsFiniteSet(ToSet(more)) BY <1>2, ToSetFinite, LenProperties
<1>6. CASE TooMany(run.page)
  <2>1. run'.exit = 1 BY <1>3, <1>4, <1>6 DEF Ended, Runs
  <2>2. ~run.touched => Wrong BY <1>6, GetEnds DEF Wrong
  <2> QED BY <2>1, <2>2
<1>7. CASE ~TooMany(run.page) /\ IsLast(run.page)
  <2>1. run' = Resolved(found) BY <1>3, <1>7
  <2>2. ~run.touched => /\ ToSet(more) = IdsOf(run.sot.name)
                        /\ Len(more) = Cardinality(Named(run.sot.name))
    BY <1>1, <1>2, <1>7, GetEnds, IdsStand
  <2>3. CASE Len(more) = 0
    <3>1. run' = Ended(found, 2) BY <1>4, <2>1, <2>3 DEF Resolved, Absent, Scans
    <3>2. run'.exit = 2 BY <1>4, <3>1 DEF Ended, Runs
    <3>3. ~run.touched => Named(run.sot.name) = {}
      BY <1>1, <2>2, <2>3, IdsStand, FS_EmptySet
    <3> QED BY <3>2, <3>3
  <2>4. Len(more) # 1
    <3>1. ASSUME Len(more) = 1 PROVE run'.pc = "detail"
      <4>1. run' = [found EXCEPT !.pc = "detail", !.live_id = more[1]]
        BY <1>4, <2>1, <3>1 DEF Resolved
      <4> QED BY <1>4, <4>1 DEF Runs
    <3> QED BY <3>1
  <2>5. CASE Len(more) # 0
    <3>1. run' = Ended(found, 1) BY <1>4, <2>1, <2>4, <2>5 DEF Resolved
    <3>2. run'.exit = 1 BY <1>4, <3>1 DEF Ended, Runs
    <3>3. \A n \in Nat : n # 0 /\ n # 1 => n > 1 OBVIOUS
    <3>4. Len(more) > 1 BY <1>5, <2>4, <2>5, <3>3
    <3>5. ~run.touched => Cardinality(Named(run.sot.name)) > 1 BY <2>2, <3>4
    <3> QED BY <3>2, <3>5 DEF Wrong
  <2> QED BY <2>3, <2>5
<1>8. CASE ~TooMany(run.page) /\ ~IsLast(run.page)
  <2>1. run' = [found EXCEPT !.page = @ + 1] BY <1>3, <1>8
  <2> QED BY <1>4, <2>1 DEF Runs
<1> QED BY <1>6, <1>7, <1>8

\* The ruleset that a scan has read is a live one; undisturbed, it is still
\* there and the only one of the name.
LEMMA DetailTells ==
    ASSUME IInv, run.mode \in Scans, run.pc = "detail", run' = Detailed(run)
    PROVE  /\ run'.exit = 0 => \E r \in ToSet(rulesets) :
                                 Agrees(r) /\ (~run.touched => Named(run.sot.name) = {r})
           /\ ~run.touched => (run'.exit = 1 => Wrong) /\ run'.exit # 2
<1>1. rulesets \in Seq(Ruleset) /\ Distinct(rulesets) /\ run \in Runs BY TypeGives DEF IInv
<1>2. ASSUME ~run.touched
      PROVE  \E r : Named(run.sot.name) = {r} /\ WithId(run.live_id) = {r}
  <2>1. IdsOf(run.sot.name) = {run.live_id} BY <1>2 DEF IInv, IdIsKnown, Joined
  <2>2. /\ \E r : /\ Named(run.sot.name) = {r} /\ WithId(run.live_id) = {r}
                   /\ r.name = run.sot.name /\ r \in Ruleset
        /\ Cardinality(Named(run.sot.name)) = 1
    BY <1>1, <2>1, OneId, Zenon
  <2> QED BY <2>2
<1>3. ~run.touched => \E r : Named(run.sot.name) = {r} /\ WithId(run.live_id) = {r}
  BY <1>2
<1>4. CASE WithId(run.live_id) = {}
  <2>1. run' = Ended(run, 2) BY <1>4 DEF Detailed, Unread
  <2>2. run'.exit = 2 BY <1>1, <2>1 DEF Ended, Runs
  <2> QED BY <1>3, <1>4, <2>2
<1>5. CASE WithId(run.live_id) # {}
  <2> DEFINE live == CHOOSE r \in WithId(run.live_id) : TRUE
  <2>1. run' = Found(run, live) BY <1>5 DEF Detailed
  <2>2. live \in WithId(run.live_id) BY <1>5
  <2> HIDE DEF live
  <2>3. run' = Ended(run, IF Drifted(run, live) THEN 1 ELSE 0) BY <2>1 DEF Found, Scans
  <2>4. run'.exit = IF Drifted(run, live) THEN 1 ELSE 0 BY <1>1, <2>3 DEF Ended, Runs
  <2>5. Drifted(run, live) <=> ~Agrees(live)
    BY DEF Drifted, Agrees, render_projection_diff, compare_required_checks
  <2>6. live \in ToSet(rulesets) /\ (~run.touched => Named(run.sot.name) = {live})
    BY <1>3, <2>2 DEF WithId
  <2> QED BY <2>4, <2>5, <2>6 DEF Wrong
<1> QED BY <1>4, <1>5

\* A scan's exit code tells the truth, of every listing and with any number of
\* edits and failures: what exit 0 says even of a scan that was disturbed, what 1
\* and 2 say of one that was not (resolve_live_ruleset, compare_required_checks,
\* render_projection_diff).
THEOREM ScanIsTrue == Spec => ScanTellsTheTruth
<1> DEFINE TrueStep == run.mode \in Scans /\ run.pc # "done" /\ run'.pc = "done" =>
         /\ run'.exit = 0 => \E r \in ToSet(rulesets) :
                               Agrees(r) /\ (~run.touched => Named(run.sot.name) = {r})
         /\ ~run.touched =>
              /\ run'.exit = 1 => Wrong \/ run'.garbled
              /\ run'.exit = 2 => Named(run.sot.name) = {} \/ troubles' # troubles
<1>1. IInv /\ [Next]_vars => TrueStep
  <2> SUFFICES ASSUME IInv, [Next]_vars, run.mode \in Scans, run.pc # "done", run'.pc = "done"
               PROVE  TrueStep
    OBVIOUS
  <2>1. run \in Runs /\ troubles \in Nat BY TypeGives, RulesetAssumption DEF IInv, TypeOK
  <2>2. CASE Read
    <3>1. CASE run.pc = "list" /\ run' = Listed(run) BY <3>1, ListTells
    <3>2. CASE run.pc = "detail" /\ run' = Detailed(run) BY <3>2, DetailTells
    <3> QED BY <2>2, <3>1, <3>2 DEF Read
  <2>3. CASE ReadFails
    <3>1. run' = Ended(run, 2) BY <2>3 DEF ReadFails, Unread
    <3>2. run'.exit = 2 BY <2>1, <3>1 DEF Ended, Runs
    <3>3. troubles' # troubles BY <2>1, <2>3 DEF ReadFails, Trouble
    <3> QED BY <3>2, <3>3
  <2>7. CASE ReadIsNoRuleset
    <3>1. run' = [Ended(run, 1) EXCEPT !.garbled = TRUE] BY <2>7 DEF ReadIsNoRuleset
    <3>2. run'.exit = 1 /\ run'.garbled BY <2>1, <3>1 DEF Ended, Runs
    <3> QED BY <3>2
  <2>4. ~(Write \/ WriteFails)
    <3>1. run.pc # "write" BY DEF IInv, TypeOK, Scans
    <3> QED BY <3>1 DEF Write, WriteFails
  <2>5. ~Edit /\ ~Commit /\ run' # run
    <3>1. run' = run => FALSE OBVIOUS
    <3>2. Edit => run'.pc = run.pc BY <2>1 DEF Edit, Runs
    <3>3. Commit => run' = run BY DEF Commit
    <3> QED BY <3>1, <3>2, <3>3
  <2>6. \A mode \in Modes : ~Start(mode)
    <3>1. ASSUME NEW mode \in Modes, Start(mode) PROVE run'.pc = "list"
      BY <3>1 DEF Start, NoRun
    <3> QED BY <3>1
  <2> QED
    BY <2>2, <2>3, <2>4, <2>5, <2>6, <2>7
    DEF Next, RunStep, CreateByHand, ChangeByHand, DeleteByHand, vars
<1>2. TrueStep => [TrueStep]_vars OBVIOUS
<1> QED BY <1>1, Inductive, PTL DEF Spec, ScanTellsTheTruth

\* A run's write makes no second ruleset of its name and changes none of
\* another one, for listings of any length (list_live_rulesets, plan_write).
THEOREM OthersUntouched == Spec => WritesOnlyItsOwn
<1> DEFINE OwnStep == run.pc = "write" /\ run'.pc = "done" /\ ~run.touched =>
         /\ \A r \in ToSet(rulesets) : r.name # run.sot.name => r \in ToSet(rulesets')
         /\ Named(run.sot.name) # {} => Len(rulesets') = Len(rulesets)
<1>1. IInv /\ [Next]_vars => OwnStep
  <2> SUFFICES ASSUME IInv, [Next]_vars, run.pc = "write", run'.pc = "done", ~run.touched
               PROVE  OwnStep
    OBVIOUS
  <2>1. UNCHANGED rulesets \/ \E is \in Contents : Stores(is)
    <3>1. CASE Edit
      <4>1. run'.pc = run.pc BY <3>1 DEF Edit, IInv, TypeOK
      <4> QED BY <4>1
    <3>2. CASE Commit BY <3>2 DEF Commit
    <3>3. ASSUME NEW mode \in Modes, Start(mode) PROVE UNCHANGED rulesets BY <3>3 DEF Start
    <3>4. CASE RunStep BY <3>4 DEF RunStep, Read, ReadFails, ReadIsNoRuleset, Write, WriteFails
    <3>5. CASE UNCHANGED vars BY <3>5 DEF vars
    <3> QED BY <3>1, <3>2, <3>3, <3>4, <3>5 DEF Next, CreateByHand, ChangeByHand, DeleteByHand
  <2>2. CASE UNCHANGED rulesets BY <2>2
  <2>3. ASSUME NEW is \in Contents, Stores(is) PROVE OwnStep BY <2>3, StoreIsAlone
  <2> QED BY <2>1, <2>2, <2>3
<1>2. OwnStep => [OwnStep]_vars OBVIOUS
<1> QED BY <1>1, Inductive, PTL DEF Spec, WritesOnlyItsOwn
=============================================================================
