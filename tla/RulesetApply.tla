----------------------------- MODULE RulesetApply -----------------------------
(***************************************************************************)
(* The committed ruleset of main and GitHub's live ones: the runs of        *)
(* apply-rulesets.yml (gitapex_apply_rulesets.py), which plan or make one   *)
(* write, and those of ruleset-verify.yml (gitapex_scan_ruleset_drift.py),  *)
(* which compare.  Both list the live rulesets page by page and read the    *)
(* one that carries the committed name (_gitapex_rulesets.py), while people *)
(* change rulesets in GitHub's settings and commits change the file.  Runs  *)
(* that write are serial, and a scan disturbs none: the model has one run   *)
(* at a time, and what a write does to a scan, an edit by hand does too.    *)
(***************************************************************************)
EXTENDS Naturals, Sequences, SequencesExt, FiniteSets

CONSTANTS
    Names, Contexts,    \* of rulesets; of required status checks
    Commits,            \* what the committed file may say
    Settings,           \* what people may set by hand
    PageSize, MaxPages, \* _PAGE_SIZE, _MAX_PAGES
    None,
    Edits, Troubles     \* bounds: what people change, what goes wrong

\* What a ruleset requires, who may pass it by, and whether its rules carry the
\* parameters that GitHub adds to rules that do not mention them.
Contents == [checks : SUBSET Contexts, bypass : BOOLEAN, defaults : BOOLEAN]

ASSUME RulesetAssumption ==
    /\ Commits # {} /\ Commits \subseteq [name : Names, is : Contents]
    /\ Settings \subseteq Contents
    /\ {PageSize, MaxPages} \subseteq Nat \ {0} /\ {Edits, Troubles} \subseteq Nat
    /\ None \notin Nat

VARIABLES
    rulesets,   \* GitHub's live ones, in the order of the listing
    made,       \* how many were made so far: their ids
    sot,        \* the file on main
    run,        \* of one of the workflows
    edits, troubles \* history: so far

vars == <<rulesets, made, sot, run, edits, troubles>>

-----------------------------------------------------------------------------
Scans == {"full", "required-checks"}
Modes == {"plan", "apply"} \cup Scans

Ruleset == [id : Nat \ {0}, name : Names, is : Contents]

Named(name) == {r \in ToSet(rulesets) : r.name = name}
WithId(id)  == {r \in ToSet(rulesets) : r.id = id}

\* matches: ids of the live rulesets listed so far that carry the name of the
\* run's file.  History: someone changed a live ruleset by hand since it started
\* (touched), it was answered with something that is no ruleset (garbled).
NoRun(file) ==
    [pc |-> "idle", mode |-> "none", sot |-> file, page |-> 1, matches |-> <<>>,
     live_id |-> None, exit |-> None, touched |-> FALSE, garbled |-> FALSE]

Init ==
    /\ rulesets = <<>> /\ made = 0
    /\ sot \in Commits
    /\ run = NoRun(sot)
    /\ edits = 0 /\ troubles = 0

Trouble == troubles < Troubles /\ troubles' = troubles + 1

Ended(job, code) == [job EXCEPT !.pc = "done", !.exit = code]

-----------------------------------------------------------------------------
(* People.                                                                  *)

Edit ==
    /\ edits < Edits
    /\ edits' = edits + 1
    /\ run' = [run EXCEPT !.touched = TRUE]
    /\ UNCHANGED <<sot, troubles>>

CreateByHand(name, is) ==
    /\ Edit
    /\ rulesets' = Append(rulesets, [id |-> made + 1, name |-> name, is |-> is])
    /\ made' = made + 1

ChangeByHand(i, name, is) ==
    /\ Edit
    /\ i \in DOMAIN rulesets
    /\ rulesets' = [rulesets EXCEPT ![i].name = name, ![i].is = is]
    /\ UNCHANGED made

DeleteByHand(i) ==
    /\ Edit
    /\ i \in DOMAIN rulesets
    /\ rulesets' = RemoveAt(rulesets, i)
    /\ UNCHANGED made

\* A pull request that changes .github/rulesets/main.json is merged.
Commit ==
    /\ edits < Edits
    /\ edits' = edits + 1
    /\ sot' \in Commits
    /\ UNCHANGED <<rulesets, made, run, troubles>>

-----------------------------------------------------------------------------
(* What both scripts read.                                                  *)

Page(n) == {rulesets[i] : i \in DOMAIN rulesets \cap ((n - 1) * PageSize + 1 .. n * PageSize)}

\* Mutant: only the first page is read.
IsLast_First(n) == TRUE

\* Page n, as it is now, is not full.
IsLast(n) == Cardinality(Page(n)) < PageSize

\* Mutant: the last page counts as too many, however short it is.
TooMany_OffByOne(n) == n = MaxPages

TooMany(n) == n = MaxPages /\ ~IsLast(n)

match_by_name(page, name) == {r.id : r \in {q \in page : q.name = name}}

\* Mutant: as after a write, what GitHub added does not count.
render_projection_diff_Subset(live, file) ==
    \/ live.name # file.name \/ live.is.checks # file.is.checks
    \/ file.is.defaults /\ ~live.is.defaults

\* Equality, of what a read-only token sees.
render_projection_diff(live, file) ==
    \/ live.name # file.name \/ live.is.checks # file.is.checks
    \/ live.is.defaults # file.is.defaults

compare_required_checks(live, file) == ~(file.is.checks \subseteq live.is.checks)

Drifted(job, live) ==
    IF job.mode = "full" THEN render_projection_diff(live, job.sot)
    ELSE compare_required_checks(live, job.sot)

\* Mutant: a dry run writes too.
Absent_DryWrites(job) == IF job.mode \in {"plan", "apply"} THEN [job EXCEPT !.pc = "write"] ELSE Ended(job, 2)

\* No live ruleset carries the name.
Absent(job) ==
    CASE job.mode = "apply" -> [job EXCEPT !.pc = "write"]
      [] job.mode = "plan"  -> Ended(job, 0)
      [] OTHER              -> Ended(job, 2)

Resolved(job) ==
    CASE Len(job.matches) = 0 -> Absent(job)
      [] Len(job.matches) = 1 -> [job EXCEPT !.pc = "detail", !.live_id = job.matches[1]]
      [] OTHER                -> Ended(job, 1)

\* list_live_rulesets: one GET.
Listed(job) ==
    LET found == [job EXCEPT !.matches = @ \o SetToSeq(match_by_name(Page(job.page), job.sot.name))]
    IN  IF TooMany(job.page) THEN Ended(found, 1)
        ELSE IF IsLast(job.page) THEN Resolved(found)
        ELSE [found EXCEPT !.page = @ + 1]

\* Mutant: "an earlier revision" failed loudly where it should warn.
Unread_Loud(job) == 1

\* The exit code of a run that GitHub gave no document (GitHubApiError).
Unread(job) == IF job.mode \in Scans THEN 2 ELSE 1

\* The run has read the live ruleset of the name.
Found(job, live) ==
    CASE job.mode = "apply" -> [job EXCEPT !.pc = "write"]
      [] job.mode = "plan"  -> Ended(job, 0)
      [] OTHER              -> Ended(job, IF Drifted(job, live) THEN 1 ELSE 0)

\* The GET of the one that matched, which may be gone.
Detailed(job) ==
    IF WithId(job.live_id) = {} THEN Ended(job, Unread(job))
    ELSE Found(job, CHOOSE r \in WithId(job.live_id) : TRUE)

-----------------------------------------------------------------------------
(* The runs.  apply-rulesets.yml is dispatched by hand on main; a pull      *)
(* request's scan compares with the file of its base.                       *)

Start(mode) ==
    /\ run.pc \in {"idle", "done"}
    /\ run' = [NoRun(sot) EXCEPT !.pc = "list", !.mode = mode]
    /\ UNCHANGED <<rulesets, made, sot, edits, troubles>>

Read ==
    /\ \/ run.pc = "list" /\ run' = Listed(run)
       \/ run.pc = "detail" /\ run' = Detailed(run)
    /\ UNCHANGED <<rulesets, made, sot, edits, troubles>>

\* No answer, an error, or a body that is no JSON; a scan without a token ends
\* in the same way.
ReadFails ==
    /\ run.pc \in {"list", "detail"}
    /\ Trouble
    /\ run' = Ended(run, Unread(run))
    /\ UNCHANGED <<rulesets, made, sot, edits>>

\* A 2xx with a document that is no array of rulesets, or no ruleset: a
\* RulesetError, as if the committed file were unusable.
ReadIsNoRuleset ==
    /\ run.pc \in {"list", "detail"}
    /\ Trouble
    /\ run' = [Ended(run, 1) EXCEPT !.garbled = TRUE]
    /\ UNCHANGED <<rulesets, made, sot, edits>>

\* Mutant: what GitHub was sent is taken for what it stored.
verify_applied_Sent(file, stored) == TRUE

\* find_subset_mismatches finds nothing; lists are compared whole.
verify_applied(file, stored) ==
    /\ stored.checks = file.is.checks /\ stored.bypass = file.is.bypass
    /\ file.is.defaults => stored.defaults

\* What GitHub makes of a file if all goes well: it may add to it.
Kept(file) == {file.is, [file.is EXCEPT !.defaults = TRUE]}

\* What a write that gets through leaves behind.
Stores(is) ==
    LET stored(id) == [id |-> id, name |-> run.sot.name, is |-> is]
    IN  IF run.live_id = None
        THEN rulesets' = Append(rulesets, stored(made + 1)) /\ made' = made + 1
        ELSE /\ rulesets' = [i \in DOMAIN rulesets |->
                               IF rulesets[i].id = run.live_id THEN stored(run.live_id)
                               ELSE rulesets[i]]
             /\ UNCHANGED made

\* send_write, once; GitHub may store something else than it was sent.
Write ==
    /\ run.pc = "write"
    /\ run.live_id # None => WithId(run.live_id) # {}
    /\ \E is \in Contents, answered \in BOOLEAN :
         /\ Stores(is)
         /\ IF answered /\ is \in Kept(run.sot) THEN UNCHANGED troubles ELSE Trouble
         /\ run' = Ended(run, IF answered /\ verify_applied(run.sot, is) THEN 0 ELSE 1)
    /\ UNCHANGED <<sot, edits>>

\* The ruleset to replace is gone, or GitHub refuses.
WriteFails ==
    /\ run.pc = "write"
    /\ IF run.live_id # None /\ WithId(run.live_id) = {} THEN UNCHANGED troubles ELSE Trouble
    /\ run' = Ended(run, 1)
    /\ UNCHANGED <<rulesets, made, sot, edits>>

-----------------------------------------------------------------------------
RunStep == Read \/ ReadFails \/ ReadIsNoRuleset \/ Write \/ WriteFails

Next ==
    \/ \E name \in Names, is \in Settings :
         CreateByHand(name, is) \/ \E i \in DOMAIN rulesets : ChangeByHand(i, name, is)
    \/ \E i \in DOMAIN rulesets : DeleteByHand(i)
    \/ Commit
    \/ \E mode \in Modes : Start(mode)
    \/ RunStep

Spec == Init /\ [][Next]_vars

\* A run goes on, and the operator dispatches `apply` again and again.
FairSpec == Spec /\ WF_vars(RunStep) /\ SF_vars(Start("apply"))

-----------------------------------------------------------------------------
(* Properties.                                                              *)

\* Types; ids are GitHub's own.
TypeOK ==
    /\ rulesets \in Seq(Ruleset) /\ made \in Nat
    /\ \A i, j \in DOMAIN rulesets :
         rulesets[i].id <= made /\ (rulesets[i].id = rulesets[j].id => i = j)
    /\ sot \in Commits
    /\ run \in [pc : {"idle", "list", "detail", "write", "done"}, mode : Modes \cup {"none"},
                sot : Commits, page : 1 .. MaxPages, matches : Seq(Nat \ {0}),
                live_id : Nat \cup {None}, exit : {None, 0, 1, 2},
                touched : BOOLEAN, garbled : BOOLEAN]
    /\ run.pc = "write" => run.mode = "apply"
    /\ edits \in 0 .. Edits /\ troubles \in 0 .. Troubles

\* After a run of `apply` that exits 0, and until someone changes a ruleset,
\* exactly one live ruleset has the committed name, and it holds what is
\* committed and nothing but GitHub's defaults beside it: "A 2xx with no error
\* is not proof the state transition matched the policy".
AppliedIsLive ==
    run.pc = "done" /\ run.mode = "apply" /\ run.exit = 0 /\ ~run.touched =>
        /\ Cardinality(Named(run.sot.name)) = 1
        /\ \A r \in Named(run.sot.name) : r.is \in Kept(run.sot)

\* A run's write makes no second ruleset of a name and changes none of another
\* name, unless someone changed a ruleset while it ran: not a listing of many
\* pages, nor an earlier write whose answer was lost, is enough.
WritesOnlyItsOwn ==
    [][run.pc = "write" /\ run'.pc = "done" /\ ~run.touched =>
         /\ \A r \in ToSet(rulesets) : r.name # run.sot.name => r \in ToSet(rulesets')
         /\ Named(run.sot.name) # {} => Len(rulesets') = Len(rulesets)]_vars

\* A ruleset is as the file of the run says, in what its scope looks at.
Agrees(r) ==
    IF run.mode = "full"
    THEN /\ r.name = run.sot.name /\ r.is.checks = run.sot.is.checks
         /\ r.is.defaults = run.sot.is.defaults
    ELSE run.sot.is.checks \subseteq r.is.checks

\* What a scan is to fail for.
Wrong ==
    \/ Cardinality(Named(run.sot.name)) > 1
    \/ \E r \in Named(run.sot.name) : ~Agrees(r)
    \/ Len(rulesets) >= PageSize * MaxPages

\* A scan that exits 0 has just seen a live ruleset that agrees, even if people
\* changed rulesets while it was listing; if nobody did, it is the only one of
\* the name.  A scan that nobody disturbed exits 1 only for what is wrong, however
\* many pages there are and whatever could not be read ("emitting a confident
\* false diagnostic is worse than a warning"), with the one exception of a 2xx
\* that is no ruleset; and 2 only if no ruleset has the name or a read failed.
ScanTellsTheTruth ==
    [][run.mode \in Scans /\ run.pc # "done" /\ run'.pc = "done" =>
         /\ run'.exit = 0 => \E r \in ToSet(rulesets) :
                               Agrees(r) /\ (~run.touched => Named(run.sot.name) = {r})
         /\ ~run.touched =>
              /\ run'.exit = 1 => Wrong \/ run'.garbled
              /\ run'.exit = 2 => Named(run.sot.name) = {} \/ troubles' # troubles]_vars

\* Whatever was lost, refused or stored differently before, the operator's next
\* dispatches bring the committed file into force again and again, unless two
\* rulesets have its name or there are too many to list.
RunsReconcile ==
    []<>(\/ \E r \in ToSet(rulesets) : r.name = sot.name /\ r.is \in Kept(sot)
         \/ Cardinality(Named(sot.name)) > 1
         \/ Len(rulesets) >= PageSize * MaxPages)
=============================================================================
