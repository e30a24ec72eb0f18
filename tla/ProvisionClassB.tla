--------------------------- MODULE ProvisionClassB ---------------------------
(***************************************************************************)
(* The session-start provisioner                                            *)
(* (skills/setup-gitapex-toolchain/scripts/gitapex_provision_class_b.py):   *)
(* it brings the tools that a checkout's flake.nix pins into a cache the    *)
(* user's checkouts share, then runs `apm install` in the checkout.  Files  *)
(* survive a session that is killed; sessions run one after another.        *)
(***************************************************************************)
EXTENDS Naturals, FiniteSets

CONSTANTS
    Tools,      \* the pinned tools
    Wrapped,    \* those of kind wrapperDir: an unpacked tree and an exec shim
    Apm,        \* the tool that deploys the checkout's packages
    Pins,       \* release assets a tool can be pinned to
    Locks,      \* contents apm.lock.yaml can have
    Commits,    \* what a checkout can hold: the pins of its flake.nix and its lockfile
    Checkouts,  \* checkouts that share the cache
    None, Partial,  \* no file; a file or tree that is not whole
    Troubles    \* bound: commits checked out, runs by hand, files lost or
                \* damaged, steps that fail and sessions that are killed

ASSUME ProvisionAssumption ==
    /\ Wrapped \subseteq Tools /\ Apm \in Wrapped
    /\ Commits \subseteq [pins : [Tools -> Pins], lock : Locks]
    /\ {None, Partial} \cap (Pins \cup Locks \cup Checkouts) = {}
    /\ None # Partial
    /\ Troubles \in Nat

VARIABLES
    head,       \* head[c]: the commit checkout c holds
    deployed,   \* deployed[c]: what apm has put under .claude/ there
    disk,       \* disk[t]: receipt, entry point, support tree and shim of tool t
    apmReceipt, \* state/apm-install.json
    run,        \* the session: where it is, its pins, and the tools to do
    \* history
    torn,       \* tools whose tree a session began to replace and did not finish
    owner,      \* the checkout whose good install wrote apmReceipt last (None: a
                \* later install failed, or the lockfile moved under it)
    troubles    \* so far

history == <<torn, owner>>
vars    == <<head, deployed, disk, apmReceipt, run, history, troubles>>

-----------------------------------------------------------------------------
File    == Pins \cup {None, Partial}
Receipt == [asset : Pins \cup {None}, installed : File]

NoReceipt == [asset |-> None, installed |-> None]
Nothing   == [receipt |-> NoReceipt, entry |-> None, support |-> None, shim |-> FALSE]

\* .claude/: by which apm from which lockfile; hooks: apm-hooks.json is there.
Undeployed == [apm |-> None, lock |-> None, hooks |-> FALSE]

Idle == [pc |-> "idle", at |-> None, pins |-> [t \in Tools |-> None], only |-> {},
         todo |-> {}, cur |-> None, data |-> None, ready |-> {}, lock |-> None,
         unchanged |-> FALSE, failed |-> FALSE]

Init ==
    /\ head \in [Checkouts -> Commits]
    /\ deployed = [c \in Checkouts |-> Undeployed]
    /\ disk = [t \in Tools |-> Nothing]
    /\ apmReceipt = [lock |-> None, apm |-> None]
    /\ run = Idle
    /\ torn = {}
    /\ owner = None
    /\ troubles = 0

Trouble == troubles < Troubles /\ troubles' = troubles + 1

-----------------------------------------------------------------------------
(* The world.  Whatever damages a file does so between sessions; a commit   *)
(* may be checked out at any time.                                          *)

Checkout(c) ==
    /\ Trouble
    /\ \E commit \in Commits \ {head[c]} : head' = [head EXCEPT ![c] = commit]
    /\ UNCHANGED <<deployed, disk, apmReceipt, run, history>>

SpoilTool(t) ==
    /\ run.pc = "idle"
    /\ Trouble
    /\ disk' \in {[disk EXCEPT ![t].receipt = NoReceipt], [disk EXCEPT ![t].entry = None],
                  [disk EXCEPT ![t].entry = Partial], [disk EXCEPT ![t].shim = FALSE]}
    /\ UNCHANGED <<head, deployed, apmReceipt, run, history>>

\* git clean -x in a checkout, or an unreadable apm-install.json.
SpoilDeployment ==
    /\ run.pc = "idle"
    /\ Trouble
    /\ \/ \E c \in Checkouts : deployed' = [deployed EXCEPT ![c] = Undeployed] /\ UNCHANGED apmReceipt
       \/ apmReceipt' = [lock |-> None, apm |-> None] /\ UNCHANGED deployed
    /\ UNCHANGED <<head, disk, run, history>>

-----------------------------------------------------------------------------
(* A session.                                                               *)

\* main: pins are parsed once.  The hook asks for every tool, a run by hand
\* for those its --tool options name.
Start(c, only) ==
    /\ run.pc = "idle"
    /\ IF only = Tools THEN UNCHANGED troubles ELSE Trouble
    /\ run' = [Idle EXCEPT !.pc = "pick", !.at = c, !.pins = head[c].pins, !.only = only,
                           !.todo = only]
    /\ UNCHANGED <<head, deployed, disk, apmReceipt, history>>

\* Mutant: the receipt alone.
_is_already_installed_ReceiptOnly(t, pin) == disk[t].receipt.asset = pin

_is_already_installed(t, pin) ==
    /\ disk[t].receipt.asset = pin
    /\ disk[t].entry # None
    /\ disk[t].entry = disk[t].receipt.installed
    /\ t \in Wrapped => disk[t].shim

\* Mutant: any bytes that arrived.
HashMatches_Any(data, pin) == TRUE

\* verify_and_download's comparison with the pin.
HashMatches(data, pin) == data = pin

\* Mutant: the old tree is removed before the new asset is there.
AfterCheck_ClearFirst(t) == IF t \in Wrapped THEN "clear" ELSE "download"

AfterCheck(t) == "download"

\* Mutant: a new tree is unpacked over the old one.
AfterDownload_Merge(t) == IF t \in Wrapped THEN "unpack" ELSE "write"

AfterDownload(t) == IF t \in Wrapped THEN "clear" ELSE "write"

\* provision_all goes on with the next tool, whatever became of this one.
NextTool == [run EXCEPT !.pc = "pick", !.cur = None, !.data = None]
Ready    == [NextTool EXCEPT !.ready = @ \cup {run.cur}]

Fails == [NextTool EXCEPT !.failed = TRUE]

Check ==
    /\ run.pc = "pick"
    /\ \E t \in run.todo :
         run' = IF _is_already_installed(t, run.pins[t])
                THEN [run EXCEPT !.todo = @ \ {t}, !.ready = @ \cup {t}]
                ELSE [run EXCEPT !.todo = @ \ {t}, !.cur = t, !.pc = AfterCheck(t)]
    /\ UNCHANGED <<head, deployed, disk, apmReceipt, history, troubles>>

\* What is fetched is the pinned asset, or some other bytes.
Download ==
    /\ run.pc = "download"
    /\ \E data \in {run.pins[run.cur], Partial} :
         /\ IF data = Partial THEN Trouble ELSE UNCHANGED troubles
         /\ run' = IF HashMatches(data, run.pins[run.cur])
                   THEN [run EXCEPT !.pc = AfterDownload(run.cur), !.data = data]
                   ELSE Fails
    /\ UNCHANGED <<head, deployed, disk, apmReceipt, history>>

Step(pc, next, d) ==
    /\ run.pc = pc
    /\ run' = [run EXCEPT !.pc = next]
    /\ disk' = [disk EXCEPT ![run.cur] = d]
    /\ UNCHANGED <<head, deployed, apmReceipt, owner, troubles>>

\* extract_binary; rmtree; extract_wrapper_dir: unpack and flatten, then shim.
Write == Step("write", "smoke", [disk[run.cur] EXCEPT !.entry = run.data]) /\ UNCHANGED torn
Clear ==
    /\ Step("clear", "unpack", [disk[run.cur] EXCEPT !.entry = None, !.support = None])
    /\ torn' = torn \cup {run.cur}

\* Renaming a directory onto a full one fails.
Unpack ==
    LET free == disk[run.cur].support = None
    IN  /\ run.pc = "unpack"
        /\ disk' = [disk EXCEPT ![run.cur].entry = run.data,
                               ![run.cur].support = IF free THEN run.data ELSE @]
        /\ run' = IF free THEN [run EXCEPT !.pc = "shim"] ELSE Fails
        /\ torn' = IF free THEN torn \ {run.cur} ELSE torn
        /\ UNCHANGED <<head, deployed, apmReceipt, owner, troubles>>

Shim == Step("shim", "smoke", [disk[run.cur] EXCEPT !.shim = TRUE]) /\ UNCHANGED torn

\* --version; then the entry point is hashed and the receipt written, last.
Smoke == Step("smoke", "receipt", disk[run.cur]) /\ UNCHANGED torn

WriteReceipt ==
    /\ run.pc = "receipt"
    /\ run' = Ready
    /\ disk' = [disk EXCEPT ![run.cur].receipt =
                   [asset |-> run.pins[run.cur], installed |-> disk[run.cur].entry]]
    /\ UNCHANGED <<head, deployed, apmReceipt, history, troubles>>

\* Mutant: an asset is downloaded straight into its place.
Leftovers_Streamed(t) == {disk[t], [disk[t] EXCEPT !.entry = Partial]}

\* What a step on the files of tool t leaves when it is cut off.
Leftovers(t) ==
    LET d == disk[t]
    IN  CASE run.pc = "write"   -> {[d EXCEPT !.entry = e] : e \in {d.entry, Partial, run.data}}
          [] run.pc = "clear"   -> {[d EXCEPT !.entry = e, !.support = u] :
                                        e \in {d.entry, None}, u \in {d.support, Partial, None}}
          [] run.pc = "unpack"  -> {[d EXCEPT !.entry = e, !.support = u] :
                                        e \in {None, run.data}, u \in {None, Partial, run.data}}
          [] run.pc = "shim"    -> {[d EXCEPT !.shim = b] : b \in {d.shim, FALSE}}
          [] run.pc = "receipt" -> {d, [d EXCEPT !.receipt = NoReceipt]}
          [] OTHER              -> {d}

\* The step raises, and provision_all takes the exception for the tool's
\* result; or the session is killed there.
Fault ==
    /\ run.pc \in {"download", "write", "clear", "unpack", "shim", "smoke", "receipt"}
    /\ Trouble
    /\ run' \in {Fails, Idle}
    /\ \E d \in Leftovers(run.cur) : disk' = [disk EXCEPT ![run.cur] = d]
    /\ torn' = IF run.pc = "clear" THEN torn \cup {run.cur} ELSE torn
    /\ UNCHANGED <<head, deployed, apmReceipt, owner>>

\* write_env_file, whose failure does not keep apm from its install.
WriteEnv ==
    /\ run.pc = "pick" /\ run.todo = {}
    /\ \E ok \in BOOLEAN :
         /\ IF ok THEN UNCHANGED troubles ELSE Trouble
         /\ run' = [run EXCEPT !.pc = "apm", !.failed = @ \/ ~ok]
    /\ UNCHANGED <<head, deployed, disk, apmReceipt, history>>

\* Mutant: the receipt's lockfile is enough.
_is_apm_install_up_to_date_LockOnly(c) ==
    apmReceipt.lock = head[c].lock /\ deployed[c].hooks

_is_apm_install_up_to_date(c) ==
    /\ apmReceipt.lock = head[c].lock
    /\ disk[Apm].receipt # NoReceipt
    /\ disk[Apm].receipt.installed = apmReceipt.apm
    /\ deployed[c].hooks

CheckApm ==
    /\ run.pc = "apm"
    /\ LET now == [run EXCEPT !.pc = "done", !.lock = head[run.at].lock]
       IN  run' = IF Apm \notin run.ready THEN [now EXCEPT !.failed = @ \/ Apm \in run.only]
                  ELSE IF _is_apm_install_up_to_date(run.at)
                  THEN [now EXCEPT !.unchanged = TRUE]
                  ELSE [now EXCEPT !.pc = "install"]
    /\ UNCHANGED <<head, deployed, disk, apmReceipt, history, troubles>>

\* run_apm_install: apm deploys the lockfile it read when it started, or ends
\* part of the way.
run_apm_install ==
    /\ run.pc = "install"
    /\ owner' = None
    /\ \/ /\ deployed' = [deployed EXCEPT ![run.at] =
                            [apm |-> disk[Apm].entry, lock |-> run.lock, hooks |-> TRUE]]
          /\ run' = [run EXCEPT !.pc = "record"]
          /\ UNCHANGED troubles
       \/ /\ Trouble
          /\ \E hooks \in {deployed[run.at].hooks, TRUE} :
               deployed' = [deployed EXCEPT ![run.at] =
                              [apm |-> Partial, lock |-> Partial, hooks |-> hooks]]
          /\ run' \in {[run EXCEPT !.pc = "done", !.failed = TRUE], Idle}
    /\ UNCHANGED <<head, disk, apmReceipt, torn>>

\* The lockfile is hashed only now.
WriteApmReceipt ==
    /\ run.pc = "record"
    /\ \/ /\ apmReceipt' = [lock |-> head[run.at].lock, apm |-> disk[Apm].receipt.installed]
          /\ owner' = IF head[run.at].lock = run.lock THEN run.at ELSE None
          /\ run' = [run EXCEPT !.pc = "done"]
          /\ UNCHANGED troubles
       \/ /\ Trouble
          /\ apmReceipt' \in {apmReceipt, [lock |-> None, apm |-> None]}
          /\ run' \in {[run EXCEPT !.pc = "done", !.failed = TRUE], Idle}
          /\ UNCHANGED owner
    /\ UNCHANGED <<head, deployed, disk, torn>>

End ==
    /\ run.pc = "done"
    /\ run' = Idle
    /\ UNCHANGED <<head, deployed, disk, apmReceipt, history, troubles>>

Install == Write \/ Clear \/ Unpack \/ Shim \/ Smoke \/ WriteReceipt

SessionStep ==
    Check \/ Download \/ Install \/ WriteEnv \/ CheckApm \/ run_apm_install \/ WriteApmReceipt \/ End

Next ==
    \/ \E c \in Checkouts : Checkout(c)
    \/ \E t \in Tools : SpoilTool(t)
    \/ SpoilDeployment
    \/ \E c \in Checkouts, only \in SUBSET Tools \ {{}} : Start(c, only)
    \/ SessionStep
    \/ Fault

Spec == Init /\ [][Next]_vars

\* Sessions keep being started in every checkout, and a session goes on
\* unless it is killed.
FairSpec ==
    /\ Spec
    /\ WF_vars(SessionStep)
    /\ \A c \in Checkouts : SF_vars(Start(c, Tools))

-----------------------------------------------------------------------------
(* Properties.                                                              *)

\* Types; and a step on a tool's files is made with that tool's asset in hand.
TypeOK ==
    /\ head \in [Checkouts -> Commits]
    /\ deployed \in [Checkouts -> [apm : Pins \cup {None, Partial},
                                   lock : Locks \cup {None, Partial}, hooks : BOOLEAN]]
    /\ disk \in [Tools -> [receipt : Receipt, entry : File, support : File, shim : BOOLEAN]]
    /\ apmReceipt \in [lock : Locks \cup {None}, apm : File]
    /\ run.pc \in {"idle", "pick", "download", "write", "clear", "unpack", "shim", "smoke",
                   "receipt", "apm", "install", "record", "done"}
    /\ run.only \cup run.todo \cup run.ready \subseteq Tools
    /\ run.pc \in {"write", "clear", "unpack", "shim", "smoke", "receipt"} =>
         run.cur \in Tools /\ run.data = run.pins[run.cur]
    /\ torn \subseteq Tools
    /\ owner \in Checkouts \cup {None}

\* A receipt vouches for the pinned asset's own entry point: whatever fails,
\* whatever is lost between sessions, and whichever checkout installed last.
ReceiptsVouch ==
    \A t \in Tools : disk[t].receipt # NoReceipt =>
                        disk[t].receipt.installed = disk[t].receipt.asset

\* A tool that a session reports as installed or skipped has the entry point
\* and the shim of the session's pin, even if files were damaged before.  Its
\* support tree is that pin's too, unless a session was cut off while it
\* replaced the tree: the receipt of the tree before stays, and neither it
\* nor the entry point tells.
ReadyIsWhole ==
    \A t \in run.ready :
        /\ disk[t].entry = run.pins[t]
        /\ t \in Wrapped => disk[t].shim /\ (disk[t].support = run.pins[t] \/ t \in torn)

\* No step of a session takes a whole install away before the verified asset
\* that replaces it is there.
ReplacedOnlyByVerified ==
    [][\A t \in Tools :
         run.pc # "idle" /\ disk'[t] # disk[t] => run.cur = t /\ run.data = run.pins[t]]_vars

\* Exit code 0 of a session is the promise that all it was asked for is there,
\* and that its checkout carries what this apm deploys from its lockfile, also
\* when it said "UNCHANGED: apm install" and installed nothing, as long as the
\* receipt it went by is that checkout's own and no install failed since.
SuccessIsComplete ==
    run.pc = "done" /\ ~run.failed =>
        /\ run.only \subseteq run.ready
        /\ Apm \in run.only /\ (run.unchanged => owner = run.at) =>
             deployed[run.at] = [apm |-> disk[Apm].entry, lock |-> run.lock, hooks |-> TRUE]

\* Every checkout keeps getting sessions that succeed, however the tools and
\* trees were left behind.
SessionsSucceed ==
    \A c \in Checkouts : []<>(run.pc = "done" /\ run.at = c /\ run.only = Tools /\ ~run.failed)

=============================================================================
