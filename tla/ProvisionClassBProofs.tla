------------------------ MODULE ProvisionClassBProofs ------------------------
(***************************************************************************)
(* What ProvisionClassB promises, for any tools, pins, checkouts and any    *)
(* number of failures and killed sessions.  The inductive invariant says    *)
(* what the files of the tool in hand are after each step of its            *)
(* installation, and what a receipt, a support tree and a deployed          *)
(* checkout can be between two sessions.                                    *)
(***************************************************************************)
EXTENDS ProvisionClassB, TLAPS

OnTool == {"download", "write", "clear", "unpack", "shim", "smoke", "receipt"}
OnFiles == OnTool \ {"download"}
AfterTools == {"apm", "install", "record", "done"}

Tool == [receipt : Receipt, entry : File, support : File, shim : BOOLEAN]
Deployment == [apm : File, lock : Locks \cup {None, Partial}, hooks : BOOLEAN]
Session ==
    [pc : {"idle", "pick"} \cup OnTool \cup AfterTools, at : Checkouts \cup {None},
     pins : [Tools -> Pins \cup {None}], only : SUBSET Tools, todo : SUBSET Tools,
     cur : Tools \cup {None}, data : File, ready : SUBSET Tools,
     lock : Locks \cup {None}, unchanged : BOOLEAN, failed : BOOLEAN]

Types ==
    /\ head \in [Checkouts -> Commits]
    /\ deployed \in [Checkouts -> Deployment]
    /\ disk \in [Tools -> Tool]
    /\ apmReceipt \in [lock : Locks \cup {None}, apm : File]
    /\ run \in Session
    /\ torn \subseteq Tools
    /\ owner \in Checkouts \cup {None}

\* The session, its tool in hand, and which steps that tool's kind takes.
InHand ==
    /\ run.pc = "idle" => run.ready = {} /\ ~run.unchanged
    /\ run.pc # "idle" => run.at \in Checkouts /\ run.pins \in [Tools -> Pins]
    /\ run.pc \in OnTool => run.cur \in Tools /\ run.cur \notin run.ready /\ run.cur \notin run.todo
    /\ run.pc \in OnFiles => run.data = run.pins[run.cur]
    /\ run.todo \cap run.ready = {}
    /\ run.pc = "write" => run.cur \notin Wrapped
    /\ run.pc \in {"clear", "unpack", "shim"} => run.cur \in Wrapped
    /\ run.pc = "unpack" => run.cur \in torn

\* What the steps so far have made of the files of the tool in hand.
HalfMade ==
    /\ run.pc \in {"shim", "smoke", "receipt"} => disk[run.cur].entry = run.pins[run.cur]
    /\ run.pc \in {"smoke", "receipt"} /\ run.cur \in Wrapped => disk[run.cur].shim

\* A tree that no session was cut off from replacing belongs to its entry point.
TreesMatch ==
    \A t \in Wrapped \ torn : disk[t].entry \in Pins => disk[t].support = disk[t].entry

ReadyHas ==
    \A t \in run.ready :
        /\ disk[t].receipt.asset = run.pins[t]
        /\ disk[t].entry = run.pins[t]
        /\ t \in Wrapped => disk[t].shim

\* What the session was asked for is ready, still to do, in hand, or failed.
Asked ==
    /\ ~run.failed => run.only \subseteq run.ready \cup run.todo
                                        \cup (IF run.pc \in OnTool THEN {run.cur} ELSE {})
    /\ run.pc \in AfterTools => run.todo = {}
    /\ run.pc \in {"install", "record"} => Apm \in run.ready
    /\ run.pc = "done" /\ ~run.failed /\ Apm \in run.only /\ ~run.unchanged =>
         deployed[run.at] = [apm |-> disk[Apm].entry, lock |-> run.lock, hooks |-> TRUE]

\* What apmReceipt says of the checkout that owns it.
Owned ==
    /\ owner \in Checkouts =>
         \/ apmReceipt.lock = None
         \/ deployed[owner] = Undeployed
         \/ deployed[owner] = [apm |-> apmReceipt.apm, lock |-> apmReceipt.lock, hooks |-> TRUE]
    /\ run.pc = "record" =>
         /\ owner = None
         /\ deployed[run.at] = [apm |-> disk[Apm].entry, lock |-> run.lock, hooks |-> TRUE]
    /\ run.unchanged => run.pc = "done" /\ Apm \in run.ready

\* What "UNCHANGED: apm install" says, of the checkout that owns the receipt.
UnchangedIsDeployed ==
    run.unchanged /\ owner = run.at =>
        deployed[run.at] = [apm |-> disk[Apm].entry, lock |-> run.lock, hooks |-> TRUE]

IInv ==
    /\ Types
    /\ InHand
    /\ HalfMade
    /\ ReceiptsVouch
    /\ TreesMatch
    /\ ReadyHas
    /\ Asked
    /\ Owned
    /\ UnchangedIsDeployed

Distinct == None \notin Pins /\ Partial \notin Pins /\ None \notin Locks /\ Partial \notin Locks
            /\ None \notin Checkouts /\ None # Partial /\ Apm \in Tools /\ Apm \in Wrapped
            /\ Wrapped \subseteq Tools

LEMMA ConstantsApart == Distinct
BY ProvisionAssumption DEF Distinct

LEMMA CommitsTyped ==
    ASSUME NEW c \in Commits PROVE c.pins \in [Tools -> Pins] /\ c.lock \in Locks
BY ProvisionAssumption

-----------------------------------------------------------------------------
LEMMA InitIInv == Init => IInv
<1> SUFFICES ASSUME Init PROVE IInv OBVIOUS
<1> USE ConstantsApart DEF Distinct
<1>1. Types
  BY DEF Init, Types, Idle, Nothing, NoReceipt, Undeployed, Tool, Deployment, Session, Receipt, File, OnTool, AfterTools
<1>2. InHand /\ HalfMade /\ ReadyHas
  BY DEF Init, Idle, InHand, HalfMade, ReadyHas, OnTool, OnFiles
<1>3. ReceiptsVouch /\ TreesMatch
  BY DEF Init, ReceiptsVouch, TreesMatch, Nothing, NoReceipt
<1>4. Asked
  BY DEF Init, Idle, Asked, OnTool, AfterTools
<1>5. Owned /\ UnchangedIsDeployed
  BY DEF Init, Idle, Owned, UnchangedIsDeployed
<1> QED BY <1>1, <1>2, <1>3, <1>4, <1>5 DEF IInv

-----------------------------------------------------------------------------
(* Every action on its own. *)

LEMMA CheckoutKeeps == ASSUME IInv, NEW c \in Checkouts, Checkout(c) PROVE IInv'
<1> USE ConstantsApart, CommitsTyped DEF Distinct
<1>1. Types' BY DEF IInv, Checkout, Types, history
<1>2. InHand' BY DEF IInv, Checkout, InHand, history
<1>3. (HalfMade /\ ReadyHas)' BY DEF IInv, Checkout, HalfMade, ReadyHas, history
<1>4. (ReceiptsVouch /\ TreesMatch)' BY DEF IInv, Checkout, ReceiptsVouch, TreesMatch, history
<1>5. Asked' BY DEF IInv, Checkout, Asked, history
<1>6. Owned' BY DEF IInv, Checkout, Owned, history
<1>7. UnchangedIsDeployed' BY DEF IInv, Checkout, UnchangedIsDeployed, history
<1> QED BY <1>1, <1>2, <1>3, <1>4, <1>5, <1>6, <1>7 DEF IInv

LEMMA SpoilToolKeeps == ASSUME IInv, NEW t \in Tools, SpoilTool(t) PROVE IInv'
<1> USE ConstantsApart DEF Distinct
<1>0. PICK d \in {[disk EXCEPT ![t].receipt = NoReceipt], [disk EXCEPT ![t].entry = None],
                  [disk EXCEPT ![t].entry = Partial], [disk EXCEPT ![t].shim = FALSE]} : disk' = d
  BY DEF SpoilTool
<1>a. UNCHANGED <<head, deployed, apmReceipt, run, torn, owner>> /\ run.pc = "idle"
  BY DEF SpoilTool, history
<1>b. disk' = [disk EXCEPT ![t] = disk'[t]] /\ disk'[t] \in Tool
  <2>1. disk \in [Tools -> Tool] /\ disk[t] \in Tool BY DEF IInv, Types
  <2>2. NoReceipt \in Receipt BY DEF NoReceipt, Receipt, File
  <2>3. CASE disk' = [disk EXCEPT ![t].receipt = NoReceipt] BY <2>1, <2>2, <2>3 DEF Tool
  <2>4. CASE disk' = [disk EXCEPT ![t].entry = None] BY <2>1, <2>4 DEF Tool, File
  <2>5. CASE disk' = [disk EXCEPT ![t].entry = Partial] BY <2>1, <2>5 DEF Tool, File
  <2>6. CASE disk' = [disk EXCEPT ![t].shim = FALSE] BY <2>1, <2>6 DEF Tool
  <2> QED BY <1>0, <2>3, <2>4, <2>5, <2>6
<1>1. Types' BY <1>a, <1>b DEF IInv, Types
<1>2. InHand' BY <1>a DEF IInv, InHand
<1>3. (HalfMade /\ ReadyHas)' BY <1>a DEF IInv, InHand, HalfMade, ReadyHas
<1>4. ReceiptsVouch' BY <1>0, <1>a DEF IInv, Types, ReceiptsVouch, Tool, NoReceipt
<1>5. TreesMatch' BY <1>0, <1>a DEF IInv, Types, TreesMatch, Tool
<1>6. Asked' BY <1>a DEF IInv, Asked, AfterTools
<1>7. Owned' BY <1>a DEF IInv, Owned
<1>8. UnchangedIsDeployed' BY <1>a DEF IInv, InHand, UnchangedIsDeployed
<1> QED BY <1>1, <1>2, <1>3, <1>4, <1>5, <1>6, <1>7, <1>8 DEF IInv

LEMMA SpoilDeploymentKeeps == ASSUME IInv, SpoilDeployment PROVE IInv'
<1> USE ConstantsApart DEF Distinct
<1>a. UNCHANGED <<head, disk, run, torn, owner>> /\ run.pc = "idle"
  BY DEF SpoilDeployment, history
<1>b. \/ \E c \in Checkouts : deployed' = [deployed EXCEPT ![c] = Undeployed] /\ apmReceipt' = apmReceipt
      \/ apmReceipt' = [lock |-> None, apm |-> None] /\ deployed' = deployed
  BY DEF SpoilDeployment
<1>1. Types'
  <2>1. Undeployed \in Deployment BY DEF Undeployed, Deployment, File
  <2>2. [lock |-> None, apm |-> None] \in [lock : Locks \cup {None}, apm : File] BY DEF File
  <2> QED BY <1>a, <1>b, <2>1, <2>2 DEF IInv, Types
<1>2. InHand' BY <1>a DEF IInv, InHand
<1>3. (HalfMade /\ ReadyHas)' BY <1>a DEF IInv, HalfMade, ReadyHas
<1>4. (ReceiptsVouch /\ TreesMatch)' BY <1>a DEF IInv, ReceiptsVouch, TreesMatch
<1>5. Asked' BY <1>a DEF IInv, Asked, AfterTools
<1>6. Owned'
  <2>1. CASE deployed' = deployed /\ apmReceipt' = [lock |-> None, apm |-> None]
    BY <1>a, <2>1 DEF IInv, InHand, Owned
  <2>2. ASSUME NEW c \in Checkouts, deployed' = [deployed EXCEPT ![c] = Undeployed],
               apmReceipt' = apmReceipt
        PROVE  Owned'
    BY <1>a, <2>2 DEF IInv, Types, InHand, Owned
  <2> QED BY <1>b, <2>1, <2>2
<1>7. UnchangedIsDeployed' BY <1>a DEF IInv, InHand, UnchangedIsDeployed
<1> QED BY <1>1, <1>2, <1>3, <1>4, <1>5, <1>6, <1>7 DEF IInv

LEMMA StartKeeps ==
    ASSUME IInv, NEW c \in Checkouts, NEW only \in SUBSET Tools, Start(c, only) PROVE IInv'
<1> USE ConstantsApart DEF Distinct
<1>a. /\ UNCHANGED <<head, deployed, disk, apmReceipt, torn, owner>>
      /\ run' = [Idle EXCEPT !.pc = "pick", !.at = c, !.pins = head[c].pins, !.only = only,
                             !.todo = only]
  BY DEF Start, history
<1>b. head[c].pins \in [Tools -> Pins] BY CommitsTyped DEF IInv, Types
<1>c. /\ run'.pc = "pick" /\ run'.at = c /\ run'.pins = head[c].pins /\ run'.only = only
      /\ run'.todo = only /\ run'.ready = {} /\ run'.unchanged = FALSE /\ run'.failed = FALSE
  BY <1>a DEF Idle
<1>1. Types'
  <2>1. run' \in Session
    BY <1>a, <1>b DEF Idle, Session, OnTool, AfterTools, File
  <2> QED BY <1>a, <2>1 DEF IInv, Types
<1>2. InHand' BY <1>b, <1>c DEF InHand, OnTool, OnFiles
<1>3. (HalfMade /\ ReadyHas)' BY <1>c DEF HalfMade, ReadyHas
<1>4. (ReceiptsVouch /\ TreesMatch)' BY <1>a DEF IInv, ReceiptsVouch, TreesMatch
<1>5. Asked' BY <1>c DEF Asked, OnTool, AfterTools
<1>6. Owned' BY <1>a, <1>c DEF IInv, Owned
<1>7. UnchangedIsDeployed' BY <1>c DEF UnchangedIsDeployed
<1> QED BY <1>1, <1>2, <1>3, <1>4, <1>5, <1>6, <1>7 DEF IInv

LEMMA CheckKeeps == ASSUME IInv, Check PROVE IInv'
<1> USE ConstantsApart DEF Distinct
<1>a. UNCHANGED <<head, deployed, disk, apmReceipt, torn, owner>> /\ run.pc = "pick"
  BY DEF Check, history
<1>0. PICK t \in run.todo :
        run' = IF _is_already_installed(t, run.pins[t])
               THEN [run EXCEPT !.todo = @ \ {t}, !.ready = @ \cup {t}]
               ELSE [run EXCEPT !.todo = @ \ {t}, !.cur = t, !.pc = AfterCheck(t)]
  BY DEF Check
<1>b. run \in Session /\ t \in Tools /\ t \notin run.ready
  BY <1>0 DEF IInv, Types, InHand, Session
<1>1. CASE /\ _is_already_installed(t, run.pins[t])
           /\ run' = [run EXCEPT !.todo = @ \ {t}, !.ready = @ \cup {t}]
  <2>a. run' \in Session BY <1>b, <1>1 DEF Session
  <2>b. /\ run'.pc = "pick" /\ run'.at = run.at /\ run'.pins = run.pins /\ run'.only = run.only
        /\ run'.todo = run.todo \ {t} /\ run'.ready = run.ready \cup {t} /\ run'.failed = run.failed
        /\ run'.unchanged = run.unchanged /\ run'.lock = run.lock
    BY <1>a, <1>b, <1>1 DEF Session
  <2>c. disk[t].receipt.asset = run.pins[t] /\ disk[t].entry = run.pins[t]
        /\ (t \in Wrapped => disk[t].shim)
    <3>1. run.pins[t] \in Pins BY <1>a, <1>b DEF IInv, InHand
    <3>2. disk[t].receipt # NoReceipt BY <1>1, <3>1 DEF _is_already_installed, NoReceipt
    <3> QED BY <1>1, <1>b, <3>2 DEF _is_already_installed, IInv, ReceiptsVouch
  <2>1. Types' BY <1>a, <2>a DEF IInv, Types
  <2>2. InHand' BY <1>a, <2>b DEF IInv, InHand, OnTool, OnFiles
  <2>3. HalfMade' BY <2>b DEF HalfMade
  <2>4. ReadyHas' BY <1>a, <2>b, <2>c DEF IInv, ReadyHas
  <2>5. (ReceiptsVouch /\ TreesMatch)' BY <1>a DEF IInv, ReceiptsVouch, TreesMatch
  <2>6. Asked' BY <1>0, <1>a, <2>b DEF IInv, Asked, OnTool, AfterTools
  <2>7. Owned' BY <1>a, <2>b DEF IInv, Owned
  <2>8. UnchangedIsDeployed' BY <1>a, <2>b DEF IInv, Owned, UnchangedIsDeployed
  <2> QED BY <2>1, <2>2, <2>3, <2>4, <2>5, <2>6, <2>7, <2>8 DEF IInv
<1>2. CASE run' = [run EXCEPT !.todo = @ \ {t}, !.cur = t, !.pc = AfterCheck(t)]
  <2>a. run' \in Session BY <1>b, <1>2 DEF Session, AfterCheck, OnTool
  <2>b. /\ run'.pc = "download" /\ run'.at = run.at /\ run'.pins = run.pins /\ run'.only = run.only
        /\ run'.todo = run.todo \ {t} /\ run'.ready = run.ready /\ run'.failed = run.failed
        /\ run'.unchanged = run.unchanged /\ run'.lock = run.lock /\ run'.cur = t
    BY <1>a, <1>b, <1>2 DEF Session, AfterCheck
  <2>1. Types' BY <1>a, <2>a DEF IInv, Types
  <2>2. InHand' BY <1>a, <1>b, <2>b DEF IInv, InHand, OnTool, OnFiles
  <2>3. HalfMade' BY <2>b DEF HalfMade
  <2>4. ReadyHas' BY <1>a, <2>b DEF IInv, ReadyHas
  <2>5. (ReceiptsVouch /\ TreesMatch)' BY <1>a DEF IInv, ReceiptsVouch, TreesMatch
  <2>6. Asked' BY <1>0, <1>a, <2>b DEF IInv, Asked, OnTool, AfterTools
  <2>7. Owned' BY <1>a, <2>b DEF IInv, Owned
  <2>8. UnchangedIsDeployed' BY <1>a, <2>b DEF IInv, Owned, UnchangedIsDeployed
  <2> QED BY <2>1, <2>2, <2>3, <2>4, <2>5, <2>6, <2>7, <2>8 DEF IInv
<1> QED BY <1>0, <1>1, <1>2

\* A step on the tool in hand changes that tool's files only, and the session
\* goes on with the tool, with the next one, or is over.
OnlyCur(d) ==
    /\ run.pc \in OnTool
    /\ d \in Tool
    /\ disk' = [disk EXCEPT ![run.cur] = d]
    /\ UNCHANGED <<head, deployed, apmReceipt, owner>>

GoesOn(pc) == run' = [run EXCEPT !.pc = pc]

LEMMA OnlyCurKeeps ==
    ASSUME IInv, NEW d \in Tool, OnlyCur(d),
           d.receipt # NoReceipt => d.receipt.installed = d.receipt.asset,
           torn' \in {torn, torn \cup {run.cur}, torn \ {run.cur}},
           run.cur \in Wrapped \ torn' /\ d.entry \in Pins => d.support = d.entry
    PROVE  /\ run.cur \in Tools /\ run.cur \notin run.ready
           /\ disk' \in [Tools -> Tool] /\ disk'[run.cur] = d
           /\ \A t \in Tools \ {run.cur} : disk'[t] = disk[t]
           /\ torn' \subseteq Tools
           /\ ReceiptsVouch' /\ TreesMatch'
<1> USE ConstantsApart DEF Distinct
<1>1. run.cur \in Tools /\ run.cur \notin run.ready BY DEF IInv, InHand, OnlyCur
<1>2. disk \in [Tools -> Tool] /\ torn \subseteq Tools BY DEF IInv, Types
<1>3. /\ disk' \in [Tools -> Tool] /\ disk'[run.cur] = d
      /\ \A t \in Tools \ {run.cur} : disk'[t] = disk[t]
  BY <1>1, <1>2 DEF OnlyCur
<1>4. torn' \subseteq Tools BY <1>1, <1>2
<1>5. ReceiptsVouch' BY <1>3 DEF IInv, ReceiptsVouch
<1>6. TreesMatch' BY <1>3 DEF IInv, TreesMatch
<1> QED BY <1>1, <1>3, <1>4, <1>5, <1>6

\* Going on with the tool in hand.
LEMMA GoesOnKeeps ==
    ASSUME IInv, NEW d \in Tool, OnlyCur(d), NEW pc \in OnFiles, GoesOn(pc), run.pc \in OnFiles,
           d.receipt # NoReceipt => d.receipt.installed = d.receipt.asset,
           torn' \in {torn, torn \cup {run.cur}, torn \ {run.cur}},
           run.cur \in Wrapped \ torn' /\ d.entry \in Pins => d.support = d.entry,
           pc = "write" => run.cur \notin Wrapped,
           pc \in {"clear", "unpack", "shim"} => run.cur \in Wrapped,
           pc = "unpack" => run.cur \in torn',
           pc \in {"shim", "smoke", "receipt"} => d.entry = run.pins[run.cur],
           pc \in {"smoke", "receipt"} /\ run.cur \in Wrapped => d.shim
    PROVE  IInv'
<1> USE ConstantsApart DEF Distinct
<1>a. /\ run.cur \in Tools /\ run.cur \notin run.ready
      /\ disk' \in [Tools -> Tool] /\ disk'[run.cur] = d
      /\ \A t \in Tools \ {run.cur} : disk'[t] = disk[t]
      /\ torn' \subseteq Tools
      /\ ReceiptsVouch' /\ TreesMatch'
  BY OnlyCurKeeps
<1>b. run \in Session BY DEF IInv, Types
<1>c. run' \in Session BY <1>b DEF GoesOn, Session, OnFiles
<1>d. /\ run'.pc = pc /\ run'.at = run.at /\ run'.pins = run.pins /\ run'.only = run.only
      /\ run'.todo = run.todo /\ run'.ready = run.ready /\ run'.failed = run.failed
      /\ run'.unchanged = run.unchanged /\ run'.lock = run.lock /\ run'.cur = run.cur
      /\ run'.data = run.data
  BY <1>b DEF GoesOn, Session
<1>e. UNCHANGED <<head, deployed, apmReceipt, owner>> BY DEF OnlyCur
<1>1. Types' BY <1>a, <1>c, <1>e DEF IInv, Types
<1>2. InHand' BY <1>d DEF IInv, InHand, OnTool, OnFiles
<1>3. HalfMade' BY <1>a, <1>d DEF HalfMade
<1>4. ReadyHas' BY <1>a, <1>b, <1>d DEF IInv, ReadyHas, Session
<1>5. Asked' BY <1>d, <1>e DEF IInv, Asked, OnTool, OnFiles, AfterTools
<1>6. Owned' BY <1>d, <1>e DEF IInv, Owned, OnFiles, OnTool
<1>7. UnchangedIsDeployed' BY <1>d, <1>e DEF IInv, Owned, UnchangedIsDeployed, OnFiles, OnTool
<1> QED BY <1>a, <1>1, <1>2, <1>3, <1>4, <1>5, <1>6, <1>7 DEF IInv

\* Leaving the tool in hand, for the next one or for good.
LEMMA LeavesKeeps ==
    ASSUME IInv, NEW d \in Tool, OnlyCur(d), run' \in {Fails, Idle},
           d.receipt # NoReceipt => d.receipt.installed = d.receipt.asset,
           torn' \in {torn, torn \cup {run.cur}, torn \ {run.cur}},
           run.cur \in Wrapped \ torn' /\ d.entry \in Pins => d.support = d.entry
    PROVE  IInv'
<1> USE ConstantsApart DEF Distinct
<1>a. /\ run.cur \in Tools /\ run.cur \notin run.ready
      /\ disk' \in [Tools -> Tool] /\ disk'[run.cur] = d
      /\ \A t \in Tools \ {run.cur} : disk'[t] = disk[t]
      /\ torn' \subseteq Tools
      /\ ReceiptsVouch' /\ TreesMatch'
  BY OnlyCurKeeps
<1>b. run \in Session /\ run.pc \in OnTool BY DEF IInv, Types, OnlyCur
<1>e. UNCHANGED <<head, deployed, apmReceipt, owner>> BY DEF OnlyCur
<1>1. CASE run' = Fails
  <2>a. run' \in Session BY <1>b, <1>1 DEF Fails, NextTool, Session, File
  <2>b. /\ run'.pc = "pick" /\ run'.at = run.at /\ run'.pins = run.pins /\ run'.only = run.only
        /\ run'.todo = run.todo /\ run'.ready = run.ready /\ run'.failed = TRUE
        /\ run'.unchanged = run.unchanged
    BY <1>b, <1>1 DEF Fails, NextTool, Session
  <2>1. Types' BY <1>a, <1>e, <2>a DEF IInv, Types
  <2>2. InHand' BY <1>b, <2>b DEF IInv, InHand, OnTool, OnFiles
  <2>3. HalfMade' BY <2>b DEF HalfMade
  <2>4. ReadyHas' BY <1>a, <1>b, <2>b DEF IInv, ReadyHas, Session
  <2>5. Asked' BY <2>b DEF Asked, OnTool, AfterTools
  <2>6. Owned' BY <1>b, <1>e, <2>b DEF IInv, Owned, OnTool
  <2>7. UnchangedIsDeployed' BY <1>b, <2>b DEF IInv, Owned, UnchangedIsDeployed, OnTool
  <2> QED BY <1>a, <2>1, <2>2, <2>3, <2>4, <2>5, <2>6, <2>7 DEF IInv
<1>2. CASE run' = Idle
  <2>a. run' \in Session BY <1>2 DEF Idle, Session, File
  <2>b. run'.pc = "idle" /\ run'.ready = {} /\ run'.unchanged = FALSE /\ run'.todo = {} /\ run'.only = {}
    BY <1>2 DEF Idle
  <2>1. Types' BY <1>a, <1>e, <2>a DEF IInv, Types
  <2>2. InHand' BY <2>b DEF InHand, OnTool, OnFiles
  <2>3. (HalfMade /\ ReadyHas)' BY <2>b DEF HalfMade, ReadyHas
  <2>4. Asked' BY <2>b DEF Asked, OnTool, AfterTools
  <2>5. Owned' BY <1>e, <2>b DEF IInv, Owned
  <2>6. UnchangedIsDeployed' BY <2>b DEF UnchangedIsDeployed
  <2> QED BY <1>a, <2>1, <2>2, <2>3, <2>4, <2>5, <2>6 DEF IInv
<1> QED BY <1>1, <1>2

LEMMA ToolInHand ==
    ASSUME IInv, run.pc \in OnTool
    PROVE  /\ run.cur \in Tools /\ disk[run.cur] \in Tool /\ disk \in [Tools -> Tool]
           /\ disk[run.cur].receipt # NoReceipt =>
                disk[run.cur].receipt.installed = disk[run.cur].receipt.asset
           /\ run.pins[run.cur] \in Pins
           /\ run.cur \in Wrapped \ torn /\ disk[run.cur].entry \in Pins =>
                disk[run.cur].support = disk[run.cur].entry
BY DEF IInv, Types, InHand, ReceiptsVouch, TreesMatch, OnTool

LEMMA DownloadKeeps == ASSUME IInv, Download PROVE IInv'
<1>a. UNCHANGED <<head, deployed, disk, apmReceipt, torn, owner>> /\ run.pc = "download"
  BY DEF Download, history
<1>b. run.pc \in OnTool BY <1>a DEF OnTool
<1>c. disk' = [disk EXCEPT ![run.cur] = disk[run.cur]] BY <1>a, <1>b, ToolInHand
<1>d. OnlyCur(disk[run.cur]) BY <1>a, <1>b, <1>c, ToolInHand DEF OnlyCur
<1>1. CASE run' = Fails BY <1>a, <1>b, <1>d, <1>1, ToolInHand, LeavesKeeps
<1>2. CASE run' = [run EXCEPT !.pc = AfterDownload(run.cur), !.data = run.pins[run.cur]]
  <2> DEFINE pc == AfterDownload(run.cur)
  <2>a. run \in Session /\ run.cur \in Tools /\ run.pins[run.cur] \in Pins
    BY <1>b, ToolInHand DEF IInv, Types
  <2>b. run' \in Session BY <1>2, <2>a DEF Session, OnTool, AfterDownload, File
  <2>d. /\ run'.pc = (IF run.cur \in Wrapped THEN "clear" ELSE "write")
        /\ run'.at = run.at /\ run'.pins = run.pins /\ run'.only = run.only
        /\ run'.todo = run.todo /\ run'.ready = run.ready /\ run'.failed = run.failed
        /\ run'.unchanged = run.unchanged /\ run'.lock = run.lock /\ run'.cur = run.cur
        /\ run'.data = run.pins[run.cur]
    BY <1>2, <2>a DEF Session, AfterDownload
  <2>1. Types' BY <1>a, <2>b DEF IInv, Types
  <2>2. InHand' BY <1>a, <2>d DEF IInv, InHand, OnTool, OnFiles
  <2>3. HalfMade' BY <2>d DEF HalfMade
  <2>4. (ReceiptsVouch /\ TreesMatch)' BY <1>a DEF IInv, ReceiptsVouch, TreesMatch
  <2>5. ReadyHas' BY <1>a, <2>d DEF IInv, ReadyHas
  <2>6. Asked' BY <1>a, <2>d DEF IInv, Asked, OnTool, AfterTools
  <2>7. Owned' BY <1>a, <2>d DEF IInv, Owned
  <2>8. UnchangedIsDeployed' BY <1>a, <2>d DEF IInv, Owned, UnchangedIsDeployed
  <2> QED BY <2>1, <2>2, <2>3, <2>4, <2>5, <2>6, <2>7, <2>8 DEF IInv
<1> QED
  <2>1. PICK data \in {run.pins[run.cur], Partial} :
          run' = IF HashMatches(data, run.pins[run.cur])
                 THEN [run EXCEPT !.pc = AfterDownload(run.cur), !.data = data]
                 ELSE Fails
    BY DEF Download
  <2> QED BY <1>1, <1>2, <2>1 DEF HashMatches

LEMMA WriteKeeps == ASSUME IInv, Write PROVE IInv'
<1> DEFINE d == [disk[run.cur] EXCEPT !.entry = run.data]
<1>a. run.pc = "write" /\ run.pc \in OnTool /\ run.pc \in OnFiles
  BY DEF Write, Step, OnTool, OnFiles
<1>b. run.data = run.pins[run.cur] /\ run.cur \notin Wrapped BY <1>a DEF IInv, InHand
<1>c. d \in Tool /\ d.receipt = disk[run.cur].receipt /\ d.entry = run.pins[run.cur]
  BY <1>a, <1>b, ToolInHand DEF Tool, File
<1>d. OnlyCur(d) /\ GoesOn("smoke") /\ torn' = torn
  BY <1>a, <1>c DEF Write, Step, OnlyCur, GoesOn
<1>e. "smoke" \in OnFiles BY DEF OnFiles, OnTool
<1> HIDE DEF d
<1> QED BY <1>a, <1>b, <1>c, <1>d, <1>e, ToolInHand, GoesOnKeeps

LEMMA ClearKeeps == ASSUME IInv, Clear PROVE IInv'
<1> DEFINE d == [disk[run.cur] EXCEPT !.entry = None, !.support = None]
<1>a. run.pc = "clear" /\ run.pc \in OnTool /\ run.pc \in OnFiles
  BY DEF Clear, Step, OnTool, OnFiles
<1>b. run.cur \in Wrapped BY <1>a DEF IInv, InHand
<1>c. d \in Tool /\ d.receipt = disk[run.cur].receipt /\ d.entry = None /\ None \notin Pins
  BY <1>a, ToolInHand, ConstantsApart DEF Tool, File, Distinct
<1>d. OnlyCur(d) /\ GoesOn("unpack") /\ torn' = torn \cup {run.cur}
  BY <1>a, <1>c DEF Clear, Step, OnlyCur, GoesOn
<1>e. "unpack" \in OnFiles BY DEF OnFiles, OnTool
<1> HIDE DEF d
<1> QED BY <1>a, <1>b, <1>c, <1>d, <1>e, ToolInHand, GoesOnKeeps

LEMMA UnpackKeeps == ASSUME IInv, Unpack PROVE IInv'
<1> DEFINE free == disk[run.cur].support = None
           d == [disk[run.cur] EXCEPT !.entry = run.data,
                                      !.support = IF free THEN run.data ELSE @]
<1>a. run.pc = "unpack" /\ run.pc \in OnTool /\ run.pc \in OnFiles
  BY DEF Unpack, OnTool, OnFiles
<1>b. run.cur \in Wrapped /\ run.cur \in torn /\ run.data = run.pins[run.cur]
  BY <1>a DEF IInv, InHand
<1>c. d \in Tool /\ d.receipt = disk[run.cur].receipt /\ d.entry = run.pins[run.cur]
      /\ (free => d.support = run.pins[run.cur])
  BY <1>a, <1>b, ToolInHand DEF Tool, File
<1>d. OnlyCur(d)
  <2>1. disk' = [disk EXCEPT ![run.cur] = d] BY <1>a, ToolInHand DEF Unpack, Tool
  <2> QED BY <1>a, <1>c, <2>1 DEF Unpack, OnlyCur
<1>e. "shim" \in OnFiles BY DEF OnFiles, OnTool
<1>1. CASE free
  <2>1. GoesOn("shim") /\ torn' = torn \ {run.cur} BY <1>1 DEF Unpack, GoesOn
  <2> HIDE DEF d, free
  <2> QED BY <1>a, <1>b, <1>c, <1>d, <1>e, <1>1, <2>1, ToolInHand, GoesOnKeeps
<1>2. CASE ~free
  <2>1. run' = Fails /\ torn' = torn BY <1>2 DEF Unpack
  <2> HIDE DEF d, free
  <2> QED BY <1>a, <1>b, <1>c, <1>d, <2>1, ToolInHand, LeavesKeeps
<1> QED BY <1>1, <1>2

LEMMA ShimKeeps == ASSUME IInv, Shim PROVE IInv'
<1> DEFINE d == [disk[run.cur] EXCEPT !.shim = TRUE]
<1>a. run.pc = "shim" /\ run.pc \in OnTool /\ run.pc \in OnFiles
  BY DEF Shim, Step, OnTool, OnFiles
<1>b. disk[run.cur].entry = run.pins[run.cur] BY <1>a DEF IInv, HalfMade
<1>c. d \in Tool /\ d.receipt = disk[run.cur].receipt /\ d.entry = disk[run.cur].entry
      /\ d.support = disk[run.cur].support /\ d.shim
  BY <1>a, ToolInHand DEF Tool
<1>d. OnlyCur(d) /\ GoesOn("smoke") /\ torn' = torn
  BY <1>a, <1>c DEF Shim, Step, OnlyCur, GoesOn
<1>e. "smoke" \in OnFiles BY DEF OnFiles, OnTool
<1> HIDE DEF d
<1> QED BY <1>a, <1>b, <1>c, <1>d, <1>e, ToolInHand, GoesOnKeeps

LEMMA SmokeKeeps == ASSUME IInv, Smoke PROVE IInv'
<1> DEFINE d == disk[run.cur]
<1>a. run.pc = "smoke" /\ run.pc \in OnTool /\ run.pc \in OnFiles
  BY DEF Smoke, Step, OnTool, OnFiles
<1>b. d.entry = run.pins[run.cur] /\ (run.cur \in Wrapped => d.shim) BY <1>a DEF IInv, HalfMade
<1>c. d \in Tool BY <1>a, ToolInHand
<1>d. OnlyCur(d) /\ GoesOn("receipt") /\ torn' = torn
  BY <1>a, <1>c DEF Smoke, Step, OnlyCur, GoesOn
<1>e. "receipt" \in OnFiles BY DEF OnFiles, OnTool
<1>f. /\ d.receipt # NoReceipt => d.receipt.installed = d.receipt.asset
      /\ run.cur \in Wrapped \ torn /\ d.entry \in Pins => d.support = d.entry
  BY <1>a, ToolInHand
<1> HIDE DEF d
<1> QED BY <1>a, <1>b, <1>c, <1>d, <1>e, <1>f, GoesOnKeeps

LEMMA WriteReceiptKeeps == ASSUME IInv, WriteReceipt PROVE IInv'
<1> USE ConstantsApart DEF Distinct
<1> DEFINE r == [asset |-> run.pins[run.cur], installed |-> disk[run.cur].entry]
           d == [disk[run.cur] EXCEPT !.receipt = r]
<1>a. run.pc = "receipt" /\ run.pc \in OnTool BY DEF WriteReceipt, OnTool
<1>b. disk[run.cur].entry = run.pins[run.cur] /\ (run.cur \in Wrapped => disk[run.cur].shim)
  BY <1>a DEF IInv, HalfMade
<1>c. /\ d \in Tool /\ d.receipt = r /\ d.entry = disk[run.cur].entry
      /\ d.support = disk[run.cur].support /\ d.shim = disk[run.cur].shim
  BY <1>a, <1>b, ToolInHand DEF Tool, Receipt, File
<1>d. OnlyCur(d) /\ torn' = torn
  <2>1. disk' = [disk EXCEPT ![run.cur] = d] BY <1>a, ToolInHand DEF WriteReceipt, Tool
  <2> QED BY <1>a, <1>c, <2>1 DEF WriteReceipt, OnlyCur, history
<1>e. r.installed = r.asset /\ r.asset = run.pins[run.cur] BY <1>b
<1> HIDE DEF d, r
<1>f. /\ run.cur \in Tools /\ run.cur \notin run.ready
      /\ disk' \in [Tools -> Tool] /\ disk'[run.cur] = d
      /\ \A t \in Tools \ {run.cur} : disk'[t] = disk[t]
      /\ torn' \subseteq Tools
      /\ ReceiptsVouch' /\ TreesMatch'
  BY <1>a, <1>c, <1>d, <1>e, ToolInHand, OnlyCurKeeps
<1>g. run \in Session BY DEF IInv, Types
<1>h. UNCHANGED <<head, deployed, apmReceipt, owner>> BY <1>d DEF OnlyCur
<1>i. run' \in Session BY <1>f, <1>g DEF WriteReceipt, Ready, NextTool, Session, File
<1>j. /\ run'.pc = "pick" /\ run'.at = run.at /\ run'.pins = run.pins /\ run'.only = run.only
      /\ run'.todo = run.todo /\ run'.ready = run.ready \cup {run.cur} /\ run'.failed = run.failed
      /\ run'.unchanged = run.unchanged
  BY <1>g DEF WriteReceipt, Ready, NextTool, Session
<1>1. Types' BY <1>f, <1>h, <1>i DEF IInv, Types
<1>2. InHand' BY <1>a, <1>j DEF IInv, InHand, OnTool, OnFiles
<1>3. HalfMade' BY <1>j DEF HalfMade
<1>4. ReadyHas'
  <2>1. disk'[run.cur].receipt.asset = run.pins[run.cur] /\ disk'[run.cur].entry = run.pins[run.cur]
        /\ (run.cur \in Wrapped => disk'[run.cur].shim)
    BY <1>b, <1>c, <1>e, <1>f
  <2>2. \A t \in run.ready : t \in Tools /\ t # run.cur BY <1>f, <1>g DEF Session
  <2> QED BY <1>f, <1>j, <2>1, <2>2 DEF IInv, ReadyHas
<1>5. Asked' BY <1>a, <1>j DEF IInv, Asked, OnTool, AfterTools
<1>6. Owned' BY <1>a, <1>h, <1>j DEF IInv, Owned
<1>7. UnchangedIsDeployed' BY <1>a, <1>j DEF IInv, Owned, UnchangedIsDeployed
<1> QED BY <1>f, <1>1, <1>2, <1>3, <1>4, <1>5, <1>6, <1>7 DEF IInv

\* Whatever is left of a step that was cut off has the receipt it had, or
\* none; and a tree that is not whole belongs to a tool that is torn.
LEMMA LeftoversAreSafe ==
    ASSUME IInv, run.pc \in OnTool, NEW d \in Leftovers(run.cur),
           torn' = IF run.pc = "clear" THEN torn \cup {run.cur} ELSE torn
    PROVE  /\ d \in Tool
           /\ d.receipt # NoReceipt => d.receipt.installed = d.receipt.asset
           /\ run.cur \in Wrapped \ torn' /\ d.entry \in Pins => d.support = d.entry
<1> USE ConstantsApart, ToolInHand DEF Distinct
<1> DEFINE c == disk[run.cur]
<1>a. c \in Tool /\ run.pc \in OnTool OBVIOUS
<1>b. run.pc \in OnFiles => run.data = run.pins[run.cur] BY DEF IInv, InHand
<1>c. run.data \in File BY DEF IInv, Types, Session
<1>1. CASE run.pc = "write"
  <2>1. PICK e \in {c.entry, Partial, run.data} : d = [c EXCEPT !.entry = e]
    BY <1>1 DEF Leftovers
  <2>2. run.cur \notin Wrapped BY <1>1 DEF IInv, InHand
  <2> QED BY <1>a, <1>c, <2>1, <2>2 DEF Tool, File
<1>2. CASE run.pc = "clear"
  <2>1. PICK e \in {c.entry, None}, u \in {c.support, Partial, None} :
          d = [c EXCEPT !.entry = e, !.support = u]
    BY <1>2 DEF Leftovers
  <2>2. run.cur \in torn' BY <1>2
  <2> QED BY <1>a, <2>1, <2>2 DEF Tool, File
<1>3. CASE run.pc = "unpack"
  <2>1. PICK e \in {None, run.data}, u \in {None, Partial, run.data} :
          d = [c EXCEPT !.entry = e, !.support = u]
    BY <1>3 DEF Leftovers
  <2>2. run.cur \in torn' BY <1>3 DEF IInv, InHand
  <2> QED BY <1>a, <1>c, <2>1, <2>2 DEF Tool, File
<1>4. CASE run.pc = "shim"
  <2>1. PICK b \in {c.shim, FALSE} : d = [c EXCEPT !.shim = b] BY <1>4 DEF Leftovers
  <2> QED BY <1>a, <1>4, <2>1 DEF Tool
<1>5. CASE run.pc = "receipt"
  <2>1. d \in {c, [c EXCEPT !.receipt = NoReceipt]} BY <1>5 DEF Leftovers
  <2>2. NoReceipt \in Receipt BY DEF NoReceipt, Receipt, File
  <2> QED BY <1>a, <1>5, <2>1, <2>2 DEF Tool
<1>6. CASE run.pc \in {"download", "smoke"}
  <2>1. d = c BY <1>6 DEF Leftovers
  <2> QED BY <1>a, <1>6, <2>1
<1> QED BY <1>1, <1>2, <1>3, <1>4, <1>5, <1>6 DEF OnTool

LEMMA FaultKeeps == ASSUME IInv, Fault PROVE IInv'
<1>a. run.pc \in OnTool /\ run' \in {Fails, Idle} BY DEF Fault, OnTool
<1>b. PICK d \in Leftovers(run.cur) : disk' = [disk EXCEPT ![run.cur] = d] BY DEF Fault
<1>c. torn' = IF run.pc = "clear" THEN torn \cup {run.cur} ELSE torn BY DEF Fault
<1>d. /\ d \in Tool
      /\ d.receipt # NoReceipt => d.receipt.installed = d.receipt.asset
      /\ run.cur \in Wrapped \ torn' /\ d.entry \in Pins => d.support = d.entry
  BY <1>a, <1>c, LeftoversAreSafe
<1>e. OnlyCur(d) BY <1>a, <1>b, <1>d DEF Fault, OnlyCur
<1> QED BY <1>a, <1>c, <1>d, <1>e, LeavesKeeps

\* The steps after the tools change no file of a tool.
LEMMA AfterToolsKeeps ==
    ASSUME IInv, UNCHANGED <<disk, torn>>, run' \in Session,
           run'.pc \in AfterTools, run'.ready = run.ready, run'.pins = run.pins,
           run'.at = run.at, run'.todo = run.todo, run.pc # "idle"
    PROVE  (InHand /\ HalfMade /\ ReceiptsVouch /\ TreesMatch /\ ReadyHas)'
<1>1. InHand' BY DEF IInv, InHand, OnTool, OnFiles, AfterTools
<1>2. HalfMade' BY DEF HalfMade, AfterTools
<1>3. (ReceiptsVouch /\ TreesMatch)' BY DEF IInv, ReceiptsVouch, TreesMatch
<1>4. ReadyHas' BY DEF IInv, ReadyHas
<1> QED BY <1>1, <1>2, <1>3, <1>4

LEMMA WriteEnvKeeps == ASSUME IInv, WriteEnv PROVE IInv'
<1>a. /\ UNCHANGED <<head, deployed, disk, apmReceipt, torn, owner>>
      /\ run.pc = "pick" /\ run.todo = {}
  BY DEF WriteEnv, history
<1>b. PICK ok \in BOOLEAN : run' = [run EXCEPT !.pc = "apm", !.failed = @ \/ ~ok]
  BY DEF WriteEnv
<1>c. run \in Session BY DEF IInv, Types
<1>d. run' \in Session BY <1>b, <1>c DEF Session, AfterTools
<1>e. /\ run'.pc = "apm" /\ run'.at = run.at /\ run'.pins = run.pins /\ run'.only = run.only
      /\ run'.todo = run.todo /\ run'.ready = run.ready /\ (~run'.failed => ~run.failed)
      /\ run'.unchanged = run.unchanged
  BY <1>b, <1>c DEF Session
<1>1. (InHand /\ HalfMade /\ ReceiptsVouch /\ TreesMatch /\ ReadyHas)'
  BY <1>a, <1>d, <1>e, AfterToolsKeeps DEF AfterTools
<1>2. Types' BY <1>a, <1>d DEF IInv, Types
<1>3. Asked' BY <1>a, <1>e DEF IInv, Asked, OnTool, AfterTools
<1>4. Owned' BY <1>a, <1>e DEF IInv, Owned
<1>5. UnchangedIsDeployed' BY <1>a, <1>e DEF IInv, Owned, UnchangedIsDeployed
<1> QED BY <1>1, <1>2, <1>3, <1>4, <1>5 DEF IInv

LEMMA CheckApmKeeps == ASSUME IInv, CheckApm PROVE IInv'
<1> USE ConstantsApart DEF Distinct
<1> DEFINE now == [run EXCEPT !.pc = "done", !.lock = head[run.at].lock]
<1>a. /\ UNCHANGED <<head, deployed, disk, apmReceipt, torn, owner>> /\ run.pc = "apm"
  BY DEF CheckApm, history
<1>b. run' = IF Apm \notin run.ready THEN [now EXCEPT !.failed = @ \/ Apm \in run.only]
             ELSE IF _is_apm_install_up_to_date(run.at) THEN [now EXCEPT !.unchanged = TRUE]
             ELSE [now EXCEPT !.pc = "install"]
  BY DEF CheckApm
<1>c. run \in Session /\ run.at \in Checkouts BY <1>a DEF IInv, Types, InHand
<1>d. head[run.at].lock \in Locks BY <1>c, CommitsTyped DEF IInv, Types
<1>e. /\ run' \in Session /\ run'.at = run.at /\ run'.pins = run.pins /\ run'.only = run.only
      /\ run'.todo = run.todo /\ run'.ready = run.ready /\ run'.lock = head[run.at].lock
      /\ run'.pc \in {"done", "install"}
      /\ (~run'.failed => ~run.failed)
      /\ run'.unchanged => \/ run.unchanged
                           \/ Apm \in run.ready /\ run'.pc = "done" /\ _is_apm_install_up_to_date(run.at)
      /\ run'.pc = "install" => Apm \in run.ready
      /\ run'.pc = "done" /\ ~run'.failed /\ Apm \in run.only => run'.unchanged
  <2>0. /\ now \in Session /\ now.at = run.at /\ now.pins = run.pins /\ now.only = run.only
        /\ now.todo = run.todo /\ now.ready = run.ready /\ now.lock = head[run.at].lock
        /\ now.pc = "done" /\ (now.failed <=> run.failed) /\ (now.unchanged <=> run.unchanged)
    BY <1>c, <1>d DEF Session, AfterTools
  <2>s. "done" # "install" OBVIOUS
  <2> HIDE DEF now
  <2>1. CASE Apm \notin run.ready
    <3>1. run' = [now EXCEPT !.failed = @ \/ Apm \in run.only] BY <1>b, <2>1
    <3>2. /\ run' \in Session /\ run'.at = now.at /\ run'.pins = now.pins /\ run'.only = now.only
          /\ run'.todo = now.todo /\ run'.ready = now.ready /\ run'.lock = now.lock
          /\ run'.pc = now.pc /\ (run'.failed <=> now.failed \/ Apm \in run.only)
          /\ (run'.unchanged <=> now.unchanged)
      BY <2>0, <3>1 DEF Session
    <3> QED BY <2>0, <2>s, <3>2
  <2>2. CASE Apm \in run.ready /\ _is_apm_install_up_to_date(run.at)
    <3>1. run' = [now EXCEPT !.unchanged = TRUE] BY <1>b, <2>2
    <3>2. /\ run' \in Session /\ run'.at = now.at /\ run'.pins = now.pins /\ run'.only = now.only
          /\ run'.todo = now.todo /\ run'.ready = now.ready /\ run'.lock = now.lock
          /\ run'.pc = now.pc /\ (run'.failed <=> now.failed) /\ run'.unchanged
      BY <2>0, <3>1 DEF Session
    <3> QED BY <2>0, <2>2, <3>2
  <2>3. CASE Apm \in run.ready /\ ~_is_apm_install_up_to_date(run.at)
    <3>1. run' = [now EXCEPT !.pc = "install"] BY <1>b, <2>3
    <3>2. /\ run' \in Session /\ run'.at = now.at /\ run'.pins = now.pins /\ run'.only = now.only
          /\ run'.todo = now.todo /\ run'.ready = now.ready /\ run'.lock = now.lock
          /\ run'.pc = "install" /\ (run'.failed <=> now.failed) /\ (run'.unchanged <=> now.unchanged)
      BY <2>0, <3>1 DEF Session, AfterTools
    <3> QED BY <2>0, <2>s, <2>3, <3>2
  <2> QED BY <2>1, <2>2, <2>3
<1>1. (InHand /\ HalfMade /\ ReceiptsVouch /\ TreesMatch /\ ReadyHas)'
  BY <1>a, <1>e, AfterToolsKeeps DEF AfterTools
<1>2. Types' BY <1>a, <1>e DEF IInv, Types
<1>3. Asked' BY <1>a, <1>e DEF IInv, Asked, OnTool, AfterTools
<1>u. ~run.unchanged BY <1>a DEF IInv, Owned
<1>4. Owned' BY <1>a, <1>e, <1>u DEF IInv, Owned
<1>5. UnchangedIsDeployed'
  <2> SUFFICES ASSUME run'.unchanged, owner = run.at
               PROVE  deployed[run.at] = [apm |-> disk[Apm].entry, lock |-> run'.lock, hooks |-> TRUE]
    BY <1>a, <1>e DEF UnchangedIsDeployed
  <2>1. _is_apm_install_up_to_date(run.at) /\ Apm \in run.ready BY <1>e, <1>u
  <2>2. /\ apmReceipt.lock = run'.lock /\ apmReceipt.lock # None
        /\ disk[Apm].receipt # NoReceipt
        /\ disk[Apm].receipt.installed = apmReceipt.apm
        /\ deployed[run.at].hooks
    BY <1>d, <1>e, <2>1 DEF _is_apm_install_up_to_date
  <2>3. disk[Apm].entry = apmReceipt.apm BY <2>1, <2>2 DEF IInv, ReadyHas, ReceiptsVouch
  <2>4. deployed[run.at] # Undeployed BY <2>2 DEF Undeployed
  <2> QED BY <1>c, <2>2, <2>3, <2>4 DEF IInv, Owned
<1> QED BY <1>1, <1>2, <1>3, <1>4, <1>5 DEF IInv

LEMMA InstallKeeps == ASSUME IInv, run_apm_install PROVE IInv'
<1> USE ConstantsApart DEF Distinct
<1>a. UNCHANGED <<head, disk, apmReceipt, torn>> /\ run.pc = "install" /\ owner' = None
  BY DEF run_apm_install
<1>c. /\ run \in Session /\ run.at \in Checkouts /\ deployed \in [Checkouts -> Deployment]
      /\ ~run.unchanged /\ disk[Apm].entry \in File
  BY <1>a DEF IInv, Types, InHand, Owned, Tool
<1>1. CASE /\ deployed' = [deployed EXCEPT ![run.at] =
                             [apm |-> disk[Apm].entry, lock |-> run.lock, hooks |-> TRUE]]
           /\ run' = [run EXCEPT !.pc = "record"]
  <2>a. /\ run' \in Session /\ run'.pc = "record" /\ run'.at = run.at /\ run'.pins = run.pins
        /\ run'.only = run.only /\ run'.todo = run.todo /\ run'.ready = run.ready
        /\ run'.lock = run.lock /\ run'.failed = run.failed /\ ~run'.unchanged
    BY <1>1, <1>c DEF Session, AfterTools
  <2>b. /\ deployed' \in [Checkouts -> Deployment]
        /\ deployed'[run.at] = [apm |-> disk[Apm].entry, lock |-> run.lock, hooks |-> TRUE]
    BY <1>1, <1>c DEF Deployment, Session
  <2>1. (InHand /\ HalfMade /\ ReceiptsVouch /\ TreesMatch /\ ReadyHas)'
    BY <1>a, <2>a, AfterToolsKeeps DEF AfterTools
  <2>2. Types' BY <1>a, <2>a, <2>b DEF IInv, Types
  <2>3. Asked' BY <1>a, <2>a DEF IInv, Asked, OnTool, AfterTools
  <2>4. Owned' BY <1>a, <2>a, <2>b DEF Owned
  <2>5. UnchangedIsDeployed' BY <2>a DEF UnchangedIsDeployed
  <2> QED BY <2>1, <2>2, <2>3, <2>4, <2>5 DEF IInv
<1>2. CASE /\ run' \in {[run EXCEPT !.pc = "done", !.failed = TRUE], Idle}
           /\ \E hooks \in {deployed[run.at].hooks, TRUE} :
                deployed' = [deployed EXCEPT ![run.at] =
                               [apm |-> Partial, lock |-> Partial, hooks |-> hooks]]
  <2>b. deployed' \in [Checkouts -> Deployment]
    <3>1. deployed[run.at].hooks \in BOOLEAN BY <1>c DEF Deployment
    <3>2. PICK hooks \in BOOLEAN :
            deployed' = [deployed EXCEPT ![run.at] =
                           [apm |-> Partial, lock |-> Partial, hooks |-> hooks]]
      BY <1>2, <3>1
    <3>3. [apm |-> Partial, lock |-> Partial, hooks |-> hooks] \in Deployment
      BY DEF Deployment, File
    <3> QED BY <1>c, <3>2, <3>3
  <2>3. CASE run' = Idle
    <3>a. /\ run' \in Session /\ run'.pc = "idle" /\ run'.ready = {} /\ run'.unchanged = FALSE
          /\ run'.todo = {} /\ run'.only = {}
      BY <2>3 DEF Idle, Session, File
    <3>1. Types' BY <1>a, <2>b, <3>a DEF IInv, Types
    <3>2. (InHand /\ HalfMade /\ ReadyHas)' BY <3>a DEF InHand, HalfMade, ReadyHas, OnTool, OnFiles
    <3>3. (ReceiptsVouch /\ TreesMatch)' BY <1>a DEF IInv, ReceiptsVouch, TreesMatch
    <3>4. Asked' BY <3>a DEF Asked, OnTool, AfterTools
    <3>5. (Owned /\ UnchangedIsDeployed)' BY <1>a, <3>a DEF Owned, UnchangedIsDeployed
    <3> QED BY <3>1, <3>2, <3>3, <3>4, <3>5 DEF IInv
  <2>4. CASE run' = [run EXCEPT !.pc = "done", !.failed = TRUE]
    <3>a. /\ run' \in Session /\ run'.pc = "done" /\ run'.at = run.at /\ run'.pins = run.pins
          /\ run'.only = run.only /\ run'.todo = run.todo /\ run'.ready = run.ready
          /\ run'.failed = TRUE /\ ~run'.unchanged
      BY <2>4, <1>c DEF Session, AfterTools
    <3>1. (InHand /\ HalfMade /\ ReceiptsVouch /\ TreesMatch /\ ReadyHas)'
      BY <1>a, <3>a, AfterToolsKeeps DEF AfterTools
    <3>2. Types' BY <1>a, <2>b, <3>a DEF IInv, Types
    <3>3. Asked' BY <1>a, <3>a DEF IInv, Asked, OnTool, AfterTools
    <3>4. (Owned /\ UnchangedIsDeployed)' BY <1>a, <3>a DEF Owned, UnchangedIsDeployed
    <3> QED BY <3>1, <3>2, <3>3, <3>4 DEF IInv
  <2> QED BY <1>2, <2>3, <2>4
<1> QED BY <1>1, <1>2 DEF run_apm_install

LEMMA WriteApmReceiptKeeps == ASSUME IInv, WriteApmReceipt PROVE IInv'
<1> USE ConstantsApart DEF Distinct
<1>a. UNCHANGED <<head, deployed, disk, torn>> /\ run.pc = "record"
  BY DEF WriteApmReceipt
<1>c. /\ run \in Session /\ run.at \in Checkouts /\ ~run.unchanged /\ owner = None
      /\ disk[Apm].entry \in File /\ disk[Apm].receipt.installed \in File
      /\ deployed[run.at] = [apm |-> disk[Apm].entry, lock |-> run.lock, hooks |-> TRUE]
  BY <1>a DEF IInv, Types, InHand, Owned, Tool, Receipt
<1>d. head[run.at].lock \in Locks BY <1>c, CommitsTyped DEF IInv, Types
<1>e. disk[Apm].entry = disk[Apm].receipt.installed
  <2>1. Apm \in run.ready /\ run.pins[Apm] \in Pins BY <1>a DEF IInv, Asked, InHand
  <2>2. disk[Apm].receipt.asset = run.pins[Apm] /\ disk[Apm].entry = run.pins[Apm]
    BY <2>1 DEF IInv, ReadyHas
  <2> QED BY <2>1, <2>2 DEF IInv, ReceiptsVouch, NoReceipt
<1>f. apmReceipt' \in [lock : Locks \cup {None}, apm : File] /\ owner' \in Checkouts \cup {None}
  BY <1>c, <1>d DEF WriteApmReceipt, IInv, Types, File
<1>g. owner' \in Checkouts => owner' = run.at /\ deployed[run.at] =
                                  [apm |-> apmReceipt'.apm, lock |-> apmReceipt'.lock, hooks |-> TRUE]
  <2> SUFFICES ASSUME owner' \in Checkouts
               PROVE  owner' = run.at /\ deployed[run.at] =
                        [apm |-> apmReceipt'.apm, lock |-> apmReceipt'.lock, hooks |-> TRUE]
    OBVIOUS
  <2>1. /\ apmReceipt' = [lock |-> head[run.at].lock, apm |-> disk[Apm].receipt.installed]
        /\ owner' = IF head[run.at].lock = run.lock THEN run.at ELSE None
    BY <1>c DEF WriteApmReceipt
  <2> QED BY <1>c, <1>e, <2>1
<1>h. run' \in {[run EXCEPT !.pc = "done"], [run EXCEPT !.pc = "done", !.failed = TRUE], Idle}
  BY DEF WriteApmReceipt
<1>1. CASE run' = Idle
  <2>a. /\ run' \in Session /\ run'.pc = "idle" /\ run'.ready = {} /\ run'.unchanged = FALSE
        /\ run'.todo = {} /\ run'.only = {}
    BY <1>1 DEF Idle, Session, File
  <2>1. Types' BY <1>a, <1>f, <2>a DEF IInv, Types
  <2>2. (InHand /\ HalfMade /\ ReadyHas)' BY <2>a DEF InHand, HalfMade, ReadyHas, OnTool, OnFiles
  <2>3. (ReceiptsVouch /\ TreesMatch)' BY <1>a DEF IInv, ReceiptsVouch, TreesMatch
  <2>4. Asked' BY <2>a DEF Asked, OnTool, AfterTools
  <2>5. (Owned /\ UnchangedIsDeployed)' BY <1>a, <1>g, <2>a DEF Owned, UnchangedIsDeployed
  <2> QED BY <2>1, <2>2, <2>3, <2>4, <2>5 DEF IInv
<1>2. CASE run' # Idle
  <2>a. /\ run' \in Session /\ run'.pc = "done" /\ run'.at = run.at /\ run'.pins = run.pins
        /\ run'.only = run.only /\ run'.todo = run.todo /\ run'.ready = run.ready
        /\ run'.lock = run.lock /\ (~run'.failed => ~run.failed) /\ ~run'.unchanged
    <3>1. CASE run' = [run EXCEPT !.pc = "done"] BY <3>1, <1>c DEF Session, AfterTools
    <3>2. CASE run' = [run EXCEPT !.pc = "done", !.failed = TRUE]
      BY <3>2, <1>c DEF Session, AfterTools
    <3> QED BY <1>h, <1>2, <3>1, <3>2
  <2>1. (InHand /\ HalfMade /\ ReceiptsVouch /\ TreesMatch /\ ReadyHas)'
    BY <1>a, <2>a, AfterToolsKeeps DEF AfterTools
  <2>2. Types' BY <1>a, <1>f, <2>a DEF IInv, Types
  <2>3. Asked' BY <1>a, <1>c, <2>a DEF IInv, Asked, OnTool, AfterTools
  <2>4. (Owned /\ UnchangedIsDeployed)' BY <1>a, <1>g, <2>a DEF Owned, UnchangedIsDeployed
  <2> QED BY <2>1, <2>2, <2>3, <2>4 DEF IInv
<1> QED BY <1>1, <1>2

LEMMA EndKeeps == ASSUME IInv, End PROVE IInv'
<1>a. UNCHANGED <<head, deployed, disk, apmReceipt, torn, owner>> /\ run' = Idle
  BY DEF End, history
<1>b. /\ run' \in Session /\ run'.pc = "idle" /\ run'.ready = {} /\ run'.unchanged = FALSE
      /\ run'.todo = {} /\ run'.only = {}
  BY <1>a DEF Idle, Session, File
<1>1. Types' BY <1>a, <1>b DEF IInv, Types
<1>2. (InHand /\ HalfMade /\ ReadyHas)' BY <1>b DEF InHand, HalfMade, ReadyHas, OnTool, OnFiles
<1>3. (ReceiptsVouch /\ TreesMatch)' BY <1>a DEF IInv, ReceiptsVouch, TreesMatch
<1>4. Asked' BY <1>b DEF Asked, OnTool, AfterTools
<1>5. (Owned /\ UnchangedIsDeployed)' BY <1>a, <1>b DEF IInv, Owned, UnchangedIsDeployed
<1> QED BY <1>1, <1>2, <1>3, <1>4, <1>5 DEF IInv

-----------------------------------------------------------------------------
LEMMA NextKeeps == IInv /\ [Next]_vars => IInv'
<1> SUFFICES ASSUME IInv, [Next]_vars PROVE IInv' OBVIOUS
<1>1. ASSUME NEW c \in Checkouts, Checkout(c) PROVE IInv' BY <1>1, CheckoutKeeps
<1>2. ASSUME NEW t \in Tools, SpoilTool(t) PROVE IInv' BY <1>2, SpoilToolKeeps
<1>3. CASE SpoilDeployment BY <1>3, SpoilDeploymentKeeps
<1>4. ASSUME NEW c \in Checkouts, NEW only \in SUBSET Tools, Start(c, only) PROVE IInv'
  BY <1>4, StartKeeps
<1>5. CASE Install
  BY <1>5, WriteKeeps, ClearKeeps, UnpackKeeps, ShimKeeps, SmokeKeeps, WriteReceiptKeeps DEF Install
<1>6. CASE SessionStep
  BY <1>5, <1>6, CheckKeeps, DownloadKeeps, WriteEnvKeeps, CheckApmKeeps, InstallKeeps,
     WriteApmReceiptKeeps, EndKeeps DEF SessionStep
<1>7. CASE Fault BY <1>7, FaultKeeps
<1>8. CASE UNCHANGED vars
  <2>1. UNCHANGED <<head, deployed, disk, apmReceipt, run, torn, owner>> BY <1>8 DEF vars, history
  <2>2. Types' /\ InHand' /\ HalfMade' BY <2>1 DEF IInv, Types, InHand, HalfMade
  <2>3. ReceiptsVouch' /\ TreesMatch' /\ ReadyHas' BY <2>1 DEF IInv, ReceiptsVouch, TreesMatch, ReadyHas
  <2>4. Asked' /\ Owned' /\ UnchangedIsDeployed' BY <2>1 DEF IInv, Asked, Owned, UnchangedIsDeployed
  <2> QED BY <2>2, <2>3, <2>4 DEF IInv
<1> QED BY <1>1, <1>2, <1>3, <1>4, <1>6, <1>7, <1>8 DEF Next

LEMMA Inductive == Spec => []IInv
BY InitIInv, NextKeeps, PTL DEF Spec

\* Types, and every step on a tool's files is made with that tool's verified
\* asset in hand (provision_tool).
THEOREM TypeCorrect == Spec => []TypeOK
<1>1. IInv => TypeOK
  BY DEF IInv, Types, InHand, Session, Deployment, Tool, File, OnTool, OnFiles, AfterTools, TypeOK
<1> QED BY <1>1, Inductive, PTL

\* A receipt never vouches for anything but the pinned asset's own entry
\* point (_write_receipt after the hash check and the smoke test).
THEOREM ReceiptsVouchAlways == Spec => []ReceiptsVouch
<1>1. IInv => ReceiptsVouch BY DEF IInv
<1> QED BY <1>1, Inductive, PTL

\* What a session reports as installed or skipped has the pinned entry point,
\* shim and support tree, unless a session was cut off replacing that tree
\* (provision_all's results).
THEOREM ReadyToolsAreWhole == Spec => []ReadyIsWhole
<1>1. ASSUME IInv PROVE ReadyIsWhole
  <2>1. ASSUME NEW t \in run.ready
        PROVE  disk[t].entry = run.pins[t] /\ (t \in Wrapped => disk[t].shim)
    BY <1>1, <2>1 DEF IInv, ReadyHas
  <2>2. ASSUME NEW t \in run.ready, t \in Wrapped, t \notin torn
        PROVE  disk[t].support = run.pins[t]
    <3>1. run.pc # "idle" /\ t \in Tools
      BY <1>1, <2>2, ConstantsApart DEF IInv, InHand, Distinct
    <3>2. disk[t].entry = run.pins[t] /\ run.pins[t] \in Pins
      BY <1>1, <2>2, <3>1 DEF IInv, InHand, ReadyHas
    <3> QED BY <1>1, <2>2, <3>2 DEF IInv, TreesMatch
  <2> QED BY <2>1, <2>2 DEF ReadyIsWhole
<1> QED BY <1>1, Inductive, PTL

\* Exit code 0 is a complete session, and "UNCHANGED: apm install" is true of
\* a checkout that owns the receipt (main, _is_apm_install_up_to_date).
THEOREM SuccessIsTrue == Spec => []SuccessIsComplete
<1>1. IInv => SuccessIsComplete
  BY DEF IInv, Asked, UnchangedIsDeployed, SuccessIsComplete, OnTool, AfterTools
<1> QED BY <1>1, Inductive, PTL

\* No session takes an install away before its verified successor is there
\* (provision_tool clears the tree only after verify_and_download).
THEOREM NothingLostToADownload == Spec => ReplacedOnlyByVerified
<1> DEFINE Kept == \A t \in Tools : run.pc # "idle" /\ disk'[t] # disk[t] =>
                                       run.cur = t /\ run.data = run.pins[t]
<1>1. ASSUME IInv, Next PROVE Kept
  <2> SUFFICES ASSUME NEW t \in Tools, run.pc # "idle", disk'[t] # disk[t]
               PROVE  run.cur = t /\ run.data = run.pins[t]
    OBVIOUS
  <2>a. disk \in [Tools -> Tool] BY <1>1 DEF IInv, Types
  <2>b. run.pc \in OnFiles => run.data = run.pins[run.cur] BY <1>1 DEF IInv, InHand
  <2>c. ASSUME run.pc \in OnFiles, NEW d, disk' = [disk EXCEPT ![run.cur] = d]
        PROVE  run.cur = t /\ run.data = run.pins[t]
    BY <2>a, <2>b, <2>c
  <2>1. CASE Install
    <3>1. CASE Write \/ Clear \/ Shim \/ Smoke
      BY <2>c, <3>1 DEF Write, Clear, Shim, Smoke, Step, OnFiles, OnTool
    <3>2. CASE Unpack BY <2>a, <2>b, <3>2 DEF Unpack, OnFiles, OnTool
    <3>3. CASE WriteReceipt BY <2>a, <2>b, <3>3 DEF WriteReceipt, OnFiles, OnTool
    <3> QED BY <2>1, <3>1, <3>2, <3>3 DEF Install
  <2>2. CASE Fault
    <3>1. PICK d \in Leftovers(run.cur) : disk' = [disk EXCEPT ![run.cur] = d] BY <2>2 DEF Fault
    <3>2. CASE run.pc = "download"
      <4>1. disk' = disk BY <2>a, <3>1, <3>2 DEF Leftovers
      <4> QED BY <4>1
    <3> QED BY <2>2, <2>c, <3>1, <3>2 DEF Fault, OnFiles, OnTool
  <2>3. CASE SessionStep
    BY <2>1, <2>3 DEF SessionStep, Check, Download, WriteEnv, CheckApm, run_apm_install,
                      WriteApmReceipt, End
  <2>4. run.pc = "idle" \/ disk' = disk \/ SessionStep \/ Fault
    BY <1>1 DEF Next, Checkout, SpoilTool, SpoilDeployment, Start
  <2> QED BY <2>2, <2>3, <2>4
<1>2. IInv /\ [Next]_vars => [Kept]_vars BY <1>1
<1>3. Spec => [][Kept]_vars BY <1>2, Inductive, PTL DEF Spec
<1> QED BY <1>3 DEF ReplacedOnlyByVerified
=============================================================================
