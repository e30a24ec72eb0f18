--------------------------- MODULE VisualCompanion ---------------------------
(***************************************************************************)
(* The visual companion of skills/eliciting-a-design: servers that          *)
(* start-server.sh starts one after another, or at the same time, for one   *)
(* project (server.cjs), and the user's browser tab (helper.js).  Each      *)
(* server has a session directory of its own, with the agent's screens and  *)
(* the file of the user's clicks; all share the project's .last-port and    *)
(* .last-token.                                                             *)
(***************************************************************************)
EXTENDS Naturals, Sequences, SequencesExt, FiniteSets

CONSTANTS
    Servers,    \* 1 .. n, in the order in which they are started
    Ports,      \* the ports a server can bind
    None,
    MaxPushes, MaxClicks,   \* bounds: screens pushed, clicks made
    Troubles    \* bound: files that cannot be written, ports taken by another
                \* program, servers killed while they start, pages reloaded by
                \* hand

ASSUME CompanionAssumption ==
    /\ Servers \subseteq Nat /\ None \notin Servers \cup Ports
    /\ {MaxPushes, MaxClicks, Troubles} \subseteq Nat

VARIABLES
    files,      \* .last-port and .last-token of the project
    srv,        \* srv[s]: the process s and its session directory
    tab,        \* the user's tab
    \* history
    pushes, clicks, troubles,  \* so far
    raced,      \* two servers made their first start at the same time
    spoiled     \* a port or token could not be written down

history == <<pushes, clicks, troubles, raced, spoiled>>
vars    == <<files, srv, tab, history>>

-----------------------------------------------------------------------------
Screens == 1 .. MaxPushes
Waiting == 0    \* the page that is served when there is no screen
Click   == [id : 1 .. MaxClicks, on : Screens, early : BOOLEAN]

\* The session key a server makes is as good as its name.
NoServer ==
    [pc |-> "none", port |-> None, token |-> None, kept |-> FALSE, fallback |-> FALSE,
     content |-> <<>>, known |-> {}, timers |-> {}, events |-> <<>>,
     wire |-> <<>>, reload |-> FALSE]

Gone == [NoServer EXCEPT !.pc = "gone"]

\* page: what the browser shows; ws: the server its socket is open to; first:
\* its server had not fallen back to another port; early: its screen was
\* loaded before the server knew of it.
NoTab ==
    [page |-> "none", port |-> None, key |-> None, first |-> FALSE, shown |-> Waiting,
     early |-> FALSE, ws |-> None, queue |-> <<>>, down |-> "up"]

Init ==
    /\ files = [port |-> None, token |-> None]
    /\ srv = [s \in Servers |-> NoServer]
    /\ tab = NoTab
    /\ pushes = 0 /\ clicks = 0 /\ troubles = 0
    /\ raced = FALSE /\ spoiled = FALSE

Trouble == troubles < Troubles /\ troubles' = troubles + 1

Starting == {"token?", "listen", "port", "token"}
Bound    == {"port", "token", "live"}
Live(s)  == srv[s].pc = "live"
Holds(s, port) == srv[s].pc \in Bound /\ srv[s].port = port
Newest(s) == IF srv[s].content = <<>> THEN Waiting ELSE Last(srv[s].content)

-----------------------------------------------------------------------------
(* A server starts: both files are read, the port is bound, and what was    *)
(* bound is written down for the next one.                                  *)

\* Nothing is written down yet, and another server is about to.
FirstStarts(s) ==
    /\ files.port = None \/ files.token = None
    /\ \E r \in Servers \ {s} : srv[r].pc \in Starting

preferredPort(s) ==
    /\ srv[s].pc = "none"
    /\ \A r \in Servers : r < s => srv[r].pc # "none"
    /\ \E port \in IF files.port # None THEN {files.port} ELSE Ports :
         srv' = [srv EXCEPT ![s].pc = "token?", ![s].port = port]
    /\ raced' = (raced \/ FirstStarts(s))
    /\ UNCHANGED <<files, tab, pushes, clicks, troubles, spoiled>>

\* Mutant: a server makes a key of its own every time.
TokenFor_New(s) == s

TokenFor(s) == IF files.token # None THEN files.token ELSE s

initialToken(s) ==
    /\ srv[s].pc = "token?"
    /\ srv' = [srv EXCEPT ![s].pc = "listen", ![s].kept = (files.token # None),
                          ![s].token = TokenFor(s)]
    /\ raced' = (raced \/ FirstStarts(s))
    /\ UNCHANGED <<files, tab, pushes, clicks, troubles, spoiled>>

\* Mutant: a fallback is written down as well.
Records_Always(s) == TRUE

\* The holder of the preferred port has an open tab of its own.
Records(s) == ~srv[s].fallback

\* server.listen: the port may be held, by a companion or by another program.
Listen(s) ==
    /\ srv[s].pc = "listen"
    /\ \E taken \in BOOLEAN :
         /\ (\E r \in Servers \ {s} : Holds(r, srv[s].port)) => taken
         /\ IF taken /\ ~\E r \in Servers \ {s} : Holds(r, srv[s].port)
            THEN Trouble ELSE UNCHANGED troubles
         /\ \/ ~taken /\ srv' = [srv EXCEPT ![s].pc = "port"]
            \/ taken /\ srv[s].fallback /\ srv' = [srv EXCEPT ![s] = Gone]
            \/ /\ taken /\ ~srv[s].fallback
               /\ \E port \in Ports :
                    srv' = [srv EXCEPT ![s].fallback = TRUE, ![s].port = port,
                                       ![s].token = IF srv[s].kept THEN s ELSE @]
    /\ UNCHANGED <<files, tab, pushes, clicks, raced, spoiled>>

\* onListen, two files that other servers read and write meanwhile.
WriteDown(s, pc, next, after) ==
    /\ srv[s].pc = pc
    /\ \/ /\ files' = IF Records(s) THEN after ELSE files
          /\ UNCHANGED <<troubles, spoiled>>
       \/ Records(s) /\ Trouble /\ spoiled' = TRUE /\ UNCHANGED files
    /\ srv' = [srv EXCEPT ![s].pc = next]
    /\ UNCHANGED <<tab, pushes, clicks, raced>>

WritePort(s)  == WriteDown(s, "port", "token", [files EXCEPT !.port = srv[s].port])
WriteToken(s) == WriteDown(s, "token", "live", [files EXCEPT !.token = srv[s].token])

\* Idle for hours, its owner gone, stop-server.sh, or a kill: its sockets go
\* with it, and what was on the wire; no later server uses its directory.
Stop(s) ==
    /\ \/ Live(s) /\ UNCHANGED troubles
       \/ srv[s].pc \in Starting /\ Trouble
    /\ srv' = [srv EXCEPT ![s] = Gone]
    /\ UNCHANGED <<files, tab, pushes, clicks, raced, spoiled>>

-----------------------------------------------------------------------------
(* Screens and clicks. *)

\* The agent writes a screen, under a new name as the skill asks it to.
Push(s) ==
    /\ Live(s)
    /\ pushes < MaxPushes
    /\ pushes' = pushes + 1
    /\ srv' = [srv EXCEPT ![s].content = Append(@, pushes'), ![s].timers = @ \cup {pushes'}]
    /\ UNCHANGED <<files, tab, clicks, troubles, raced, spoiled>>

\* The agent writes its i-th screen again, which makes it the newest.
PushAgain(s, i) ==
    /\ Live(s)
    /\ i \in DOMAIN srv[s].content
    /\ pushes < MaxPushes
    /\ pushes' = pushes + 1
    /\ srv' = [srv EXCEPT ![s].content = Append(RemoveAt(@, i), @[i]),
                          ![s].timers = @ \cup {srv[s].content[i]}]
    /\ UNCHANGED <<files, tab, clicks, troubles, raced, spoiled>>

\* Mutant: every file the watcher reports is a new screen.
Learn_Nothing(known, n) == known

Learn(known, n) == known \cup {n}

\* Mutant: an update is not broadcast.
Tells_NewOnly(s, n) == n \notin srv[s].known

\* broadcast: to the sockets that are open now.
Tells(s, n) == TRUE

\* The debounce timer of screen n.
Debounced(s, n) ==
    /\ Live(s)
    /\ n \in srv[s].timers
    /\ srv' = [srv EXCEPT
                 ![s].timers = @ \ {n},
                 ![s].known = Learn(@, n),
                 ![s].events = IF n \notin srv[s].known THEN <<>> ELSE @,
                 ![s].reload = @ \/ (tab.ws = s /\ Tells(s, n))]
    /\ UNCHANGED <<files, tab, history>>

\* Mutant: a frame is not taken off the buffer.
handleMessage_Again(s) ==
    /\ Live(s)
    /\ srv[s].wire # <<>>
    /\ srv' = [srv EXCEPT ![s].events = Append(@, Head(srv[s].wire))]
    /\ UNCHANGED <<files, tab, history>>

\* handleMessage of the oldest frame.
handleMessage(s) ==
    /\ Live(s)
    /\ srv[s].wire # <<>>
    /\ srv' = [srv EXCEPT ![s].wire = Tail(@), ![s].events = Append(@, Head(srv[s].wire))]
    /\ UNCHANGED <<files, tab, history>>

-----------------------------------------------------------------------------
(* The tab. *)

\* GET /, through the keyed bootstrap or with its cookie; whatever the page
\* before held is lost.
Page(port, key) ==
    IF \E s \in Servers : Live(s) /\ srv[s].port = port
    THEN LET s == CHOOSE r \in Servers : Live(r) /\ srv[r].port = port
         IN  IF srv[s].token = key
             THEN [NoTab EXCEPT !.page = "live", !.port = port, !.key = key,
                                !.first = ~srv[s].fallback, !.shown = Newest(s),
                                !.early = Newest(s) # Waiting /\ Newest(s) \notin srv[s].known]
             ELSE [NoTab EXCEPT !.page = "forbidden"]
    ELSE [NoTab EXCEPT !.page = "error"]

\* The old socket closes, and a frame to it is dropped.
Unplugged == [s \in Servers |-> [srv[s] EXCEPT !.reload = FALSE]]

\* The user opens, or reloads by hand, the URL of server s.
Open(s) ==
    /\ Live(s)
    /\ IF tab.page = "live" /\ tab.port = srv[s].port /\ tab.key = srv[s].token
       THEN Trouble ELSE UNCHANGED troubles
    /\ tab' = Page(srv[s].port, srv[s].token)
    /\ srv' = Unplugged
    /\ UNCHANGED <<files, pushes, clicks, raced, spoiled>>

\* ws.onmessage: window.location.reload().
onmessage ==
    /\ \E s \in Servers : tab.ws = s /\ srv[s].reload
    /\ tab' = Page(tab.port, tab.key)
    /\ srv' = Unplugged
    /\ UNCHANGED <<files, history>>

\* Mutant: the queue is not emptied.
Flushed_Kept(queue) == queue

\* What eventQueue holds when all of it has been sent.
Flushed(queue) == <<>>

\* Mutant: a tab that was paused is left as it is.
Recovered_Stays(old, new) == new

\* A tab whose overlay was shown loads the page again.
Recovered(old, new) == IF old.down = "long" THEN Page(old.port, old.key) ELSE new

\* handleUpgrade, then ws.onopen.
Connect(s) ==
    /\ tab.page = "live" /\ tab.ws = None
    /\ Live(s) /\ srv[s].port = tab.port /\ srv[s].token = tab.key
    /\ tab' = Recovered(tab, [tab EXCEPT !.ws = s, !.down = "up", !.queue = Flushed(@)])
    /\ srv' = [srv EXCEPT ![s].wire = @ \o tab.queue, ![s].reload = FALSE]
    /\ UNCHANGED <<files, history>>

\* ws.onclose: of a socket that was open, or of an attempt that failed.  The
\* overlay is shown by a later one, if the outage is long enough.
onclose ==
    /\ tab.page = "live"
    /\ IF tab.ws # None
       THEN ~Live(tab.ws) /\ tab' = [tab EXCEPT !.ws = None, !.down = "short"]
       ELSE /\ ~\E s \in Servers : Live(s) /\ srv[s].port = tab.port /\ srv[s].token = tab.key
            /\ tab' = [tab EXCEPT !.down = IF @ = "up" THEN "short" ELSE "long"]
    /\ UNCHANGED <<files, srv, history>>

\* sendEvent.  A socket counts as open until its onclose.
ClickOn ==
    LET click == [id |-> clicks + 1, on |-> tab.shown, early |-> tab.early]
    IN  /\ tab.page = "live" /\ tab.shown # Waiting
        /\ clicks < MaxClicks
        /\ clicks' = clicks + 1
        /\ IF tab.ws = None
           THEN tab' = [tab EXCEPT !.queue = Append(@, click)] /\ UNCHANGED srv
           ELSE /\ srv' = IF Live(tab.ws) THEN [srv EXCEPT ![tab.ws].wire = Append(@, click)] ELSE srv
                /\ UNCHANGED tab
        /\ UNCHANGED <<files, pushes, troubles, raced, spoiled>>

-----------------------------------------------------------------------------
ServerStep(s) ==
    \/ initialToken(s) \/ Listen(s) \/ WritePort(s) \/ WriteToken(s)
    \/ \E n \in Screens : Debounced(s, n)
    \/ handleMessage(s)

TabStep == onmessage \/ onclose \/ \E s \in Servers : Connect(s)

Next ==
    \/ \E s \in Servers : preferredPort(s) \/ ServerStep(s) \/ Stop(s)
    \/ \E s \in Servers : Push(s) \/ Open(s) \/ \E i \in Screens : PushAgain(s, i)
    \/ TabStep
    \/ ClickOn

Spec == Init /\ [][Next]_vars

\* A process that runs goes on, its timers fire, and a tab goes on trying to
\* reconnect.
FairSpec == Spec /\ WF_vars(TabStep) /\ \A s \in Servers : WF_vars(ServerStep(s))

-----------------------------------------------------------------------------
(* Properties.                                                              *)

\* Types; a socket is open on a page only, and what was queued for it has been
\* sent; no two servers hold a port.
TypeOK ==
    /\ files \in [port : Ports \cup {None}, token : Servers \cup {None}]
    /\ srv \in [Servers ->
                  [pc : Starting \cup {"none", "live", "gone"}, port : Ports \cup {None},
                   token : Servers \cup {None}, kept : BOOLEAN, fallback : BOOLEAN,
                   content : Seq(Screens), known : SUBSET Screens, timers : SUBSET Screens,
                   events : Seq(Click), wire : Seq(Click), reload : BOOLEAN]]
    /\ tab \in [page : {"none", "live", "error", "forbidden"}, port : Ports \cup {None},
                key : Servers \cup {None}, first : BOOLEAN, shown : {Waiting} \cup Screens,
                early : BOOLEAN, ws : Servers \cup {None}, queue : Seq(Click),
                down : {"up", "short", "long"}]
    /\ tab.ws # None => tab.page = "live" /\ tab.queue = <<>> /\ tab.down = "up"
    /\ \A s, r \in Servers : s # r /\ srv[s].pc \in Bound => ~Holds(r, srv[s].port)

Orderly == ~raced /\ ~spoiled

\* "it reuses the same port, so the user's open tab reconnects on its own":
\* whichever servers came and went since the tab was loaded, a server on a
\* preferred port has the tab's port and accepts the tab's key.  Not so when
\* two servers made their first start at once or a file could not be written,
\* nor for a tab of a server that had fallen back.
OpenTabIsServed ==
    \A s \in Servers :
        Orderly /\ tab.page = "live" /\ tab.first /\ Live(s) /\ ~srv[s].fallback =>
            srv[s].port = tab.port /\ srv[s].token = tab.key

\* Clicks are recorded in the order they were made, and none twice, through
\* outages, reconnects, reloads and restarts: "The last `choice` event is
\* typically the final selection".
ClicksInOrder ==
    \A s \in Servers :
        LET all == srv[s].events \o srv[s].wire \o (IF tab.ws \in {s, None} THEN tab.queue ELSE <<>>)
        IN  \A i, j \in DOMAIN all : i < j => all[i].id < all[j].id

\* A recorded click goes only when a screen is new, and never one on that
\* screen itself, unless its page was loaded before the server knew of it.
OnlyOldAnswersCleared ==
    [][\A s \in Servers :
         Live(s)' /\ Len(srv'[s].events) < Len(srv[s].events) =>
            \E n \in srv'[s].known \ srv[s].known :
               \A i \in DOMAIN srv[s].events : srv[s].events[i].on # n \/ srv[s].events[i].early]_vars

\* A screen that is pushed, or pushed again, while the tab's socket is open
\* is shown, unless a later one is, or the server goes, or the user leaves.
PushedIsShown ==
    \A s \in Servers, n \in Screens :
        n \in srv[s].timers /\ n = Newest(s) /\ tab.ws = s
            ~> \/ tab.shown = n /\ n \notin srv[s].timers
               \/ n # Newest(s) \/ ~Live(s) \/ tab.port # srv[s].port

\* A tab of an orderly server that is open while a server stays on its
\* preferred port is connected in the end, and after a long outage it shows
\* that server's newest screen first.
TabReconnects ==
    \A s \in Servers :
        <>[](Orderly /\ Live(s) /\ ~srv[s].fallback /\ tab.page = "live" /\ tab.first)
            => []<>(tab.ws = s)

PausedTabRecovers ==
    \A s \in Servers :
        tab.page = "live" /\ tab.down = "long" /\ tab.port = srv[s].port /\ tab.key = srv[s].token /\ Live(s)
            ~> tab.shown = Newest(s) \/ ~Live(s)

=============================================================================
