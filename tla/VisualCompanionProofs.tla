------------------------ MODULE VisualCompanionProofs ------------------------
(***************************************************************************)
(* Proofs about VisualCompanion for any number of servers, ports, screens,  *)
(* clicks and troubles: an open tab is served by whichever server came      *)
(* after its own, clicks are recorded in order, and no answer is dropped    *)
(* for the screen it answers.                                               *)
(***************************************************************************)
EXTENDS VisualCompanion, SequenceTheorems, TLAPS

\* A server, and what the tab can be.
Server ==
    [pc : Starting \cup {"none", "live", "gone"}, port : Ports \cup {None},
     token : Servers \cup {None}, kept : BOOLEAN, fallback : BOOLEAN,
     content : Seq(Screens), known : SUBSET Screens, timers : SUBSET Screens,
     events : Seq(Click), wire : Seq(Click), reload : BOOLEAN]

Tab ==
    [page : {"none", "live", "error", "forbidden"}, port : Ports \cup {None},
     key : Servers \cup {None}, first : BOOLEAN, shown : {Waiting} \cup Screens,
     early : BOOLEAN, ws : Servers \cup {None}, queue : Seq(Click),
     down : {"up", "short", "long"}]

\* Sockets, and the ports that are held.
SocketOpen == tab.ws # None => tab.page = "live" /\ tab.queue = <<>> /\ tab.down = "up"
OneHolder  == \A s, r \in Servers : s # r /\ srv[s].pc \in Bound => ~Holds(r, srv[s].port)

Types ==
    /\ files \in [port : Ports \cup {None}, token : Servers \cup {None}]
    /\ srv \in [Servers -> Server]
    /\ tab \in Tab
    /\ SocketOpen
    /\ OneHolder

Counters ==
    /\ pushes \in 0 .. MaxPushes /\ clicks \in 0 .. MaxClicks
    /\ raced \in BOOLEAN /\ spoiled \in BOOLEAN

-----------------------------------------------------------------------------
(* What the two files say of the servers and of the tab. *)

Started == Starting \cup {"live"}

\* A server that started has a port, and soon a token.
Named ==
    \A s \in Servers :
        /\ srv[s].pc \in Started => srv[s].port # None
        /\ srv[s].pc \in Started \ {"token?"} => srv[s].token # None

\* One server at a time, until both files are there; the port is there first.
OneFirstStart ==
    /\ files.port = None \/ files.token = None =>
         \A s, r \in Servers : srv[s].pc \in Starting /\ srv[r].pc \in Starting => s = r
    /\ files.token # None => files.port # None

\* A server that is not on a fallback has the port and the token of the files,
\* as far as they are there and it is.
Agree ==
    \A s \in Servers : ~srv[s].fallback =>
        /\ srv[s].pc \in Starting /\ files.port # None => srv[s].port = files.port
        /\ srv[s].pc \in Starting \ {"token?"} /\ files.token # None => srv[s].token = files.token
        /\ srv[s].pc = "token" => files.port = srv[s].port
        /\ Live(s) => files.port = srv[s].port /\ files.token = srv[s].token

\* So has the tab.
TabAgrees ==
    tab.page = "live" /\ tab.first =>
        /\ files.port # None /\ files.token # None
        /\ tab.port = files.port /\ tab.key = files.token

FilesInv == Named /\ (Orderly => OneFirstStart /\ Agree /\ TabAgrees)

-----------------------------------------------------------------------------
(* The order of clicks. *)

Ordered(q)   == \A i, j \in DOMAIN q : i < j => q[i].id < q[j].id
Before(q, r) == \A i \in DOMAIN q, j \in DOMAIN r : q[i].id < r[j].id
Made(q)      == \A i \in DOMAIN q : q[i].id <= clicks

\* What was queued for a server when it connects.
Queued(s) == IF tab.ws \in {s, None} THEN tab.queue ELSE <<>>

InOrder(s) ==
    /\ Ordered(srv[s].events) /\ Ordered(srv[s].wire) /\ Ordered(Queued(s))
    /\ Before(srv[s].events, srv[s].wire)
    /\ Before(srv[s].events, Queued(s)) /\ Before(srv[s].wire, Queued(s))

OrderInv ==
    \A s \in Servers : InOrder(s) /\ Made(srv[s].events) /\ Made(srv[s].wire) /\ Made(tab.queue)

-----------------------------------------------------------------------------
(* Screens and what is known of them. *)

\* No server has screen n without knowing of it, and none ever will.
Seen(n) == n <= pushes /\ \A s \in Servers : n \in ToSet(srv[s].content) => n \in srv[s].known

OnSeen(q) == \A i \in DOMAIN q : q[i].early \/ Seen(q[i].on)

\* Screens are numbered as they are made, and timers are set for them.
OwnScreens ==
    /\ \A s \in Servers :
         /\ srv[s].timers \subseteq ToSet(srv[s].content)
         /\ \A n \in ToSet(srv[s].content) : n <= pushes
    /\ \A s, r \in Servers : s # r => ToSet(srv[s].content) \cap ToSet(srv[r].content) = {}

ScreenInv ==
    /\ OwnScreens
    /\ tab.page = "live" /\ tab.shown # Waiting /\ ~tab.early => Seen(tab.shown)
    /\ OnSeen(tab.queue)
    /\ \A s \in Servers : OnSeen(srv[s].events) /\ OnSeen(srv[s].wire)

IInv == Types /\ Counters /\ FilesInv /\ OrderInv /\ ScreenInv

-----------------------------------------------------------------------------
(* Types. *)

LEMMA GoneIs ==
    /\ Gone \in Server /\ NoServer \in Server
    /\ Gone.pc = "gone" /\ NoServer.pc = "none"
    /\ Gone.content = <<>> /\ Gone.timers = {} /\ Gone.events = <<>> /\ Gone.wire = <<>>
    /\ NoServer.content = <<>> /\ NoServer.timers = {} /\ NoServer.events = <<>> /\ NoServer.wire = <<>>
<1>1. <<>> \in Seq(Screens) /\ <<>> \in Seq(Click) BY EmptySeq
<1> QED BY <1>1 DEF Gone, NoServer, Server, Starting

\* What a server has bound and recorded is as it was.
SamePlace(s) ==
    /\ srv'[s].pc = srv[s].pc /\ srv'[s].port = srv[s].port /\ srv'[s].token = srv[s].token
    /\ srv'[s].fallback = srv[s].fallback

\* What its session directory and its socket hold is as it was.
SameSession(s) ==
    /\ srv'[s].content = srv[s].content /\ srv'[s].known = srv[s].known
    /\ srv'[s].timers = srv[s].timers
    /\ srv'[s].events = srv[s].events /\ srv'[s].wire = srv[s].wire

LEMMA Held ==
    ASSUME Types, \A s \in Servers : SamePlace(s)
    PROVE  OneHolder'
BY DEF Types, OneHolder, Holds, SamePlace

-----------------------------------------------------------------------------
(* A server starts and stops. *)

\* Only server s takes a step, and ports are bound only when they are free.
LEMMA OneServer ==
    ASSUME Types, NEW s \in Servers, NEW new \in Server, srv' = [srv EXCEPT ![s] = new],
           \/ new.pc \notin Bound
           \/ srv[s].pc \in Bound /\ new.port = srv[s].port
           \/ \A r \in Servers \ {s} : ~Holds(r, new.port)
    PROVE  /\ srv' \in [Servers -> Server]
           /\ srv'[s] = new /\ \A r \in Servers \ {s} : srv'[r] = srv[r]
           /\ OneHolder'
<1>1. /\ srv' \in [Servers -> Server]
      /\ srv'[s] = new /\ \A r \in Servers \ {s} : srv'[r] = srv[r]
  BY DEF Types
<1>2. OneHolder' BY <1>1 DEF Types, OneHolder, Holds
<1> QED BY <1>1, <1>2

LEMMA preferredPortSteps ==
    ASSUME Types, NEW s \in Servers, preferredPort(s)
    PROVE  /\ Types'
           /\ \A r \in Servers \ {s} : srv'[r] = srv[r]
           /\ SameSession(s)
           /\ srv[s].pc = "none" /\ srv'[s].pc = "token?"
           /\ srv'[s].port \in Ports /\ srv'[s].fallback = srv[s].fallback
           /\ files.port # None => srv'[s].port = files.port
<1>0. srv \in [Servers -> Server] /\ srv[s] \in Server /\ files.port \in Ports \cup {None}
  BY DEF Types
<1>1. PICK port \in IF files.port # None THEN {files.port} ELSE Ports :
        srv' = [srv EXCEPT ![s].pc = "token?", ![s].port = port]
  BY DEF preferredPort
<1>2. port \in Ports /\ (files.port # None => port = files.port) BY <1>0, <1>1
<1> DEFINE new == [srv[s] EXCEPT !.pc = "token?", !.port = port]
<1>3. new \in Server /\ srv' = [srv EXCEPT ![s] = new]
  BY <1>0, <1>1, <1>2 DEF Server, Starting
<1>4. /\ new.pc = "token?" /\ new.port = port /\ new.fallback = srv[s].fallback
      /\ new.content = srv[s].content /\ new.known = srv[s].known /\ new.timers = srv[s].timers
      /\ new.events = srv[s].events /\ new.wire = srv[s].wire
  BY <1>0 DEF Server
<1> HIDE DEF new
<1>5. /\ srv' \in [Servers -> Server]
      /\ srv'[s] = new /\ \A r \in Servers \ {s} : srv'[r] = srv[r]
      /\ OneHolder'
  BY <1>3, <1>4, OneServer DEF Bound
<1> QED BY <1>2, <1>4, <1>5 DEF preferredPort, Types, SocketOpen, SameSession

LEMMA initialTokenSteps ==
    ASSUME Types, NEW s \in Servers, initialToken(s)
    PROVE  /\ Types'
           /\ \A r \in Servers \ {s} : srv'[r] = srv[r]
           /\ SameSession(s)
           /\ srv[s].pc = "token?" /\ srv'[s].pc = "listen"
           /\ srv'[s].port = srv[s].port /\ srv'[s].fallback = srv[s].fallback
           /\ srv'[s].token \in Servers
           /\ files.token # None => srv'[s].token = files.token
<1>0. srv \in [Servers -> Server] /\ srv[s] \in Server /\ files.token \in Servers \cup {None}
  BY DEF Types
<1>1. TokenFor(s) \in Servers /\ (files.token # None => TokenFor(s) = files.token)
  BY <1>0 DEF TokenFor
<1> DEFINE new == [srv[s] EXCEPT !.pc = "listen", !.kept = (files.token # None),
                                 !.token = TokenFor(s)]
<1>3. new \in Server /\ srv' = [srv EXCEPT ![s] = new]
  BY <1>0, <1>1 DEF Server, Starting, initialToken
<1>4. /\ new.pc = "listen" /\ new.port = srv[s].port /\ new.fallback = srv[s].fallback
      /\ new.token = TokenFor(s)
      /\ new.content = srv[s].content /\ new.known = srv[s].known /\ new.timers = srv[s].timers
      /\ new.events = srv[s].events /\ new.wire = srv[s].wire
  BY <1>0 DEF Server
<1> HIDE DEF new
<1>5. /\ srv' \in [Servers -> Server]
      /\ srv'[s] = new /\ \A r \in Servers \ {s} : srv'[r] = srv[r]
      /\ OneHolder'
  BY <1>3, <1>4, OneServer DEF Bound
<1> QED BY <1>1, <1>4, <1>5 DEF initialToken, Types, SocketOpen, SameSession

\* A port is bound when it is free; a second port is tried once, on which the
\* server is a fallback, and the server gives up on it.
LEMMA ListenSteps ==
    ASSUME Types, NEW s \in Servers, Listen(s)
    PROVE  /\ Types'
           /\ \A r \in Servers \ {s} : srv'[r] = srv[r]
           /\ srv[s].pc = "listen"
           /\ \/ /\ SameSession(s) /\ srv'[s].pc = "port"
                 /\ srv'[s].port = srv[s].port /\ srv'[s].token = srv[s].token
                 /\ srv'[s].fallback = srv[s].fallback
              \/ srv'[s] = Gone
              \/ /\ SameSession(s) /\ srv'[s].pc = "listen"
                 /\ srv'[s].port \in Ports /\ srv'[s].token \in {s, srv[s].token}
                 /\ srv'[s].fallback
<1>0. srv \in [Servers -> Server] /\ srv[s] \in Server BY DEF Types
<1> DEFINE bound == [srv[s] EXCEPT !.pc = "port"]
           moved(port) == [srv[s] EXCEPT !.fallback = TRUE, !.port = port,
                                         !.token = IF srv[s].kept THEN s ELSE @]
           Rest == /\ \A r \in Servers \ {s} : srv'[r] = srv[r]
                   /\ srv' \in [Servers -> Server] /\ OneHolder'
<1>1. CASE srv' = [srv EXCEPT ![s].pc = "port"] /\ ~\E r \in Servers \ {s} : Holds(r, srv[s].port)
  <2>1. bound \in Server /\ srv' = [srv EXCEPT ![s] = bound]
    BY <1>0, <1>1 DEF Server, Starting
  <2>2. /\ bound.pc = "port" /\ bound.port = srv[s].port /\ bound.token = srv[s].token
        /\ bound.fallback = srv[s].fallback
        /\ bound.content = srv[s].content /\ bound.known = srv[s].known
        /\ bound.timers = srv[s].timers
        /\ bound.events = srv[s].events /\ bound.wire = srv[s].wire
    BY <1>0 DEF Server
  <2> HIDE DEF bound
  <2>3. srv'[s] = bound /\ Rest BY <1>1, <2>1, <2>2, OneServer
  <2> QED BY <2>2, <2>3 DEF Listen, Types, SocketOpen, SameSession
<1>2. CASE srv' = [srv EXCEPT ![s] = Gone]
  <2>1. srv'[s] = Gone /\ Rest BY <1>2, GoneIs, OneServer DEF Bound
  <2> QED BY <2>1 DEF Listen, Types, SocketOpen
<1>3. CASE \E port \in Ports :
             srv' = [srv EXCEPT ![s].fallback = TRUE, ![s].port = port,
                                ![s].token = IF srv[s].kept THEN s ELSE @]
  <2>1. PICK port \in Ports :
          srv' = [srv EXCEPT ![s].fallback = TRUE, ![s].port = port,
                             ![s].token = IF srv[s].kept THEN s ELSE @]
    BY <1>3
  <2>2. moved(port) \in Server /\ srv' = [srv EXCEPT ![s] = moved(port)]
    BY <1>0, <2>1 DEF Server
  <2>3. /\ moved(port).pc = srv[s].pc /\ moved(port).port = port
        /\ moved(port).token \in {s, srv[s].token} /\ moved(port).fallback
        /\ moved(port).content = srv[s].content /\ moved(port).known = srv[s].known
        /\ moved(port).timers = srv[s].timers
        /\ moved(port).events = srv[s].events /\ moved(port).wire = srv[s].wire
    BY <1>0 DEF Server
  <2> HIDE DEF moved
  <2>4. srv[s].pc = "listen" BY DEF Listen
  <2>5. srv'[s] = moved(port) /\ Rest BY <2>2, <2>3, <2>4, OneServer DEF Bound
  <2> QED BY <2>3, <2>4, <2>5 DEF Listen, Types, SocketOpen, SameSession
<1> QED BY <1>1, <1>2, <1>3 DEF Listen

\* What is written down is what the server holds, unless it is a fallback or
\* the file cannot be written.
LEMMA WriteDownSteps ==
    ASSUME Types, NEW s \in Servers, NEW pc \in {"port", "token"},
           NEW next \in {"token", "live"},
           NEW after \in [port : Ports \cup {None}, token : Servers \cup {None}],
           WriteDown(s, pc, next, after)
    PROVE  /\ Types'
           /\ \A r \in Servers \ {s} : srv'[r] = srv[r]
           /\ SameSession(s)
           /\ srv[s].pc = pc /\ srv'[s].pc = next
           /\ srv'[s].port = srv[s].port /\ srv'[s].token = srv[s].token
           /\ srv'[s].fallback = srv[s].fallback
           /\ \/ files' = (IF srv[s].fallback THEN files ELSE after) /\ spoiled' = spoiled
              \/ files' = files /\ spoiled' = TRUE
<1>0. srv \in [Servers -> Server] /\ srv[s] \in Server BY DEF Types
<1> DEFINE new == [srv[s] EXCEPT !.pc = next]
<1>3. new \in Server /\ srv' = [srv EXCEPT ![s] = new]
  BY <1>0 DEF Server, Starting, WriteDown
<1>4. /\ new.pc = next /\ new.port = srv[s].port /\ new.fallback = srv[s].fallback
      /\ new.token = srv[s].token
      /\ new.content = srv[s].content /\ new.known = srv[s].known /\ new.timers = srv[s].timers
      /\ new.events = srv[s].events /\ new.wire = srv[s].wire
  BY <1>0 DEF Server
<1> HIDE DEF new
<1>5. srv[s].pc \in Bound BY DEF WriteDown, Bound
<1>6. /\ srv' \in [Servers -> Server]
      /\ srv'[s] = new /\ \A r \in Servers \ {s} : srv'[r] = srv[r]
      /\ OneHolder'
  BY <1>3, <1>4, <1>5, OneServer
<1>7. \/ files' = (IF srv[s].fallback THEN files ELSE after) /\ spoiled' = spoiled
      \/ files' = files /\ spoiled' = TRUE
  BY DEF WriteDown, Records
<1> QED BY <1>4, <1>6, <1>7 DEF WriteDown, Types, SocketOpen, SameSession

LEMMA StopSteps ==
    ASSUME Types, NEW s \in Servers, Stop(s)
    PROVE  /\ Types'
           /\ \A r \in Servers \ {s} : srv'[r] = srv[r]
           /\ srv'[s] = Gone
<1>1. srv' = [srv EXCEPT ![s] = Gone] BY DEF Stop
<1>2. /\ srv' \in [Servers -> Server]
      /\ srv'[s] = Gone /\ \A r \in Servers \ {s} : srv'[r] = srv[r]
      /\ OneHolder'
  BY <1>1, GoneIs, OneServer DEF Bound
<1> QED BY <1>2 DEF Stop, Types, SocketOpen

LEMMA StartKeepsFiles ==
    ASSUME Types, FilesInv, NEW s \in Servers,
           preferredPort(s) \/ initialToken(s) \/ Listen(s) \/ Stop(s)
    PROVE  FilesInv'
<1>0. UNCHANGED <<files, tab, spoiled>> /\ (Orderly' => Orderly)
  <2>1. UNCHANGED <<files, tab, spoiled>>
    BY DEF preferredPort, initialToken, Listen, Stop
  <2>2. raced' = raced \/ raced' = (raced \/ FirstStarts(s))
    BY DEF preferredPort, initialToken, Listen, Stop
  <2>3. ~raced' => ~raced BY <2>2
  <2> QED BY <2>1, <2>3 DEF Orderly
<1>1. CASE preferredPort(s)
  <2>1. /\ \A r \in Servers \ {s} : srv'[r] = srv[r]
        /\ srv[s].pc = "none" /\ srv'[s].pc = "token?"
        /\ srv'[s].port \in Ports
        /\ files.port # None => srv'[s].port = files.port
    BY <1>1, preferredPortSteps
  <2>2. Named' BY <2>1, CompanionAssumption DEF FilesInv, Named
  <2>3. Orderly' => ~FirstStarts(s) BY <1>1 DEF preferredPort, Orderly
  <2>4. Orderly' => OneFirstStart'
    BY <1>0, <2>1, <2>3 DEF FilesInv, OneFirstStart, FirstStarts
  <2>5. Orderly' => Agree' BY <1>0, <2>1 DEF FilesInv, Agree, Live, Starting
  <2> QED BY <1>0, <2>2, <2>4, <2>5 DEF FilesInv, TabAgrees
<1>2. CASE initialToken(s)
  <2>1. /\ \A r \in Servers \ {s} : srv'[r] = srv[r]
        /\ srv[s].pc = "token?" /\ srv'[s].pc = "listen"
        /\ srv'[s].port = srv[s].port /\ srv'[s].fallback = srv[s].fallback
        /\ srv'[s].token \in Servers
        /\ files.token # None => srv'[s].token = files.token
    BY <1>2, initialTokenSteps
  <2>2. Named' BY <2>1, CompanionAssumption DEF FilesInv, Named, Started, Starting
  <2>4. Orderly' => OneFirstStart'
    BY <1>0, <2>1 DEF FilesInv, OneFirstStart, Starting
  <2>5. Orderly' => Agree' BY <1>0, <2>1 DEF FilesInv, Agree, Live, Starting
  <2> QED BY <1>0, <2>2, <2>4, <2>5 DEF FilesInv, TabAgrees
<1>3. CASE Listen(s)
  <2>1. /\ \A r \in Servers \ {s} : srv'[r] = srv[r]
        /\ srv[s].pc = "listen"
        /\ \/ /\ srv'[s].pc = "port"
              /\ srv'[s].port = srv[s].port /\ srv'[s].token = srv[s].token
              /\ srv'[s].fallback = srv[s].fallback
           \/ srv'[s].pc = "gone"
           \/ /\ srv'[s].pc = "listen"
              /\ srv'[s].port \in Ports /\ srv'[s].token \in {s, srv[s].token}
              /\ srv'[s].fallback
    BY <1>3, ListenSteps, GoneIs
  <2>2. Named' BY <2>1, CompanionAssumption DEF FilesInv, Named, Started, Starting
  <2>4. Orderly' => OneFirstStart'
    BY <1>0, <2>1 DEF FilesInv, OneFirstStart, Starting
  <2>5. Orderly' => Agree' BY <1>0, <2>1 DEF FilesInv, Agree, Live, Starting
  <2> QED BY <1>0, <2>2, <2>4, <2>5 DEF FilesInv, TabAgrees
<1>4. CASE Stop(s)
  <2>1. /\ \A r \in Servers \ {s} : srv'[r] = srv[r]
        /\ srv'[s].pc = "gone"
    BY <1>4, StopSteps, GoneIs
  <2>2. Named' BY <2>1 DEF FilesInv, Named, Started, Starting
  <2>4. Orderly' => OneFirstStart'
    BY <1>0, <2>1 DEF FilesInv, OneFirstStart, Starting
  <2>5. Orderly' => Agree' BY <1>0, <2>1 DEF FilesInv, Agree, Live, Starting
  <2> QED BY <1>0, <2>2, <2>4, <2>5 DEF FilesInv, TabAgrees
<1> QED BY <1>1, <1>2, <1>3, <1>4

\* While a file is missing, the one that writes it is the only one that
\* starts; later a server writes what it has read.
LEMMA WriteKeepsFiles ==
    ASSUME Types, FilesInv, NEW s \in Servers, WritePort(s) \/ WriteToken(s)
    PROVE  FilesInv'
<1>0. /\ tab' = tab /\ (Orderly' => Orderly)
      /\ files \in [port : Ports \cup {None}, token : Servers \cup {None}]
      /\ srv[s] \in Server
  BY DEF WritePort, WriteToken, WriteDown, Orderly, Types, Trouble
<1>1. CASE WritePort(s)
  <2> DEFINE after == [files EXCEPT !.port = srv[s].port]
  <2>1. after \in [port : Ports \cup {None}, token : Servers \cup {None}]
        /\ after.port = srv[s].port /\ after.token = files.token
    BY <1>0 DEF Server
  <2> HIDE DEF after
  <2>2. WriteDown(s, "port", "token", after) BY <1>1 DEF WritePort, after
  <2>3. /\ \A r \in Servers \ {s} : srv'[r] = srv[r]
        /\ srv[s].pc = "port" /\ srv'[s].pc = "token"
        /\ srv'[s].port = srv[s].port /\ srv'[s].token = srv[s].token
        /\ srv'[s].fallback = srv[s].fallback
        /\ Orderly' => files' = (IF srv[s].fallback THEN files ELSE after)
    BY <2>1, <2>2, WriteDownSteps DEF Orderly
  <2>4. Named' BY <2>3 DEF FilesInv, Named, Started, Starting
  <2> SUFFICES ASSUME Orderly' PROVE OneFirstStart' /\ Agree' /\ TabAgrees'
    BY <2>4 DEF FilesInv
  <2>5. srv[s].port # None BY <2>3 DEF FilesInv, Named, Started, Starting
  <2>6. OneFirstStart /\ Agree /\ TabAgrees BY <1>0 DEF FilesInv
  <2>7. CASE srv[s].fallback
    <3>1. OneFirstStart' BY <2>3, <2>6, <2>7 DEF OneFirstStart, Starting
    <3>2. Agree' BY <2>3, <2>6, <2>7 DEF Agree, Live, Starting
    <3> QED BY <1>0, <2>3, <2>6, <2>7, <3>1, <3>2 DEF TabAgrees
  <2>8. CASE ~srv[s].fallback
    <3>1. files'.port = srv[s].port /\ files'.token = files.token BY <2>1, <2>3, <2>8
    <3>2. files.port # None => files.port = srv[s].port
      BY <2>3, <2>6, <2>8 DEF Agree, Starting
    <3>3. OneFirstStart' BY <2>3, <2>5, <2>6, <3>1, <3>2 DEF OneFirstStart, Starting
    <3>4. CASE files.port = None
      <4>1. files.token = None BY <2>6, <3>4 DEF OneFirstStart
      <4>2. \A r \in Servers \ {s} : srv[r].pc \notin Starting
        BY <2>3, <2>6, <3>4 DEF OneFirstStart, Starting
      <4>3. \A r \in Servers \ {s} : Live(r) => srv[r].fallback
        <5>1. \A r \in Servers : Live(r) => srv[r].port # None
          BY DEF FilesInv, Named, Started, Live
        <5> QED BY <2>6, <3>4, <5>1 DEF Agree
      <4>4. Agree' BY <2>3, <3>1, <4>1, <4>2, <4>3 DEF Agree, Live, Starting
      <4>5. TabAgrees' BY <1>0, <2>6, <3>4 DEF TabAgrees
      <4> QED BY <3>3, <4>4, <4>5
    <3>5. CASE files.port # None
      <4>1. files'.port = files.port BY <3>1, <3>2, <3>5
      <4>2. Agree' BY <2>3, <2>6, <3>1, <4>1 DEF Agree, Live, Starting
      <4>3. TabAgrees' BY <1>0, <2>6, <3>1, <4>1 DEF TabAgrees
      <4> QED BY <3>3, <4>2, <4>3
    <3> QED BY <3>4, <3>5
  <2> QED BY <2>7, <2>8
<1>2. CASE WriteToken(s)
  <2> DEFINE after == [files EXCEPT !.token = srv[s].token]
  <2>1. after \in [port : Ports \cup {None}, token : Servers \cup {None}]
        /\ after.token = srv[s].token /\ after.port = files.port
    BY <1>0 DEF Server
  <2> HIDE DEF after
  <2>2. WriteDown(s, "token", "live", after) BY <1>2 DEF WriteToken, after
  <2>3. /\ \A r \in Servers \ {s} : srv'[r] = srv[r]
        /\ srv[s].pc = "token" /\ srv'[s].pc = "live"
        /\ srv'[s].port = srv[s].port /\ srv'[s].token = srv[s].token
        /\ srv'[s].fallback = srv[s].fallback
        /\ Orderly' => files' = (IF srv[s].fallback THEN files ELSE after)
    BY <2>1, <2>2, WriteDownSteps DEF Orderly
  <2>4. Named' BY <2>3 DEF FilesInv, Named, Started, Starting
  <2> SUFFICES ASSUME Orderly' PROVE OneFirstStart' /\ Agree' /\ TabAgrees'
    BY <2>4 DEF FilesInv
  <2>5. srv[s].port # None /\ srv[s].token # None
    BY <2>3 DEF FilesInv, Named, Started, Starting
  <2>6. OneFirstStart /\ Agree /\ TabAgrees BY <1>0 DEF FilesInv
  <2>7. CASE srv[s].fallback
    <3>1. OneFirstStart' BY <2>3, <2>6, <2>7 DEF OneFirstStart, Starting
    <3>2. Agree' BY <2>3, <2>6, <2>7 DEF Agree, Live, Starting
    <3> QED BY <1>0, <2>3, <2>6, <2>7, <3>1, <3>2 DEF TabAgrees
  <2>8. CASE ~srv[s].fallback
    <3>1. files'.token = srv[s].token /\ files'.port = files.port BY <2>1, <2>3, <2>8
    <3>2. /\ files.port = srv[s].port
          /\ files.token # None => files.token = srv[s].token
      BY <2>3, <2>6, <2>8 DEF Agree, Starting
    <3>3. OneFirstStart' BY <2>3, <2>5, <2>6, <3>1, <3>2 DEF OneFirstStart, Starting
    <3>4. CASE files.token = None
      <4>2. \A r \in Servers \ {s} : srv[r].pc \notin Starting
        BY <2>3, <2>6, <3>4 DEF OneFirstStart, Starting
      <4>3. \A r \in Servers \ {s} : Live(r) => srv[r].fallback
        <5>1. \A r \in Servers : Live(r) => srv[r].token # None
          BY DEF FilesInv, Named, Started, Starting, Live
        <5> QED BY <2>6, <3>4, <5>1 DEF Agree
      <4>4. Agree' BY <2>3, <3>1, <3>2, <4>2, <4>3 DEF Agree, Live, Starting
      <4>5. TabAgrees' BY <1>0, <2>6, <3>4 DEF TabAgrees
      <4> QED BY <3>3, <4>4, <4>5
    <3>5. CASE files.token # None
      <4>1. files'.token = files.token BY <3>1, <3>2, <3>5
      <4>2. Agree' BY <2>3, <2>6, <3>1, <3>2, <4>1 DEF Agree, Live, Starting
      <4>3. TabAgrees' BY <1>0, <2>6, <3>1, <4>1 DEF TabAgrees
      <4> QED BY <3>3, <4>2, <4>3
    <3> QED BY <3>4, <3>5
  <2> QED BY <2>7, <2>8
<1> QED BY <1>1, <1>2

-----------------------------------------------------------------------------
(* Sequences of clicks. *)

LEMMA EmptyIs == DOMAIN <<>> = {} /\ ToSet(<<>>) = {}
BY DEF ToSet

LEMMA SetOfIs ==
    ASSUME NEW S, NEW q \in Seq(S)
    PROVE  /\ DOMAIN q = 1 .. Len(q) /\ Len(q) \in Nat
           /\ \A i \in DOMAIN q : q[i] \in S
           /\ ToSet(q) \subseteq S
<1>1. Len(q) \in Nat /\ DOMAIN q = 1 .. Len(q) /\ q \in [1 .. Len(q) -> S] BY LenProperties
<1>2. \A i \in DOMAIN q : q[i] \in S BY <1>1
<1> QED BY <1>1, <1>2 DEF ToSet

\* Clicks that are appended or moved to another sequence.
LEMMA OrderOfConcat ==
    ASSUME NEW q \in Seq(Click), NEW r \in Seq(Click)
    PROVE  Ordered(q \o r) <=> Ordered(q) /\ Ordered(r) /\ Before(q, r)
<1> DEFINE m == Len(q)  n == Len(r)
<1>1. /\ m \in Nat /\ n \in Nat /\ DOMAIN q = 1 .. m /\ DOMAIN r = 1 .. n
      /\ q \o r \in Seq(Click) /\ Len(q \o r) = m + n
      /\ \A i \in 1 .. m + n : (q \o r)[i] = IF i <= m THEN q[i] ELSE r[i - m]
  BY LenProperties, ConcatProperties
<1>2. DOMAIN (q \o r) = 1 .. m + n BY <1>1, LenProperties
<1> HIDE DEF m, n
<1>3. ASSUME Ordered(q \o r) PROVE Ordered(q) /\ Ordered(r) /\ Before(q, r)
  <2>1. \A i \in 1 .. m : i \in 1 .. m + n /\ (q \o r)[i] = q[i] BY <1>1
  <2>2. \A j \in 1 .. n : j + m \in 1 .. m + n /\ (q \o r)[j + m] = r[j] BY <1>1
  <2>3. Ordered(q) BY <1>1, <1>2, <1>3, <2>1 DEF Ordered
  <2>4. Ordered(r)
    <3> SUFFICES ASSUME NEW i \in 1 .. n, NEW j \in 1 .. n, i < j PROVE r[i].id < r[j].id
      BY <1>1 DEF Ordered
    <3>1. i + m < j + m BY <1>1
    <3>2. (q \o r)[i + m].id < (q \o r)[j + m].id BY <1>2, <1>3, <2>2, <3>1 DEF Ordered
    <3> QED BY <2>2, <3>2
  <2>5. Before(q, r)
    <3> SUFFICES ASSUME NEW i \in 1 .. m, NEW j \in 1 .. n PROVE q[i].id < r[j].id
      BY <1>1 DEF Before
    <3>1. i < j + m BY <1>1
    <3>2. (q \o r)[i].id < (q \o r)[j + m].id BY <1>2, <1>3, <2>1, <2>2, <3>1 DEF Ordered
    <3> QED BY <2>1, <2>2, <3>2
  <2> QED BY <2>3, <2>4, <2>5
<1>4. ASSUME Ordered(q), Ordered(r), Before(q, r) PROVE Ordered(q \o r)
  <2> SUFFICES ASSUME NEW i \in 1 .. m + n, NEW j \in 1 .. m + n, i < j
               PROVE  (q \o r)[i].id < (q \o r)[j].id
    BY <1>2 DEF Ordered
  <2>1. CASE j <= m
    <3>1. (q \o r)[i] = q[i] /\ (q \o r)[j] = q[j] /\ i \in 1 .. m /\ j \in 1 .. m
      BY <1>1, <2>1
    <3> QED BY <1>1, <1>4, <3>1 DEF Ordered
  <2>2. CASE i <= m /\ ~(j <= m)
    <3>1. (q \o r)[i] = q[i] /\ (q \o r)[j] = r[j - m] /\ i \in 1 .. m /\ j - m \in 1 .. n
      BY <1>1, <2>2
    <3> QED BY <1>1, <1>4, <3>1 DEF Before
  <2>3. CASE ~(i <= m) /\ ~(j <= m)
    <3>1. (q \o r)[i] = r[i - m] /\ (q \o r)[j] = r[j - m] /\ i - m \in 1 .. n /\ j - m \in 1 .. n
          /\ i - m < j - m
      BY <1>1, <2>3
    <3> QED BY <1>1, <1>4, <3>1 DEF Ordered
  <2> QED BY <1>1, <2>1, <2>2, <2>3
<1> QED BY <1>3, <1>4

LEMMA BeforeConcat ==
    ASSUME NEW q \in Seq(Click), NEW r \in Seq(Click), NEW t \in Seq(Click)
    PROVE  /\ Before(q \o r, t) <=> Before(q, t) /\ Before(r, t)
           /\ Before(t, q \o r) <=> Before(t, q) /\ Before(t, r)
<1> DEFINE m == Len(q)  n == Len(r)
<1>1. /\ m \in Nat /\ n \in Nat /\ DOMAIN q = 1 .. m /\ DOMAIN r = 1 .. n
      /\ q \o r \in Seq(Click) /\ Len(q \o r) = m + n
      /\ \A i \in 1 .. m + n : (q \o r)[i] = IF i <= m THEN q[i] ELSE r[i - m]
  BY LenProperties, ConcatProperties
<1>2. DOMAIN (q \o r) = 1 .. m + n BY <1>1, LenProperties
<1> HIDE DEF m, n
<1>3. \A i \in 1 .. m : i \in 1 .. m + n /\ (q \o r)[i] = q[i] BY <1>1
<1>4. \A j \in 1 .. n : j + m \in 1 .. m + n /\ (q \o r)[j + m] = r[j] BY <1>1
<1>5. \A i \in 1 .. m + n : \/ i \in 1 .. m /\ (q \o r)[i] = q[i]
                            \/ \E j \in 1 .. n : (q \o r)[i] = r[j]
  <2> TAKE i \in 1 .. m + n
  <2>1. CASE i <= m BY <1>1, <2>1
  <2>2. CASE ~(i <= m)
    <3>1. i - m \in 1 .. n BY <1>1, <2>2
    <3> QED BY <1>1, <2>2, <3>1
  <2> QED BY <2>1, <2>2
<1>6. Before(q \o r, t) => Before(q, t) /\ Before(r, t)
  BY <1>1, <1>2, <1>3, <1>4 DEF Before
<1>7. Before(t, q \o r) => Before(t, q) /\ Before(t, r)
  BY <1>1, <1>2, <1>3, <1>4 DEF Before
<1>8. Before(q, t) /\ Before(r, t) => Before(q \o r, t)
  BY <1>1, <1>2, <1>5 DEF Before
<1>9. Before(t, q) /\ Before(t, r) => Before(t, q \o r)
  BY <1>1, <1>2, <1>5 DEF Before
<1> QED BY <1>6, <1>7, <1>8, <1>9

\* The clicks of a concatenation are those of its parts.
LEMMA ClicksOfConcat ==
    ASSUME NEW q \in Seq(Click), NEW r \in Seq(Click), NEW i \in DOMAIN (q \o r)
    PROVE  \/ \E j \in DOMAIN q : (q \o r)[i] = q[j]
           \/ \E j \in DOMAIN r : (q \o r)[i] = r[j]
<1> DEFINE m == Len(q)  n == Len(r)
<1>1. /\ m \in Nat /\ n \in Nat /\ DOMAIN q = 1 .. m /\ DOMAIN r = 1 .. n
      /\ q \o r \in Seq(Click) /\ Len(q \o r) = m + n
      /\ \A j \in 1 .. m + n : (q \o r)[j] = IF j <= m THEN q[j] ELSE r[j - m]
  BY LenProperties, ConcatProperties
<1>2. DOMAIN (q \o r) = 1 .. m + n BY <1>1, LenProperties
<1> HIDE DEF m, n
<1>3. i \in 1 .. m + n BY <1>2
<1>4. CASE i <= m
  <2>1. i \in 1 .. m /\ (q \o r)[i] = q[i] BY <1>1, <1>3, <1>4
  <2> QED BY <1>1, <2>1
<1>5. CASE ~(i <= m)
  <2>1. i - m \in 1 .. n /\ (q \o r)[i] = r[i - m] BY <1>1, <1>3, <1>5
  <2> QED BY <1>1, <2>1
<1> QED BY <1>4, <1>5

\* A single click, and the oldest one of a sequence.
LEMMA OneClick ==
    ASSUME NEW c \in Click
    PROVE  <<c>> \in Seq(Click) /\ DOMAIN <<c>> = {1} /\ <<c>>[1] = c /\ Ordered(<<c>>)
<1>1. <<c>> \in Seq(Click) /\ Len(<<c>>) = 1 /\ <<c>>[1] = c OBVIOUS
<1>2. DOMAIN <<c>> = 1 .. 1 BY <1>1, LenProperties
<1>3. DOMAIN <<c>> = {1} BY <1>2
<1> QED BY <1>1, <1>3 DEF Ordered

LEMMA HeadAndTail ==
    ASSUME NEW q \in Seq(Click), q # <<>>
    PROVE  /\ Head(q) \in Click /\ Tail(q) \in Seq(Click)
           /\ q = <<Head(q)>> \o Tail(q)
           /\ \E i \in DOMAIN q : Head(q) = q[i]
           /\ \A i \in DOMAIN Tail(q) : i + 1 \in DOMAIN q /\ Tail(q)[i] = q[i + 1]
<1>1. /\ Head(q) \in Click /\ Tail(q) \in Seq(Click) /\ Len(Tail(q)) = Len(q) - 1
      /\ \A i \in 1 .. Len(Tail(q)) : Tail(q)[i] = q[i + 1]
  BY HeadTailProperties
<1>2. Len(q) \in Nat \ {0} /\ DOMAIN q = 1 .. Len(q) /\ DOMAIN Tail(q) = 1 .. Len(Tail(q))
  BY <1>1, EmptySeq, LenProperties
<1>3. Head(q) = q[1] /\ 1 \in DOMAIN q BY <1>2
<1>4. <<Head(q)>> \in Seq(Click) /\ Len(<<Head(q)>>) = 1 /\ <<Head(q)>>[1] = Head(q) BY <1>1
<1>5. <<Head(q)>> \o Tail(q) \in Seq(Click) /\ Len(<<Head(q)>> \o Tail(q)) = 1 + Len(Tail(q))
      /\ \A i \in 1 .. 1 + Len(Tail(q)) :
            (<<Head(q)>> \o Tail(q))[i] = IF i <= 1 THEN <<Head(q)>>[i] ELSE Tail(q)[i - 1]
  BY <1>1, <1>4, ConcatProperties
<1>6. \A i \in 1 .. Len(q) : q[i] = (<<Head(q)>> \o Tail(q))[i]
  <2> TAKE i \in 1 .. Len(q)
  <2>1. CASE i = 1 BY <1>1, <1>2, <1>3, <1>4, <1>5, <2>1
  <2>2. CASE i # 1
    <3>1. i - 1 \in 1 .. Len(Tail(q)) /\ ~(i <= 1) /\ (i - 1) + 1 = i BY <1>1, <1>2, <2>2
    <3>2. Tail(q)[i - 1] = q[i] BY <1>1, <3>1
    <3> QED BY <1>1, <1>2, <1>5, <3>1, <3>2
  <2> QED BY <2>1, <2>2
<1>7. Len(q) = 1 + Len(Tail(q)) BY <1>1, <1>2
<1>8. q = <<Head(q)>> \o Tail(q) BY <1>5, <1>6, <1>7, SeqEqual
<1>9. \A i \in DOMAIN Tail(q) : i + 1 \in DOMAIN q BY <1>1, <1>2
<1> QED BY <1>1, <1>2, <1>3, <1>8, <1>9

LEMMA NoClicks ==
    /\ Ordered(<<>>) /\ Made(<<>>) /\ OnSeen(<<>>)
    /\ \A q : Before(<<>>, q) /\ Before(q, <<>>)
BY EmptyIs DEF Ordered, Made, OnSeen, Before

-----------------------------------------------------------------------------
(* What is seen stays seen. *)

\* Every screen a server has is an old one, which it does not forget, or is
\* new to all of them.
Keeps(s) ==
    \A n \in ToSet(srv'[s].content) :
        \/ n \in ToSet(srv[s].content) /\ (n \in srv[s].known => n \in srv'[s].known)
        \/ n > pushes

LEMMA SeenStays ==
    ASSUME Counters, pushes' \in Nat, pushes <= pushes', \A s \in Servers : Keeps(s)
    PROVE  \A n \in Screens : Seen(n) => Seen(n)'
<1> SUFFICES ASSUME NEW n \in Screens, Seen(n) PROVE Seen(n)'
  OBVIOUS
<1>1. pushes \in Nat /\ n \in Nat BY DEF Counters, Screens
<1>2. n <= pushes' BY <1>1 DEF Seen
<1>3. \A s \in Servers : n \in ToSet(srv'[s].content) => n \in srv'[s].known
  BY <1>1 DEF Keeps, Seen
<1> QED BY <1>2, <1>3 DEF Seen

LEMMA OnSeenStays ==
    ASSUME Counters, pushes' \in Nat, pushes <= pushes', \A s \in Servers : Keeps(s),
           NEW q \in Seq(Click), OnSeen(q)
    PROVE  OnSeen(q)'
<1>1. \A i \in DOMAIN q : q[i] \in Click BY SetOfIs
<1>2. \A i \in DOMAIN q : q[i].on \in Screens BY <1>1 DEF Click
<1> QED BY <1>2, SeenStays DEF OnSeen

\* A server that starts or stops does nothing to sessions, but for its own,
\* which may end.
LEMMA SessionsKeep ==
    ASSUME Types, Counters, OrderInv, ScreenInv, UNCHANGED <<tab, pushes, clicks>>, Types',
           NEW s \in Servers, \A r \in Servers \ {s} : srv'[r] = srv[r],
           SameSession(s) \/ srv'[s] = Gone
    PROVE  OrderInv' /\ ScreenInv'
<1>1. \A r \in Servers : \/ SameSession(r)
                         \/ /\ srv'[r].content = <<>> /\ srv'[r].timers = {}
                            /\ srv'[r].events = <<>> /\ srv'[r].wire = <<>>
  BY GoneIs DEF SameSession
<1>2. OrderInv'
  <2> SUFFICES ASSUME NEW r \in Servers
               PROVE  (InOrder(r) /\ Made(srv[r].events) /\ Made(srv[r].wire) /\ Made(tab.queue))'
    BY DEF OrderInv
  <2>1. InOrder(r) /\ Made(srv[r].events) /\ Made(srv[r].wire) /\ Made(tab.queue)
    BY DEF OrderInv
  <2>2. Queued(r)' = Queued(r) BY DEF Queued
  <2>3. CASE SameSession(r) BY <2>1, <2>2, <2>3 DEF InOrder, SameSession, Made
  <2>4. CASE ~SameSession(r)
    <3>1. srv'[r].events = <<>> /\ srv'[r].wire = <<>> BY <1>1, <2>4
    <3> QED BY <2>1, <2>2, <3>1, NoClicks, EmptyIs DEF InOrder, Made
  <2> QED BY <2>3, <2>4
<1>3. OwnScreens'
  <2>1. \A r \in Servers : /\ ToSet(srv'[r].content) \subseteq ToSet(srv[r].content)
                           /\ srv'[r].timers \subseteq ToSet(srv'[r].content)
    BY <1>1, EmptyIs DEF SameSession, ScreenInv, OwnScreens
  <2> QED BY <2>1 DEF ScreenInv, OwnScreens
<1>4. \A r \in Servers : Keeps(r) BY <1>1, EmptyIs DEF SameSession, Keeps
<1>5. pushes' \in Nat /\ pushes <= pushes' BY DEF Counters
<1>6. \A q \in Seq(Click) : OnSeen(q) => OnSeen(q)' BY <1>4, <1>5, OnSeenStays
<1>7. tab \in Tab /\ \A r \in Servers : srv[r] \in Server BY DEF Types
<1>8. (tab.page = "live" /\ tab.shown # Waiting /\ ~tab.early => Seen(tab.shown))'
  <2>1. \A n \in Screens : Seen(n) => Seen(n)' BY <1>4, <1>5, SeenStays
  <2>2. tab.shown # Waiting => tab.shown \in Screens BY <1>7 DEF Tab
  <2> QED BY <2>1, <2>2 DEF ScreenInv, Seen
<1>9. OnSeen(tab.queue)' BY <1>6, <1>7 DEF ScreenInv, Tab
<1>10. \A r \in Servers : OnSeen(srv[r].events)' /\ OnSeen(srv[r].wire)'
  <2> TAKE r \in Servers
  <2>1. CASE SameSession(r)
    <3>1. OnSeen(srv[r].events) /\ OnSeen(srv[r].wire) BY DEF ScreenInv
    <3>2. srv[r].events \in Seq(Click) /\ srv[r].wire \in Seq(Click) BY <1>7 DEF Server
    <3> QED BY <1>6, <2>1, <3>1, <3>2 DEF SameSession, OnSeen
  <2>2. CASE ~SameSession(r)
    <3>1. srv'[r].events = <<>> /\ srv'[r].wire = <<>> BY <1>1, <2>2
    <3> QED BY <3>1, EmptyIs DEF OnSeen
  <2> QED BY <2>1, <2>2
<1> QED BY <1>2, <1>3, <1>8, <1>9, <1>10 DEF ScreenInv

LEMMA StartSteps ==
    ASSUME Types, NEW s \in Servers,
           \/ preferredPort(s) \/ initialToken(s) \/ Listen(s) \/ WritePort(s) \/ WriteToken(s)
           \/ Stop(s)
    PROVE  /\ Types' /\ \A r \in Servers \ {s} : srv'[r] = srv[r]
           /\ SameSession(s) \/ srv'[s] = Gone
<1>0. files \in [port : Ports \cup {None}, token : Servers \cup {None}] /\ srv[s] \in Server
  BY DEF Types
<1>1. CASE WritePort(s)
  <2>1. [files EXCEPT !.port = srv[s].port]
           \in [port : Ports \cup {None}, token : Servers \cup {None}]
    BY <1>0 DEF Server
  <2> QED BY <1>1, <2>1, WriteDownSteps DEF WritePort
<1>2. CASE WriteToken(s)
  <2>1. [files EXCEPT !.token = srv[s].token]
           \in [port : Ports \cup {None}, token : Servers \cup {None}]
    BY <1>0 DEF Server
  <2> QED BY <1>2, <2>1, WriteDownSteps DEF WriteToken
<1> QED BY <1>1, <1>2, preferredPortSteps, initialTokenSteps, ListenSteps, StopSteps

LEMMA StartKeeps ==
    ASSUME IInv, NEW s \in Servers,
           \/ preferredPort(s) \/ initialToken(s) \/ Listen(s) \/ WritePort(s) \/ WriteToken(s)
           \/ Stop(s)
    PROVE  IInv'
<1> USE DEF IInv
<1>1. /\ Types' /\ \A r \in Servers \ {s} : srv'[r] = srv[r]
      /\ SameSession(s) \/ srv'[s] = Gone
  BY StartSteps
<1>2. UNCHANGED <<tab, pushes, clicks>>
  BY DEF preferredPort, initialToken, Listen, WritePort, WriteToken, WriteDown, Stop
<1>3. OrderInv' /\ ScreenInv' BY <1>1, <1>2, SessionsKeep
<1>4. FilesInv' BY StartKeepsFiles, WriteKeepsFiles
<1>5. raced' \in BOOLEAN /\ spoiled' \in BOOLEAN
  BY DEF Counters, preferredPort, initialToken, Listen, WritePort, WriteToken, WriteDown, Stop
<1> QED BY <1>1, <1>2, <1>3, <1>4, <1>5 DEF Counters

-----------------------------------------------------------------------------
(* Steps of servers that are live, and of the tab. *)

\* What was bound and recorded stays as it is, and the tab agrees with it.
LEMMA PlacesKeepFiles ==
    ASSUME FilesInv, UNCHANGED <<files, raced, spoiled>>, \A s \in Servers : SamePlace(s),
           Orderly => TabAgrees'
    PROVE  FilesInv'
<1>1. Named' BY DEF FilesInv, Named, SamePlace
<1>2. Orderly' <=> Orderly BY DEF Orderly
<1>3. Orderly => OneFirstStart' BY DEF FilesInv, OneFirstStart, SamePlace
<1>4. Orderly => Agree' BY DEF FilesInv, Agree, SamePlace, Live
<1> QED BY <1>1, <1>2, <1>3, <1>4 DEF FilesInv

\* It is enough that what is answered was seen before the step.
LEMMA SeenKeeps ==
    ASSUME Types', Counters, pushes' \in Nat, pushes <= pushes', \A s \in Servers : Keeps(s),
           OwnScreens',
           tab'.page = "live" /\ tab'.shown # Waiting /\ ~tab'.early => Seen(tab'.shown),
           OnSeen(tab'.queue),
           \A s \in Servers : OnSeen(srv'[s].events) /\ OnSeen(srv'[s].wire)
    PROVE  ScreenInv'
<1>1. tab' \in Tab /\ \A s \in Servers : srv'[s] \in Server BY DEF Types
<1>2. tab'.queue \in Seq(Click) /\ tab'.shown \in {Waiting} \cup Screens BY <1>1 DEF Tab
<1>3. \A s \in Servers : srv'[s].events \in Seq(Click) /\ srv'[s].wire \in Seq(Click)
  BY <1>1 DEF Server
<1>4. \A n \in Screens : Seen(n) => Seen(n)' BY SeenStays
<1>5. \A q \in Seq(Click) : OnSeen(q) => OnSeen(q)' BY OnSeenStays
<1>6. (tab.page = "live" /\ tab.shown # Waiting /\ ~tab.early => Seen(tab.shown))'
  BY <1>2, <1>4 DEF Seen
<1>7. OnSeen(tab.queue)' BY <1>2, <1>5 DEF OnSeen
<1>8. \A s \in Servers : OnSeen(srv[s].events)' /\ OnSeen(srv[s].wire)'
  BY <1>3, <1>5 DEF OnSeen
<1> QED BY <1>6, <1>7, <1>8 DEF ScreenInv

\* Clicks that nobody touches.
LEMMA OrderStays ==
    ASSUME OrderInv, UNCHANGED <<tab, clicks>>,
           \A s \in Servers : srv'[s].events = srv[s].events /\ srv'[s].wire = srv[s].wire
    PROVE  OrderInv'
<1>1. \A s \in Servers : Queued(s)' = Queued(s) BY DEF Queued
<1> QED BY <1>1 DEF OrderInv, InOrder, Made

LEMMA SetOfAppend ==
    ASSUME NEW S, NEW q \in Seq(S), NEW e \in S
    PROVE  Append(q, e) \in Seq(S) /\ ToSet(Append(q, e)) = ToSet(q) \cup {e}
<1>1. /\ Append(q, e) \in Seq(S) /\ Len(Append(q, e)) = Len(q) + 1
      /\ \A i \in 1 .. Len(q) : Append(q, e)[i] = q[i]
      /\ Append(q, e)[Len(q) + 1] = e
  BY AppendProperties
<1>2. /\ DOMAIN q = 1 .. Len(q) /\ Len(q) \in Nat
      /\ DOMAIN Append(q, e) = 1 .. Len(q) + 1
  BY <1>1, LenProperties
<1>3. DOMAIN Append(q, e) = DOMAIN q \cup {Len(q) + 1} BY <1>2
<1> QED BY <1>1, <1>2, <1>3 DEF ToSet

\* A screen that is written again is the last one, of the same screens.
LEMMA WrittenAgain ==
    ASSUME NEW S, NEW q \in Seq(S), NEW i \in DOMAIN q
    PROVE  /\ Append(RemoveAt(q, i), q[i]) \in Seq(S)
           /\ ToSet(Append(RemoveAt(q, i), q[i])) = ToSet(q)
<1> DEFINE a == SubSeq(q, 1, i - 1)
           b == SubSeq(q, i + 1, Len(q))
<1>1. /\ Len(q) \in Nat /\ DOMAIN q = 1 .. Len(q) /\ i \in 1 .. Len(q)
      /\ \A j \in 1 .. Len(q) : q[j] \in S
  BY LenProperties, SetOfIs
<1>2. /\ a \in Seq(S) /\ Len(a) = i - 1 /\ \A j \in 1 .. i - 1 : a[j] = q[j]
  <2>1. 1 \in Int /\ i - 1 \in Int /\ \A j \in 1 .. i - 1 : q[j] \in S BY <1>1
  <2>2. /\ a \in Seq(S) /\ Len(a) = (IF 1 <= i - 1 THEN (i - 1) - 1 + 1 ELSE 0)
        /\ \A j \in 1 .. (i - 1) - 1 + 1 : a[j] = q[1 + j - 1]
    BY <2>1, SubSeqProperties
  <2> HIDE DEF a
  <2> QED BY <1>1, <2>2
<1>3. /\ b \in Seq(S) /\ Len(b) = Len(q) - i /\ \A j \in 1 .. Len(q) - i : b[j] = q[i + j]
  <2>1. i + 1 \in Int /\ Len(q) \in Int /\ \A j \in i + 1 .. Len(q) : q[j] \in S BY <1>1
  <2>2. /\ b \in Seq(S)
        /\ Len(b) = (IF i + 1 <= Len(q) THEN Len(q) - (i + 1) + 1 ELSE 0)
        /\ \A j \in 1 .. Len(q) - (i + 1) + 1 : b[j] = q[(i + 1) + j - 1]
    BY <2>1, SubSeqProperties
  <2> HIDE DEF b
  <2>3. \A j \in 1 .. Len(q) - i : (i + 1) + j - 1 = i + j /\ j \in 1 .. Len(q) - (i + 1) + 1
    BY <1>1
  <2> QED BY <1>1, <2>2, <2>3
<1> HIDE DEF a, b
<1>4. RemoveAt(q, i) = a \o b BY DEF RemoveAt, a, b
<1>5. a \o b \in Seq(S) BY <1>2, <1>3, ConcatProperties
<1>6. ToSet(a \o b) = ToSet(a) \cup ToSet(b)
  <2>1. \A t : ToSet(t) = Range(t) BY DEF ToSet, Range
  <2>2. Range(a \o b) = Range(a) \cup Range(b) BY <1>2, <1>3, RangeConcatenation
  <2> QED BY <2>1, <2>2
<1>7. ToSet(a) \cup ToSet(b) \cup {q[i]} = ToSet(q)
  <2>1. ToSet(a) = {q[j] : j \in 1 .. i - 1}
    <3>1. DOMAIN a = 1 .. i - 1 BY <1>2, LenProperties
    <3> QED BY <1>2, <3>1 DEF ToSet
  <2>2. ToSet(b) = {b[j] : j \in 1 .. Len(q) - i}
    <3>1. DOMAIN b = 1 .. Len(q) - i BY <1>3, LenProperties
    <3> QED BY <3>1 DEF ToSet
  <2>3. \A x : (\E j \in 1 .. Len(q) - i : x = b[j]) <=> (\E j \in i + 1 .. Len(q) : x = q[j])
    <3>1. \A j \in 1 .. Len(q) - i : i + j \in i + 1 .. Len(q) /\ b[j] = q[i + j] BY <1>1, <1>3
    <3>2. \A j \in i + 1 .. Len(q) : j - i \in 1 .. Len(q) - i /\ i + (j - i) = j BY <1>1
    <3> QED BY <3>1, <3>2
  <2>4. ToSet(q) = {q[j] : j \in 1 .. Len(q)} BY <1>1 DEF ToSet
  <2>5. \A x : x \in ToSet(a) \cup ToSet(b) \cup {q[i]} => x \in ToSet(q)
    <3>1. (1 .. i - 1) \subseteq 1 .. Len(q) /\ (i + 1 .. Len(q)) \subseteq 1 .. Len(q) BY <1>1
    <3> QED BY <1>1, <2>1, <2>2, <2>3, <2>4, <3>1
  <2>6. \A x : x \in ToSet(q) => x \in ToSet(a) \cup ToSet(b) \cup {q[i]}
    <3>1. \A j \in 1 .. Len(q) : j \in 1 .. i - 1 \/ j = i \/ j \in i + 1 .. Len(q) BY <1>1
    <3>2. ASSUME NEW x \in ToSet(q) PROVE x \in ToSet(a) \cup ToSet(b) \cup {q[i]}
      <4>1. PICK j \in 1 .. Len(q) : x = q[j] BY <2>4
      <4>2. j \in 1 .. i - 1 => x \in ToSet(a) BY <2>1, <4>1
      <4>3. j \in i + 1 .. Len(q) => x \in ToSet(b) BY <2>2, <2>3, <4>1
      <4>4. j = i => x = q[i] BY <4>1
      <4> QED BY <3>1, <4>2, <4>3, <4>4
    <3> QED BY <3>2
  <2> QED BY <2>5, <2>6
<1>8. q[i] \in S BY <1>1
<1>9. /\ Append(a \o b, q[i]) \in Seq(S)
      /\ ToSet(Append(a \o b, q[i])) = ToSet(a \o b) \cup {q[i]}
  <2>1. \A p \in Seq(S), e \in S : /\ Append(p, e) \in Seq(S)
                                   /\ ToSet(Append(p, e)) = ToSet(p) \cup {e}
    BY SetOfAppend
  <2> QED BY <1>5, <1>8, <2>1
<1> QED BY <1>4, <1>6, <1>7, <1>9

\* A screen is written: the server's session has it, and a timer for it.
LEMMA PushKeeps ==
    ASSUME IInv, NEW s \in Servers, Push(s) \/ \E i \in Screens : PushAgain(s, i)
    PROVE  IInv'
<1> USE DEF IInv
<1>0. srv \in [Servers -> Server] /\ srv[s] \in Server /\ srv[s].content \in Seq(Screens)
  BY DEF Types, Server
<1>1. /\ pushes \in Nat /\ pushes' = pushes + 1 /\ pushes' \in Screens /\ Live(s)
      /\ UNCHANGED <<files, tab, clicks, raced, spoiled>>
  <2>1. /\ pushes' = pushes + 1 /\ pushes < MaxPushes /\ Live(s)
        /\ UNCHANGED <<files, tab, clicks, raced, spoiled>>
    BY DEF Push, PushAgain
  <2>2. pushes \in Nat /\ MaxPushes \in Nat BY CompanionAssumption DEF Counters
  <2> QED BY <2>1, <2>2 DEF Screens
<1>2. \E content \in Seq(Screens), n \in Screens :
         /\ srv' = [srv EXCEPT ![s].content = content, ![s].timers = @ \cup {n}]
         /\ n \in ToSet(content)
         /\ ToSet(srv[s].content) \subseteq ToSet(content)
         /\ ToSet(content) \subseteq ToSet(srv[s].content) \cup {pushes'}
  <2>1. CASE Push(s)
    <3>1. srv' = [srv EXCEPT ![s].content = Append(@, pushes'), ![s].timers = @ \cup {pushes'}]
      BY <2>1 DEF Push
    <3>2. srv' = [srv EXCEPT ![s].content = Append(srv[s].content, pushes'),
                             ![s].timers = @ \cup {pushes'}]
      BY <1>0, <3>1
    <3>3. /\ Append(srv[s].content, pushes') \in Seq(Screens)
          /\ ToSet(Append(srv[s].content, pushes')) = ToSet(srv[s].content) \cup {pushes'}
      BY <1>0, <1>1, SetOfAppend
    <3> QED BY <1>1, <3>2, <3>3
  <2>2. CASE \E i \in Screens : PushAgain(s, i)
    <3>1. PICK i \in Screens : PushAgain(s, i) BY <2>2
    <3> DEFINE n == srv[s].content[i]
               content == Append(RemoveAt(srv[s].content, i), n)
    <3>2. i \in DOMAIN srv[s].content BY <3>1 DEF PushAgain
    <3>3. srv' = [srv EXCEPT ![s].content = content, ![s].timers = @ \cup {n}]
      BY <1>0, <3>1 DEF PushAgain
    <3>4. content \in Seq(Screens) /\ ToSet(content) = ToSet(srv[s].content)
      BY <1>0, <3>2, WrittenAgain
    <3>5. n \in Screens /\ n \in ToSet(srv[s].content)
      BY <1>0, <3>2, SetOfIs DEF ToSet
    <3> QED BY <3>3, <3>4, <3>5
  <2> QED BY <2>1, <2>2
<1>3. PICK content \in Seq(Screens), n \in Screens :
         /\ srv' = [srv EXCEPT ![s].content = content, ![s].timers = @ \cup {n}]
         /\ n \in ToSet(content)
         /\ ToSet(srv[s].content) \subseteq ToSet(content)
         /\ ToSet(content) \subseteq ToSet(srv[s].content) \cup {pushes'}
  BY <1>2
<1> DEFINE new == [srv[s] EXCEPT !.content = content, !.timers = @ \cup {n}]
<1>4. new \in Server /\ srv' = [srv EXCEPT ![s] = new] BY <1>0, <1>3 DEF Server
<1>5. /\ new.pc = srv[s].pc /\ new.port = srv[s].port /\ new.token = srv[s].token
      /\ new.fallback = srv[s].fallback
      /\ new.content = content /\ new.timers = srv[s].timers \cup {n}
      /\ new.known = srv[s].known /\ new.events = srv[s].events /\ new.wire = srv[s].wire
  BY <1>0 DEF Server
<1> HIDE DEF new
<1>6. /\ srv' \in [Servers -> Server] /\ OneHolder'
      /\ srv'[s] = new /\ \A r \in Servers \ {s} : srv'[r] = srv[r]
  <2>1. srv[s].pc \in Bound BY <1>1 DEF Live, Bound
  <2> QED BY <1>4, <1>5, <2>1, OneServer
<1>7. Types' BY <1>1, <1>6 DEF Types, SocketOpen
<1>8. \A r \in Servers : SamePlace(r) BY <1>5, <1>6 DEF SamePlace
<1>9. FilesInv'
  <2>1. Orderly => TabAgrees' BY <1>1 DEF FilesInv, TabAgrees
  <2> QED BY <1>1, <1>8, <2>1, PlacesKeepFiles
<1>10. \A r \in Servers : srv'[r].events = srv[r].events /\ srv'[r].wire = srv[r].wire
  BY <1>5, <1>6
<1>11. OrderInv' BY <1>1, <1>10, OrderStays
<1>12. OwnScreens'
  <2>1. \A r \in Servers : \A m \in ToSet(srv[r].content) : m <= pushes /\ m \in Nat
    <3>1. \A r \in Servers : srv[r].content \in Seq(Screens) BY DEF Types, Server
    <3>2. \A r \in Servers : ToSet(srv[r].content) \subseteq Screens BY <3>1, SetOfIs
    <3> QED BY <3>2 DEF ScreenInv, OwnScreens, Screens
  <2>2. \A r \in Servers : srv'[r].timers \subseteq ToSet(srv'[r].content)
    BY <1>3, <1>5, <1>6 DEF ScreenInv, OwnScreens
  <2>6. \A r \in Servers : \A m \in ToSet(srv'[r].content) :
           m \in ToSet(srv[r].content) \/ (r = s /\ m = pushes')
    <3>1. \A m \in ToSet(srv'[s].content) : m \in ToSet(srv[s].content) \/ m = pushes'
      BY <1>3, <1>5, <1>6
    <3> TAKE r \in Servers
    <3>2. CASE r = s BY <3>1, <3>2
    <3>3. CASE r # s
      <4>1. srv'[r] = srv[r] BY <1>6, <3>3
      <4> QED BY <4>1
    <3> QED BY <3>2, <3>3
  <2>3. \A r \in Servers : \A m \in ToSet(srv'[r].content) : m <= pushes'
    <3> TAKE r \in Servers
    <3> TAKE m \in ToSet(srv'[r].content)
    <3>1. CASE m \in ToSet(srv[r].content)
      <4>1. m <= pushes /\ m \in Nat BY <2>1, <3>1
      <4> QED BY <1>1, <4>1
    <3>2. CASE m = pushes' BY <1>1, <3>2
    <3> QED BY <2>6, <3>1, <3>2
  <2>4. \A r \in Servers : pushes' \notin ToSet(srv[r].content) BY <1>1, <2>1
  <2>5. \A r, t \in Servers : r # t => ToSet(srv'[r].content) \cap ToSet(srv'[t].content) = {}
    BY <2>4, <2>6 DEF ScreenInv, OwnScreens
  <2> QED BY <2>2, <2>3, <2>5 DEF OwnScreens
<1>13. \A r \in Servers : Keeps(r) BY <1>1, <1>3, <1>5, <1>6 DEF Keeps
<1>14. pushes' \in Nat /\ pushes <= pushes' BY <1>1
<1>15. ScreenInv' BY <1>1, <1>7, <1>10, <1>12, <1>13, <1>14, SeenKeeps DEF ScreenInv
<1>16. Counters' BY <1>1 DEF Counters, Screens
<1> QED BY <1>7, <1>9, <1>11, <1>15, <1>16

\* A timer fires: the server knows of the screen, and drops the old answers if
\* it did not before.
LEMMA DebouncedSteps ==
    ASSUME IInv, NEW s \in Servers, NEW n \in Screens, Debounced(s, n)
    PROVE  /\ Types'
           /\ \A r \in Servers : SamePlace(r)
           /\ \A r \in Servers \ {s} : srv'[r] = srv[r]
           /\ n \in srv[s].timers /\ srv'[s].timers = srv[s].timers \ {n}
           /\ srv'[s].content = srv[s].content /\ srv'[s].known = srv[s].known \cup {n}
           /\ srv'[s].events = IF n \notin srv[s].known THEN <<>> ELSE srv[s].events
           /\ srv'[s].wire = srv[s].wire
<1> USE DEF IInv
<1>0. srv \in [Servers -> Server] /\ srv[s] \in Server BY DEF Types
<1> DEFINE new == [srv[s] EXCEPT !.timers = @ \ {n},
                                 !.known = @ \cup {n},
                                 !.events = IF n \notin srv[s].known THEN <<>> ELSE @,
                                 !.reload = @ \/ (tab.ws = s /\ Tells(s, n))]
<1>1. srv' = [srv EXCEPT ![s] = new] BY <1>0 DEF Debounced, Learn
<1>2. new \in Server
  <2>1. <<>> \in Seq(Click) BY EmptySeq
  <2>2. (srv[s].reload \/ (tab.ws = s /\ Tells(s, n))) \in BOOLEAN OBVIOUS
  <2> QED BY <1>0, <2>1, <2>2 DEF Server
<1>3. /\ new.pc = srv[s].pc /\ new.port = srv[s].port /\ new.token = srv[s].token
      /\ new.fallback = srv[s].fallback /\ new.content = srv[s].content
      /\ new.timers = srv[s].timers \ {n} /\ new.known = srv[s].known \cup {n}
      /\ new.events = (IF n \notin srv[s].known THEN <<>> ELSE srv[s].events)
      /\ new.wire = srv[s].wire
  BY <1>0 DEF Server
<1> HIDE DEF new
<1>4. /\ srv' \in [Servers -> Server] /\ OneHolder'
      /\ srv'[s] = new /\ \A r \in Servers \ {s} : srv'[r] = srv[r]
  <2>1. srv[s].pc \in Bound BY DEF Debounced, Live, Bound
  <2> QED BY <1>1, <1>2, <1>3, <2>1, OneServer
<1>5. Types' BY <1>4 DEF Types, SocketOpen, Debounced
<1>6. \A r \in Servers : SamePlace(r) BY <1>3, <1>4 DEF SamePlace
<1> QED BY <1>3, <1>4, <1>5, <1>6 DEF Debounced

LEMMA DebouncedKeeps ==
    ASSUME IInv, NEW s \in Servers, NEW n \in Screens, Debounced(s, n)
    PROVE  IInv'
<1> USE DEF IInv
<1>1. /\ Types'
      /\ \A r \in Servers : SamePlace(r)
      /\ \A r \in Servers \ {s} : srv'[r] = srv[r]
      /\ n \in srv[s].timers /\ srv'[s].timers = srv[s].timers \ {n}
      /\ srv'[s].content = srv[s].content /\ srv'[s].known = srv[s].known \cup {n}
      /\ srv'[s].events = IF n \notin srv[s].known THEN <<>> ELSE srv[s].events
      /\ srv'[s].wire = srv[s].wire
  BY DebouncedSteps
<1>2. UNCHANGED <<files, tab, pushes, clicks, raced, spoiled>> BY DEF Debounced, history
<1>3. FilesInv'
  <2>1. Orderly => TabAgrees' BY <1>2 DEF FilesInv, TabAgrees
  <2> QED BY <1>1, <1>2, <2>1, PlacesKeepFiles
<1>4. \A r \in Servers : /\ srv'[r].events \in {<<>>, srv[r].events}
                         /\ srv'[r].wire = srv[r].wire
  BY <1>1
<1>5. OrderInv'
  <2>1. \A r \in Servers : Queued(r)' = Queued(r) BY <1>2 DEF Queued
  <2> SUFFICES ASSUME NEW r \in Servers
               PROVE  (InOrder(r) /\ Made(srv[r].events) /\ Made(srv[r].wire) /\ Made(tab.queue))'
    BY DEF OrderInv
  <2>2. InOrder(r) /\ Made(srv[r].events) /\ Made(srv[r].wire) /\ Made(tab.queue)
    BY DEF OrderInv
  <2>3. CASE srv'[r].events = srv[r].events
    BY <1>2, <1>4, <2>1, <2>2, <2>3 DEF InOrder, Made
  <2>4. CASE srv'[r].events = <<>>
    BY <1>2, <1>4, <2>1, <2>2, <2>4, NoClicks, EmptyIs DEF InOrder, Made
  <2> QED BY <1>4, <2>3, <2>4
<1>6. \A r \in Servers : srv'[r].content = srv[r].content BY <1>1
<1>7. OwnScreens'
  <2>1. \A r \in Servers : srv'[r].timers \subseteq srv[r].timers BY <1>1
  <2> QED BY <1>2, <1>6, <2>1 DEF ScreenInv, OwnScreens
<1>8. \A r \in Servers : Keeps(r)
  <2>1. \A r \in Servers : srv[r].known \subseteq srv'[r].known BY <1>1
  <2> QED BY <1>6, <2>1 DEF Keeps
<1>9. pushes' \in Nat /\ pushes <= pushes' BY <1>2 DEF Counters
<1>10. ScreenInv' BY <1>1, <1>2, <1>4, <1>7, <1>8, <1>9, NoClicks, SeenKeeps DEF ScreenInv
<1> QED BY <1>1, <1>2, <1>3, <1>5, <1>10 DEF Counters

\* The oldest frame becomes the newest event.
LEMMA handleMessageKeeps ==
    ASSUME IInv, NEW s \in Servers, handleMessage(s)
    PROVE  IInv'
<1> USE DEF IInv
<1>0. /\ srv \in [Servers -> Server] /\ srv[s] \in Server
      /\ srv[s].events \in Seq(Click) /\ srv[s].wire \in Seq(Click) /\ srv[s].wire # <<>>
  BY DEF Types, Server, handleMessage
<1> DEFINE c == Head(srv[s].wire)
           rest == Tail(srv[s].wire)
           new == [srv[s] EXCEPT !.wire = rest, !.events = srv[s].events \o <<c>>]
<1>1. /\ c \in Click /\ rest \in Seq(Click) /\ srv[s].wire = <<c>> \o rest
      /\ \E i \in DOMAIN srv[s].wire : c = srv[s].wire[i]
      /\ \A i \in DOMAIN rest : i + 1 \in DOMAIN srv[s].wire /\ rest[i] = srv[s].wire[i + 1]
  BY <1>0, HeadAndTail
<1> HIDE DEF c, rest
<1>2. <<c>> \in Seq(Click) /\ DOMAIN <<c>> = {1} /\ <<c>>[1] = c /\ Ordered(<<c>>)
  BY <1>1, OneClick
<1>3. srv[s].events \o <<c>> \in Seq(Click) BY <1>0, <1>2, ConcatProperties
<1>4. srv' = [srv EXCEPT ![s] = new]
  <2>1. Append(srv[s].events, c) = srv[s].events \o <<c>> BY <1>0, <1>1, AppendIsConcat
  <2>2. srv' = [srv EXCEPT ![s].wire = rest, ![s].events = Append(srv[s].events, c)]
    BY <1>0 DEF handleMessage, c, rest
  <2> QED BY <1>0, <2>1, <2>2
<1>5. new \in Server BY <1>0, <1>1, <1>3 DEF Server
<1>6. /\ new.pc = srv[s].pc /\ new.port = srv[s].port /\ new.token = srv[s].token
      /\ new.fallback = srv[s].fallback /\ new.content = srv[s].content
      /\ new.timers = srv[s].timers /\ new.known = srv[s].known
      /\ new.events = srv[s].events \o <<c>> /\ new.wire = rest
  BY <1>0 DEF Server
<1> HIDE DEF new
<1>7. /\ srv' \in [Servers -> Server] /\ OneHolder'
      /\ srv'[s] = new /\ \A r \in Servers \ {s} : srv'[r] = srv[r]
  <2>1. srv[s].pc \in Bound BY DEF handleMessage, Live, Bound
  <2> QED BY <1>4, <1>5, <1>6, <2>1, OneServer
<1>8. UNCHANGED <<files, tab, pushes, clicks, raced, spoiled>> BY DEF handleMessage, history
<1>9. Types' BY <1>7, <1>8 DEF Types, SocketOpen
<1>10. FilesInv'
  <2>1. \A r \in Servers : SamePlace(r) BY <1>6, <1>7 DEF SamePlace
  <2>2. Orderly => TabAgrees' BY <1>8 DEF FilesInv, TabAgrees
  <2> QED BY <1>8, <2>1, <2>2, PlacesKeepFiles
<1>11. OrderInv'
  <2>1. \A r \in Servers : Queued(r)' = Queued(r) BY <1>8 DEF Queued
  <2>2. \A r \in Servers : InOrder(r) /\ Made(srv[r].events) /\ Made(srv[r].wire) /\ Made(tab.queue)
    BY DEF OrderInv
  <2>3. ASSUME NEW r \in Servers \ {s}
        PROVE  (InOrder(r) /\ Made(srv[r].events) /\ Made(srv[r].wire) /\ Made(tab.queue))'
    <3>1. srv'[r] = srv[r] BY <1>7
    <3> QED BY <1>8, <2>1, <2>2, <3>1 DEF InOrder, Made
  <2> DEFINE e == srv[s].events
             q == Queued(s)
  <2>4. e \in Seq(Click) /\ q \in Seq(Click)
    <3>1. tab.queue \in Seq(Click) /\ <<>> \in Seq(Click) BY EmptySeq DEF Types, Tab
    <3> QED BY <1>0, <3>1 DEF Queued
  <2>5. /\ Ordered(e) /\ Ordered(<<c>> \o rest) /\ Ordered(q)
        /\ Before(e, <<c>> \o rest) /\ Before(e, q) /\ Before(<<c>> \o rest, q)
    BY <1>1, <2>2 DEF InOrder
  <2> HIDE DEF e, q
  <2>6. /\ Ordered(rest) /\ Before(<<c>>, rest)
        /\ Before(e, <<c>>) /\ Before(e, rest) /\ Before(<<c>>, q) /\ Before(rest, q)
    BY <1>1, <1>2, <2>4, <2>5, OrderOfConcat, BeforeConcat
  <2>7. /\ Ordered(e \o <<c>>) /\ Before(e \o <<c>>, rest) /\ Before(e \o <<c>>, q)
    BY <1>1, <1>2, <2>4, <2>5, <2>6, OrderOfConcat, BeforeConcat
  <2>8. srv'[s].events = e \o <<c>> /\ srv'[s].wire = rest /\ Queued(s)' = q
    BY <1>6, <1>7, <2>1 DEF e, q
  <2>9. InOrder(s)' BY <2>5, <2>6, <2>7, <2>8 DEF InOrder
  <2>10. Made(e) /\ Made(rest) /\ c.id <= clicks
    BY <1>1, <2>2 DEF Made, e
  <2>11. Made(e \o <<c>>)
    <3>1. \A i \in DOMAIN (e \o <<c>>) : \/ \E j \in DOMAIN e : (e \o <<c>>)[i] = e[j]
                                         \/ (e \o <<c>>)[i] = c
      BY <1>2, <2>4, ClicksOfConcat
    <3> QED BY <2>10, <3>1 DEF Made
  <2>12. (Made(srv[s].events) /\ Made(srv[s].wire) /\ Made(tab.queue))'
    BY <1>8, <2>2, <2>8, <2>10, <2>11 DEF Made
  <2> QED BY <2>3, <2>9, <2>12 DEF OrderInv
<1>12. \A r \in Servers : /\ srv'[r].content = srv[r].content /\ srv'[r].known = srv[r].known
                          /\ srv'[r].timers = srv[r].timers
  BY <1>6, <1>7
<1>13. OwnScreens' BY <1>8, <1>12 DEF ScreenInv, OwnScreens
<1>14. \A r \in Servers : Keeps(r) BY <1>12 DEF Keeps
<1>15. pushes' \in Nat /\ pushes <= pushes' BY <1>8 DEF Counters
<1>16. \A r \in Servers : OnSeen(srv'[r].events) /\ OnSeen(srv'[r].wire)
  <2>1. ASSUME NEW r \in Servers \ {s} PROVE OnSeen(srv'[r].events) /\ OnSeen(srv'[r].wire)
    <3>1. srv'[r] = srv[r] BY <1>7
    <3> QED BY <3>1 DEF ScreenInv
  <2> DEFINE e == srv[s].events
  <2>2. OnSeen(e) /\ OnSeen(srv[s].wire) BY DEF ScreenInv
  <2>3. OnSeen(rest) /\ (c.early \/ Seen(c.on)) BY <1>1, <2>2 DEF OnSeen
  <2>4. e \in Seq(Click) BY <1>0
  <2>5. srv'[s].events = e \o <<c>> /\ srv'[s].wire = rest BY <1>6, <1>7
  <2> HIDE DEF e
  <2>6. \A i \in DOMAIN (e \o <<c>>) : \/ \E j \in DOMAIN e : (e \o <<c>>)[i] = e[j]
                                       \/ (e \o <<c>>)[i] = c
    BY <1>2, <2>4, ClicksOfConcat
  <2>7. OnSeen(e \o <<c>>) BY <2>2, <2>3, <2>6 DEF OnSeen
  <2> QED BY <2>1, <2>3, <2>5, <2>7
<1>17. ScreenInv' BY <1>8, <1>9, <1>13, <1>14, <1>15, <1>16, SeenKeeps DEF ScreenInv
<1> QED BY <1>8, <1>9, <1>10, <1>11, <1>17 DEF Counters

-----------------------------------------------------------------------------
(* The tab. *)

\* What a request for the page comes to: the page of a live server that has
\* the port and accepts the key, with its newest screen, or an error.
LEMMA PageIs ==
    ASSUME IInv, NEW port \in Ports \cup {None}, NEW key \in Servers \cup {None}
    PROVE  /\ Page(port, key) \in Tab
           /\ Page(port, key).ws = None /\ Page(port, key).queue = <<>>
           /\ Page(port, key).page = "live" =>
                /\ \E s \in Servers :
                     /\ Live(s) /\ srv[s].port = port /\ srv[s].token = key
                     /\ Page(port, key).port = port /\ Page(port, key).key = key
                     /\ Page(port, key).first => ~srv[s].fallback
                /\ Page(port, key).shown # Waiting /\ ~Page(port, key).early
                     => Seen(Page(port, key).shown)
<1> USE DEF IInv
<1>0. <<>> \in Seq(Click) BY EmptySeq
<1>1. NoTab \in Tab /\ NoTab.ws = None /\ NoTab.queue = <<>> /\ NoTab.page = "none"
  BY <1>0 DEF NoTab, Tab
<1>2. CASE ~\E s \in Servers : Live(s) /\ srv[s].port = port
  <2>1. Page(port, key) = [NoTab EXCEPT !.page = "error"] BY <1>2 DEF Page
  <2> QED BY <1>0, <2>1 DEF NoTab, Tab
<1>3. CASE \E s \in Servers : Live(s) /\ srv[s].port = port
  <2> DEFINE s == CHOOSE r \in Servers : Live(r) /\ srv[r].port = port
  <2>1. s \in Servers /\ Live(s) /\ srv[s].port = port BY <1>3
  <2>2. Page(port, key) =
          IF srv[s].token = key
          THEN [NoTab EXCEPT !.page = "live", !.port = port, !.key = key,
                             !.first = ~srv[s].fallback, !.shown = Newest(s),
                             !.early = Newest(s) # Waiting /\ Newest(s) \notin srv[s].known]
          ELSE [NoTab EXCEPT !.page = "forbidden"]
    BY <1>3 DEF Page
  <2> HIDE DEF s
  <2>3. CASE srv[s].token # key
    <3>1. Page(port, key) = [NoTab EXCEPT !.page = "forbidden"] BY <2>2, <2>3
    <3> QED BY <1>0, <3>1 DEF NoTab, Tab
  <2>4. CASE srv[s].token = key
    <3> DEFINE n == Newest(s)
               early == n # Waiting /\ n \notin srv[s].known
               p == [NoTab EXCEPT !.page = "live", !.port = port, !.key = key,
                                  !.first = ~srv[s].fallback, !.shown = n, !.early = early]
    <3>1. Page(port, key) = p BY <2>2, <2>4
    <3>2. n = Waiting \/ (n \in Screens /\ n \in ToSet(srv[s].content))
      <4>1. srv[s].content \in Seq(Screens) BY <2>1 DEF Types, Server
      <4>2. CASE srv[s].content = <<>> BY <4>2 DEF Newest
      <4>3. CASE srv[s].content # <<>>
        <5>1. n = srv[s].content[Len(srv[s].content)] BY <4>3 DEF Newest, Last
        <5>2. Len(srv[s].content) \in DOMAIN srv[s].content
          BY <4>1, <4>3, EmptySeq, LenProperties
        <5> QED BY <4>1, <5>1, <5>2, SetOfIs DEF ToSet
      <4> QED BY <4>2, <4>3
    <3> HIDE DEF n
    <3>3. early \in BOOLEAN /\ (~srv[s].fallback) \in BOOLEAN OBVIOUS
    <3>4. early = (n # Waiting /\ n \notin srv[s].known) OBVIOUS
    <3> HIDE DEF early
    <3>5. /\ p \in Tab /\ p.ws = None /\ p.queue = <<>> /\ p.port = port /\ p.key = key
          /\ p.first = ~srv[s].fallback /\ p.shown = n /\ p.early = early
      BY <1>0, <3>2, <3>3 DEF NoTab, Tab
    <3> HIDE DEF p
    <3>6. ASSUME n # Waiting, ~early PROVE Seen(n)
      <4>1. n \in ToSet(srv[s].content) /\ n \in srv[s].known BY <3>2, <3>4, <3>6
      <4>2. n <= pushes BY <2>1, <4>1 DEF ScreenInv, OwnScreens
      <4>3. \A r \in Servers : n \in ToSet(srv[r].content) => r = s
        BY <2>1, <4>1 DEF ScreenInv, OwnScreens
      <4> QED BY <4>1, <4>2, <4>3 DEF Seen
    <3> QED BY <2>1, <2>4, <3>1, <3>5, <3>6
  <2> QED BY <2>3, <2>4
<1> QED BY <1>2, <1>3

\* A tab that is on a page it loads now agrees with the files.
LEMMA PageAgrees ==
    ASSUME IInv, Orderly, NEW port \in Ports \cup {None}, NEW key \in Servers \cup {None},
           tab' = Page(port, key), files' = files
    PROVE  TabAgrees'
<1> SUFFICES ASSUME tab'.page = "live", tab'.first
             PROVE  /\ files.port # None /\ files.token # None
                    /\ tab'.port = files.port /\ tab'.key = files.token
  BY DEF TabAgrees
<1>1. PICK s \in Servers : /\ Live(s) /\ srv[s].port = port /\ srv[s].token = key
                           /\ tab'.port = port /\ tab'.key = key
                           /\ ~srv[s].fallback
  BY PageIs
<1>2. files.port = port /\ files.token = key BY <1>1 DEF IInv, FilesInv, Agree
<1>3. port # None /\ key # None
  BY <1>1 DEF IInv, FilesInv, Named, Live, Started, Starting
<1> QED BY <1>1, <1>2, <1>3

\* A page that loads leaves the servers alone and drops what was queued.
LEMMA LoadKeeps ==
    ASSUME IInv, UNCHANGED <<files, pushes, clicks, raced, spoiled>>,
           NEW port \in Ports \cup {None}, NEW key \in Servers \cup {None},
           tab' = Page(port, key), srv' \in [Servers -> Server],
           \A s \in Servers : SamePlace(s) /\ SameSession(s)
    PROVE  IInv'
<1> USE DEF IInv
<1>1. /\ tab' \in Tab /\ tab'.ws = None /\ tab'.queue = <<>>
      /\ tab'.page = "live" /\ tab'.shown # Waiting /\ ~tab'.early => Seen(tab'.shown)
  BY PageIs
<1>2. Types'
  <2>1. OneHolder' BY DEF Types, OneHolder, Holds, SamePlace
  <2> QED BY <1>1, <2>1 DEF Types, SocketOpen
<1>3. FilesInv'
  <2>1. Orderly => TabAgrees' BY PageAgrees
  <2> QED BY <2>1, PlacesKeepFiles
<1>4. OrderInv'
  <2>1. \A s \in Servers : Queued(s)' = <<>> BY <1>1 DEF Queued
  <2> QED BY <1>1, <2>1, NoClicks, EmptyIs DEF OrderInv, InOrder, SameSession, Made
<1>5. OwnScreens' BY DEF ScreenInv, OwnScreens, SameSession
<1>6. \A s \in Servers : Keeps(s) BY DEF SameSession, Keeps
<1>7. pushes' \in Nat /\ pushes <= pushes' BY DEF Counters
<1>8. OnSeen(tab'.queue) BY <1>1, NoClicks
<1>9. ASSUME NEW s \in Servers PROVE OnSeen(srv'[s].events) /\ OnSeen(srv'[s].wire)
  <2>1. srv'[s].events = srv[s].events /\ srv'[s].wire = srv[s].wire BY DEF SameSession
  <2>2. OnSeen(srv[s].events) /\ OnSeen(srv[s].wire) BY DEF ScreenInv
  <2> QED BY <2>1, <2>2
<1>10. ScreenInv' BY <1>1, <1>2, <1>5, <1>6, <1>7, <1>8, <1>9, SeenKeeps
<1> QED BY <1>2, <1>3, <1>4, <1>10 DEF Counters

LEMMA UnpluggedIs ==
    ASSUME Types, srv' = Unplugged
    PROVE  srv' \in [Servers -> Server] /\ \A s \in Servers : SamePlace(s) /\ SameSession(s)
<1>1. \A s \in Servers : srv[s] \in Server /\ srv'[s] = [srv[s] EXCEPT !.reload = FALSE]
  BY DEF Types, Unplugged
<1>2. ASSUME NEW s \in Servers PROVE srv'[s] \in Server /\ SamePlace(s) /\ SameSession(s)
  <2> DEFINE new == [srv[s] EXCEPT !.reload = FALSE]
  <2>1. /\ new \in Server
        /\ new.pc = srv[s].pc /\ new.port = srv[s].port /\ new.token = srv[s].token
        /\ new.fallback = srv[s].fallback /\ new.content = srv[s].content
        /\ new.timers = srv[s].timers /\ new.known = srv[s].known
        /\ new.events = srv[s].events /\ new.wire = srv[s].wire
    BY <1>1 DEF Server
  <2>2. srv'[s] = new BY <1>1
  <2> HIDE DEF new
  <2> QED BY <2>1, <2>2 DEF SamePlace, SameSession
<1> QED BY <1>2 DEF Unplugged

LEMMA PagesKeep ==
    ASSUME IInv, onmessage \/ \E s \in Servers : Open(s)
    PROVE  IInv'
<1> USE DEF IInv
<1>1. CASE onmessage
  <2>1. /\ tab' = Page(tab.port, tab.key) /\ srv' = Unplugged
        /\ UNCHANGED <<files, pushes, clicks, raced, spoiled>>
    BY <1>1 DEF onmessage, history
  <2>2. tab.port \in Ports \cup {None} /\ tab.key \in Servers \cup {None} BY DEF Types, Tab
  <2> QED BY <2>1, <2>2, UnpluggedIs, LoadKeeps
<1>2. ASSUME NEW s \in Servers, Open(s) PROVE IInv'
  <2>1. /\ tab' = Page(srv[s].port, srv[s].token) /\ srv' = Unplugged
        /\ UNCHANGED <<files, pushes, clicks, raced, spoiled>>
    BY <1>2 DEF Open
  <2>2. srv[s].port \in Ports \cup {None} /\ srv[s].token \in Servers \cup {None}
    BY DEF Types, Server
  <2> QED BY <2>1, <2>2, UnpluggedIs, LoadKeeps
<1> QED BY <1>1, <1>2

\* Clicks that come after others: at the end of the wire they are in order.
LEMMA WireGrows ==
    ASSUME NEW e \in Seq(Click), NEW w \in Seq(Click), NEW q \in Seq(Click),
           Ordered(e), Ordered(w), Ordered(q), Before(e, w), Before(e, q), Before(w, q)
    PROVE  w \o q \in Seq(Click) /\ Ordered(w \o q) /\ Before(e, w \o q)
BY ConcatProperties, OrderOfConcat, BeforeConcat

LEMMA ConcatMade ==
    ASSUME NEW q \in Seq(Click), NEW r \in Seq(Click), Made(q), Made(r)
    PROVE  Made(q \o r)
<1>1. \A i \in DOMAIN (q \o r) : \/ \E j \in DOMAIN q : (q \o r)[i] = q[j]
                                 \/ \E j \in DOMAIN r : (q \o r)[i] = r[j]
  BY ClicksOfConcat
<1> QED BY <1>1 DEF Made

LEMMA ConcatOnSeen ==
    ASSUME NEW q \in Seq(Click), NEW r \in Seq(Click), OnSeen(q), OnSeen(r)
    PROVE  OnSeen(q \o r)
<1>1. \A i \in DOMAIN (q \o r) : \/ \E j \in DOMAIN q : (q \o r)[i] = q[j]
                                 \/ \E j \in DOMAIN r : (q \o r)[i] = r[j]
  BY ClicksOfConcat
<1> QED BY <1>1 DEF OnSeen

\* What was queued goes on the wire of the server that took the socket; a tab
\* that was down for long loads its page again.
LEMMA ConnectKeeps ==
    ASSUME IInv, NEW s \in Servers, Connect(s)
    PROVE  IInv'
<1> USE DEF IInv
<1>0. /\ srv \in [Servers -> Server] /\ srv[s] \in Server /\ tab \in Tab
      /\ srv[s].events \in Seq(Click) /\ srv[s].wire \in Seq(Click) /\ tab.queue \in Seq(Click)
  BY DEF Types, Server, Tab
<1>1. /\ tab.page = "live" /\ tab.ws = None /\ Live(s)
      /\ UNCHANGED <<files, pushes, clicks, raced, spoiled>>
  BY DEF Connect, history
<1>2. (\A r \in Servers : InOrder(r) /\ Made(srv[r].events) /\ Made(srv[r].wire)) /\ Made(tab.queue)
  BY DEF OrderInv
<1> DEFINE w == srv[s].wire \o tab.queue
           new == [srv[s] EXCEPT !.wire = w, !.reload = FALSE]
<1>3. w \in Seq(Click) /\ Ordered(w) /\ Before(srv[s].events, w) /\ Made(w) /\ OnSeen(w)
  <2>1. Queued(s) = tab.queue BY <1>1 DEF Queued
  <2>2. InOrder(s) /\ Made(srv[s].wire) /\ Made(tab.queue) BY <1>2
  <2>3. OnSeen(srv[s].wire) /\ OnSeen(tab.queue) BY DEF ScreenInv
  <2>4. w \in Seq(Click) /\ Ordered(w) /\ Before(srv[s].events, w)
    BY <1>0, <2>1, <2>2, WireGrows DEF InOrder
  <2> QED BY <1>0, <2>2, <2>3, <2>4, ConcatMade, ConcatOnSeen
<1>4. srv' = [srv EXCEPT ![s] = new] BY <1>0 DEF Connect
<1> HIDE DEF w
<1>5. new \in Server BY <1>0, <1>3 DEF Server
<1>6. /\ new.pc = srv[s].pc /\ new.port = srv[s].port /\ new.token = srv[s].token
      /\ new.fallback = srv[s].fallback /\ new.content = srv[s].content
      /\ new.timers = srv[s].timers /\ new.known = srv[s].known
      /\ new.events = srv[s].events /\ new.wire = w
  BY <1>0 DEF Server
<1> HIDE DEF new
<1>7. /\ srv' \in [Servers -> Server] /\ OneHolder'
      /\ srv'[s] = new /\ \A r \in Servers \ {s} : srv'[r] = srv[r]
  <2>1. srv[s].pc \in Bound BY <1>1 DEF Live, Bound
  <2> QED BY <1>4, <1>5, <1>6, <2>1, OneServer
<1>8. /\ tab' \in Tab /\ SocketOpen' /\ tab'.queue = <<>>
      /\ Orderly => TabAgrees'
      /\ tab'.page = "live" /\ tab'.shown # Waiting /\ ~tab'.early => Seen(tab'.shown)
  <2>0. <<>> \in Seq(Click) BY EmptySeq
  <2>1. CASE tab.down = "long"
    <3>1. tab' = Page(tab.port, tab.key) BY <2>1 DEF Connect, Recovered
    <3>2. tab.port \in Ports \cup {None} /\ tab.key \in Servers \cup {None} BY <1>0 DEF Tab
    <3> QED BY <1>1, <3>1, <3>2, PageIs, PageAgrees DEF SocketOpen
  <2>2. CASE tab.down # "long"
    <3>1. tab' = [tab EXCEPT !.ws = s, !.down = "up", !.queue = <<>>]
      BY <2>2 DEF Connect, Recovered, Flushed
    <3>2. /\ tab' \in Tab /\ tab'.page = tab.page /\ tab'.queue = <<>> /\ tab'.down = "up"
          /\ tab'.first = tab.first /\ tab'.port = tab.port /\ tab'.key = tab.key
          /\ tab'.shown = tab.shown /\ tab'.early = tab.early
      BY <1>0, <2>0, <3>1 DEF Tab
    <3> QED BY <1>1, <3>2 DEF FilesInv, TabAgrees, SocketOpen, ScreenInv
  <2> QED BY <2>1, <2>2
<1>9. Types' BY <1>1, <1>7, <1>8 DEF Types
<1>10. FilesInv'
  <2>1. \A r \in Servers : SamePlace(r) BY <1>6, <1>7 DEF SamePlace
  <2> QED BY <1>1, <1>8, <2>1, PlacesKeepFiles
<1>11. OrderInv'
  <2>1. \A r \in Servers : Queued(r)' = <<>> BY <1>8 DEF Queued
  <2>2. Made(tab.queue)' BY <1>8, EmptyIs DEF Made
  <2>3. ASSUME NEW r \in Servers \ {s}
        PROVE  (InOrder(r) /\ Made(srv[r].events) /\ Made(srv[r].wire))'
    <3>1. srv'[r] = srv[r] BY <1>7
    <3> QED BY <1>1, <1>2, <2>1, <3>1, NoClicks DEF InOrder, Made
  <2>4. srv'[s].events = srv[s].events /\ srv'[s].wire = w BY <1>6, <1>7
  <2>5. (InOrder(s) /\ Made(srv[s].events) /\ Made(srv[s].wire))'
    BY <1>1, <1>2, <1>3, <2>1, <2>4, NoClicks DEF InOrder, Made
  <2> QED BY <2>2, <2>3, <2>5 DEF OrderInv
<1>12. \A r \in Servers : /\ srv'[r].content = srv[r].content /\ srv'[r].known = srv[r].known
                          /\ srv'[r].timers = srv[r].timers
  BY <1>6, <1>7
<1>13. OwnScreens' BY <1>1, <1>12 DEF ScreenInv, OwnScreens
<1>14. \A r \in Servers : Keeps(r) BY <1>12 DEF Keeps
<1>15. pushes' \in Nat /\ pushes <= pushes' BY <1>1 DEF Counters
<1>16. ASSUME NEW r \in Servers PROVE OnSeen(srv'[r].events) /\ OnSeen(srv'[r].wire)
  <2>1. OnSeen(srv[r].events) /\ OnSeen(srv[r].wire) BY DEF ScreenInv
  <2>2. CASE r = s BY <1>3, <1>6, <1>7, <2>1, <2>2
  <2>3. CASE r # s BY <1>7, <2>1, <2>3
  <2> QED BY <2>2, <2>3
<1>17. ScreenInv' BY <1>8, <1>9, <1>13, <1>14, <1>15, <1>16, NoClicks, SeenKeeps
<1> QED BY <1>1, <1>9, <1>10, <1>11, <1>17 DEF Counters

\* A socket closes, or the overlay is shown.
LEMMA oncloseKeeps == ASSUME IInv, onclose PROVE IInv'
<1> USE DEF IInv
<1>1. /\ tab \in Tab /\ tab.page = "live"
      /\ UNCHANGED <<files, srv, pushes, clicks, raced, spoiled>>
  BY DEF onclose, history, Types
<1>2. \E ws \in {None, tab.ws}, down \in {"short", "long"} :
         /\ tab' = [tab EXCEPT !.ws = ws, !.down = down]
         /\ ws = None
  BY <1>1 DEF onclose, Tab
<1>3. PICK down \in {"short", "long"} : tab' = [tab EXCEPT !.ws = None, !.down = down]
  BY <1>2
<1>4. /\ tab' \in Tab /\ tab'.page = tab.page /\ tab'.ws = None /\ tab'.queue = tab.queue
      /\ tab'.first = tab.first /\ tab'.port = tab.port /\ tab'.key = tab.key
      /\ tab'.shown = tab.shown /\ tab'.early = tab.early
  BY <1>1, <1>3 DEF Tab
<1>5. Types'
  <2>1. OneHolder' BY <1>1 DEF Types, OneHolder, Holds
  <2> QED BY <1>1, <1>4, <2>1 DEF Types, SocketOpen
<1>6. FilesInv'
  <2>1. Orderly => TabAgrees' BY <1>1, <1>4 DEF FilesInv, TabAgrees
  <2>2. \A s \in Servers : SamePlace(s) BY <1>1 DEF SamePlace
  <2> QED BY <1>1, <2>1, <2>2, PlacesKeepFiles
<1>7. OrderInv'
  <2>1. \A s \in Servers : Queued(s)' \in {<<>>, Queued(s)}
    BY <1>4 DEF Queued, Types, SocketOpen
  <2>2. Made(tab.queue)' = Made(tab.queue) BY <1>1, <1>4 DEF Made
  <2> SUFFICES ASSUME NEW s \in Servers
               PROVE  (InOrder(s) /\ Made(srv[s].events) /\ Made(srv[s].wire))'
    BY <2>2 DEF OrderInv
  <2>3. InOrder(s) /\ Made(srv[s].events) /\ Made(srv[s].wire) BY DEF OrderInv
  <2>4. CASE Queued(s)' = Queued(s) BY <1>1, <2>3, <2>4 DEF InOrder, Made
  <2>5. CASE Queued(s)' = <<>> BY <1>1, <2>3, <2>5, NoClicks DEF InOrder, Made
  <2> QED BY <2>1, <2>4, <2>5
<1>8. OwnScreens' /\ \A s \in Servers : Keeps(s) BY <1>1 DEF ScreenInv, OwnScreens, Keeps
<1>9. pushes' \in Nat /\ pushes <= pushes' BY <1>1 DEF Counters
<1>10. ScreenInv' BY <1>1, <1>4, <1>5, <1>8, <1>9, SeenKeeps DEF ScreenInv
<1> QED BY <1>1, <1>5, <1>6, <1>7, <1>10 DEF Counters

LEMMA BeforeGrows ==
    ASSUME NEW e \in Seq(Click), NEW q \in Seq(Click), NEW r \in Seq(Click),
           Before(e, q), Before(e, r)
    PROVE  Before(e, q \o r)
BY BeforeConcat

\* A click is the newest one, wherever it goes.
MadeBy(q, n) == \A i \in DOMAIN q : q[i].id <= n

LEMMA NewestClick ==
    ASSUME Counters, NEW c \in Click, c.id = clicks + 1, clicks' = clicks + 1
    PROVE  \A q \in Seq(Click) :
             Made(q) => /\ Before(q, <<c>>) /\ MadeBy(q, clicks') /\ MadeBy(q \o <<c>>, clicks')
                        /\ q \o <<c>> \in Seq(Click)
                        /\ Ordered(q) => Ordered(q \o <<c>>)
<1> SUFFICES ASSUME NEW q \in Seq(Click), Made(q)
             PROVE  /\ Before(q, <<c>>) /\ MadeBy(q, clicks') /\ MadeBy(q \o <<c>>, clicks')
                    /\ q \o <<c>> \in Seq(Click)
                    /\ Ordered(q) => Ordered(q \o <<c>>)
  OBVIOUS
<1>1. <<c>> \in Seq(Click) /\ DOMAIN <<c>> = {1} /\ <<c>>[1] = c /\ Ordered(<<c>>)
  BY OneClick
<1>2. \A i \in DOMAIN q : q[i] \in Click BY SetOfIs
<1>3. clicks \in Nat /\ \A i \in DOMAIN q : q[i].id \in Nat BY <1>2 DEF Counters, Click
<1>4. Before(q, <<c>>) BY <1>1, <1>3 DEF Before, Made
<1>5. MadeBy(q, clicks') BY <1>3 DEF Made, MadeBy
<1>6. MadeBy(q \o <<c>>, clicks')
  <2>1. \A i \in DOMAIN (q \o <<c>>) : \/ \E j \in DOMAIN q : (q \o <<c>>)[i] = q[j]
                                       \/ (q \o <<c>>)[i] = c
    BY <1>1, ClicksOfConcat
  <2>2. c.id <= clicks' BY <1>3
  <2> QED BY <1>5, <2>1, <2>2 DEF MadeBy
<1>7. q \o <<c>> \in Seq(Click) BY <1>1, ConcatProperties
<1>8. Ordered(q) => Ordered(q \o <<c>>) BY <1>1, <1>4, OrderOfConcat
<1> QED BY <1>4, <1>5, <1>6, <1>7, <1>8

LEMMA ClickOnKeeps == ASSUME IInv, ClickOn PROVE IInv'
<1> USE DEF IInv
<1> DEFINE c == [id |-> clicks + 1, on |-> tab.shown, early |-> tab.early]
<1>0. tab \in Tab /\ srv \in [Servers -> Server] /\ tab.queue \in Seq(Click) BY DEF Types, Tab
<1>1. /\ tab.page = "live" /\ tab.shown # Waiting /\ clicks < MaxClicks /\ clicks' = clicks + 1
      /\ UNCHANGED <<files, pushes, raced, spoiled>>
  BY DEF ClickOn
<1>2. /\ c.id = clicks + 1 /\ c.on = tab.shown /\ c.early = tab.early OBVIOUS
<1>3. c \in Click
  <2>1. clicks + 1 \in 1 .. MaxClicks BY <1>1, CompanionAssumption DEF Counters
  <2> QED BY <1>0, <1>1, <2>1 DEF Tab, Click
<1>4. OnSeen(<<c>>)
  <2>1. DOMAIN <<c>> = {1} /\ <<c>>[1] = c BY <1>3, OneClick
  <2>2. c.early \/ Seen(c.on) BY <1>1, <1>2 DEF ScreenInv
  <2> HIDE DEF c
  <2> QED BY <2>1, <2>2 DEF OnSeen
<1>5. /\ tab.ws = None => tab' = [tab EXCEPT !.queue = Append(@, c)] /\ srv' = srv
      /\ tab.ws # None =>
           /\ tab' = tab
           /\ srv' = IF Live(tab.ws) THEN [srv EXCEPT ![tab.ws].wire = Append(@, c)] ELSE srv
  BY DEF ClickOn
<1> HIDE DEF c
<1>6. <<c>> \in Seq(Click) BY <1>3, OneClick
<1>7. \A q \in Seq(Click) : Append(q, c) = q \o <<c>> BY <1>3, AppendIsConcat
<1>8. \A q \in Seq(Click) :
         Made(q) => /\ Before(q, <<c>>) /\ MadeBy(q, clicks') /\ MadeBy(q \o <<c>>, clicks')
                    /\ q \o <<c>> \in Seq(Click)
                    /\ Ordered(q) => Ordered(q \o <<c>>)
  BY <1>1, <1>2, <1>3, NewestClick
<1>9. \A r \in Servers : srv[r].events \in Seq(Click) /\ srv[r].wire \in Seq(Click)
  BY <1>0 DEF Server
<1>10. /\ \A r \in Servers : InOrder(r) /\ Made(srv[r].events) /\ Made(srv[r].wire)
       /\ Servers # {} => Made(tab.queue)
  BY DEF OrderInv
<1>11. pushes' \in Nat /\ pushes <= pushes' BY <1>1 DEF Counters
<1>12. Counters'
  <2>1. clicks + 1 \in 0 .. MaxClicks BY <1>1, CompanionAssumption DEF Counters
  <2> QED BY <1>1, <2>1 DEF Counters
<1>13. CASE tab.ws = None
  <2> DEFINE q == tab.queue \o <<c>>
  <2>1. tab' = [tab EXCEPT !.queue = q] /\ srv' = srv BY <1>0, <1>5, <1>7, <1>13
  <2>2. q \in Seq(Click) BY <1>0, <1>6, ConcatProperties
  <2>3. OnSeen(q) BY <1>0, <1>4, <1>6, ConcatOnSeen DEF ScreenInv
  <2> HIDE DEF q
  <2>4. /\ tab' \in Tab /\ tab'.page = tab.page /\ tab'.ws = None /\ tab'.queue = q
        /\ tab'.first = tab.first /\ tab'.port = tab.port /\ tab'.key = tab.key
        /\ tab'.shown = tab.shown /\ tab'.early = tab.early
    BY <1>0, <1>13, <2>1, <2>2 DEF Tab
  <2>5. Types'
    <3>1. OneHolder' BY <2>1 DEF Types, OneHolder, Holds
    <3> QED BY <1>1, <2>1, <2>4, <3>1 DEF Types, SocketOpen
  <2>6. FilesInv'
    <3>1. Orderly => TabAgrees' BY <1>1, <2>4 DEF FilesInv, TabAgrees
    <3>2. \A s \in Servers : SamePlace(s) BY <2>1 DEF SamePlace
    <3> QED BY <1>1, <3>1, <3>2, PlacesKeepFiles
  <2>7. OrderInv'
    <3> SUFFICES ASSUME NEW s \in Servers
                 PROVE  (InOrder(s) /\ Made(srv[s].events) /\ Made(srv[s].wire) /\ Made(tab.queue))'
      BY DEF OrderInv
    <3> DEFINE e == srv[s].events
               w == srv[s].wire
               t == tab.queue
    <3>1. /\ Ordered(e) /\ Ordered(w) /\ Ordered(t) /\ Before(e, w) /\ Before(e, t) /\ Before(w, t)
          /\ Made(e) /\ Made(w) /\ Made(t)
      BY <1>10, <1>13 DEF InOrder, Queued
    <3>2. e \in Seq(Click) /\ w \in Seq(Click) /\ t \in Seq(Click) BY <1>0, <1>9
    <3>3. srv'[s].events = e /\ srv'[s].wire = w /\ q = t \o <<c>> BY <2>1 DEF q
    <3> HIDE DEF e, w, t
    <3>4. Ordered(q) /\ MadeBy(q, clicks') BY <1>8, <3>1, <3>2, <3>3
    <3>5. Before(e, <<c>>) /\ Before(w, <<c>>) /\ MadeBy(e, clicks') /\ MadeBy(w, clicks')
      BY <1>8, <3>1, <3>2
    <3>6. Before(e, q) /\ Before(w, q) BY <1>6, <3>1, <3>2, <3>3, <3>5, BeforeGrows
    <3>7. Queued(s)' = q BY <2>4 DEF Queued
    <3>8. InOrder(s)' BY <3>1, <3>3, <3>4, <3>6, <3>7 DEF InOrder
    <3> QED BY <2>4, <3>3, <3>4, <3>5, <3>8 DEF Made, MadeBy
  <2>8. OwnScreens' /\ \A s \in Servers : Keeps(s)
    BY <1>1, <2>1 DEF ScreenInv, OwnScreens, Keeps
  <2>9. ScreenInv' BY <1>11, <2>1, <2>3, <2>4, <2>5, <2>8, SeenKeeps DEF ScreenInv
  <2> QED BY <1>12, <2>5, <2>6, <2>7, <2>9
<1>14. CASE tab.ws # None
  <2> DEFINE s == tab.ws
             w == srv[s].wire \o <<c>>
             new == [srv[s] EXCEPT !.wire = w]
  <2>1. s \in Servers /\ srv[s] \in Server /\ tab' = tab /\ tab.queue = <<>>
    BY <1>0, <1>5, <1>14 DEF Tab, Types, SocketOpen
  <2>2. srv' = srv \/ (Live(s) /\ srv' = [srv EXCEPT ![s] = new])
    <3>1. CASE Live(s)
      <4>1. srv' = [srv EXCEPT ![s].wire = Append(@, c)] BY <1>5, <1>14, <3>1
      <4>2. Append(srv[s].wire, c) = w BY <1>7, <1>9, <2>1
      <4> QED BY <2>1, <3>1, <4>1, <4>2
    <3>2. CASE ~Live(s) BY <1>5, <1>14, <3>2
    <3> QED BY <3>1, <3>2
  <2>3. w \in Seq(Click) BY <1>6, <1>9, <2>1, ConcatProperties
  <2>4. OnSeen(w)
    <3>1. OnSeen(srv[s].wire) BY <2>1 DEF ScreenInv
    <3> QED BY <1>4, <1>6, <1>9, <2>1, <3>1, ConcatOnSeen
  <2>5. Ordered(w) /\ Before(srv[s].events, w) /\ MadeBy(w, clicks')
    <3>1. /\ Ordered(srv[s].wire) /\ Made(srv[s].wire) /\ Made(srv[s].events)
          /\ Before(srv[s].events, srv[s].wire)
      BY <1>10, <2>1 DEF InOrder
    <3>2. Before(srv[s].events, <<c>>) BY <1>8, <1>9, <2>1, <3>1
    <3>3. Before(srv[s].events, w) BY <1>6, <1>9, <2>1, <3>1, <3>2, BeforeGrows
    <3>4. Ordered(w) /\ MadeBy(w, clicks') BY <1>8, <1>9, <2>1, <3>1
    <3> QED BY <3>3, <3>4
  <2> HIDE DEF w
  <2>6. new \in Server BY <2>1, <2>3 DEF Server
  <2>7. /\ new.pc = srv[s].pc /\ new.port = srv[s].port /\ new.token = srv[s].token
        /\ new.fallback = srv[s].fallback /\ new.content = srv[s].content
        /\ new.timers = srv[s].timers /\ new.known = srv[s].known
        /\ new.events = srv[s].events /\ new.wire = w
    BY <2>1 DEF Server
  <2> HIDE DEF new, s
  <2>8. /\ srv' \in [Servers -> Server] /\ OneHolder'
        /\ \A r \in Servers \ {s} : srv'[r] = srv[r]
        /\ srv'[s] = srv[s] \/ srv'[s] = new
    <3>1. CASE srv' = srv BY <3>1 DEF Types, OneHolder, Holds
    <3>2. CASE Live(s) /\ srv' = [srv EXCEPT ![s] = new]
      <4>1. srv[s].pc \in Bound BY <3>2 DEF Live, Bound
      <4> QED BY <2>1, <2>6, <2>7, <3>2, <4>1, OneServer
    <3> QED BY <2>2, <3>1, <3>2
  <2>9. Types' BY <1>1, <2>1, <2>8 DEF Types, SocketOpen
  <2>10. \A r \in Servers :
           /\ SamePlace(r)
           /\ srv'[r].content = srv[r].content /\ srv'[r].known = srv[r].known
           /\ srv'[r].timers = srv[r].timers /\ srv'[r].events = srv[r].events
           /\ srv'[r].wire = srv[r].wire \/ (r = s /\ srv'[r].wire = w)
    BY <2>7, <2>8 DEF SamePlace
  <2>11. FilesInv'
    <3>1. Orderly => TabAgrees' BY <1>1, <2>1 DEF FilesInv, TabAgrees
    <3> QED BY <1>1, <2>10, <3>1, PlacesKeepFiles
  <2>12. \A r \in Servers : Queued(r)' = <<>> /\ Queued(r) = <<>> BY <2>1 DEF Queued
  <2>13. OrderInv'
    <3> SUFFICES ASSUME NEW r \in Servers
                 PROVE  (InOrder(r) /\ Made(srv[r].events) /\ Made(srv[r].wire) /\ Made(tab.queue))'
      BY DEF OrderInv
    <3>1. InOrder(r) /\ Made(srv[r].events) /\ Made(srv[r].wire) BY <1>10
    <3>2. /\ srv'[r].events = srv[r].events /\ Made(srv[r].events)' /\ Made(srv[r].wire)'
          /\ Made(tab.queue)'
      <4>1. \A q \in Seq(Click) : Made(q) => MadeBy(q, clicks') BY <1>8
      <4>3. \A i \in DOMAIN srv[r].events : srv[r].events[i].id <= clicks'
        BY <1>9, <3>1, <4>1 DEF MadeBy
      <4>4. \A i \in DOMAIN srv[r].wire : srv[r].wire[i].id <= clicks'
        BY <1>9, <3>1, <4>1 DEF MadeBy
      <4>5. \A i \in DOMAIN w : w[i].id <= clicks' BY <2>5 DEF MadeBy
      <4>6. Made(tab.queue)' BY <2>1, EmptyIs DEF Made
      <4> QED BY <2>10, <4>3, <4>4, <4>5, <4>6 DEF Made
    <3>3. InOrder(r)'
      <4>1. CASE srv'[r].wire = srv[r].wire
        BY <2>10, <2>12, <3>1, <4>1 DEF InOrder
      <4>2. CASE r = s /\ srv'[r].wire = w
        BY <2>5, <2>10, <2>12, <3>1, <4>2, NoClicks DEF InOrder
      <4> QED BY <2>10, <4>1, <4>2
    <3> QED BY <3>2, <3>3
  <2>14. OwnScreens' /\ \A r \in Servers : Keeps(r)
    BY <1>1, <2>10 DEF ScreenInv, OwnScreens, Keeps
  <2>15. ASSUME NEW r \in Servers PROVE OnSeen(srv'[r].events) /\ OnSeen(srv'[r].wire)
    <3>1. OnSeen(srv[r].events) /\ OnSeen(srv[r].wire) BY DEF ScreenInv
    <3> QED BY <2>4, <2>10, <3>1
  <2>16. ScreenInv' BY <1>11, <2>1, <2>9, <2>14, <2>15, SeenKeeps DEF ScreenInv
  <2> QED BY <1>12, <2>9, <2>11, <2>13, <2>16
<1> QED BY <1>13, <1>14

-----------------------------------------------------------------------------
(* The invariant is inductive. *)

LEMMA InitIs == Init => IInv
<1> SUFFICES ASSUME Init PROVE IInv
  OBVIOUS
<1>1. /\ files = [port |-> None, token |-> None] /\ tab = NoTab
      /\ pushes = 0 /\ clicks = 0 /\ raced = FALSE /\ spoiled = FALSE
      /\ srv \in [Servers -> Server]
      /\ \A s \in Servers :
           /\ srv[s].pc = "none" /\ srv[s].content = <<>> /\ srv[s].timers = {}
           /\ srv[s].events = <<>> /\ srv[s].wire = <<>>
  BY GoneIs DEF Init
<1>2. /\ tab \in Tab /\ tab.ws = None /\ tab.queue = <<>> /\ tab.page = "none"
  <2>1. <<>> \in Seq(Click) BY EmptySeq
  <2> QED BY <1>1, <2>1 DEF NoTab, Tab
<1>3. Types
  <2>1. OneHolder BY <1>1 DEF OneHolder, Bound
  <2> QED BY <1>1, <1>2, <2>1 DEF Types, SocketOpen
<1>4. Counters
  <2>1. MaxPushes \in Nat /\ MaxClicks \in Nat BY CompanionAssumption
  <2>2. pushes \in 0 .. MaxPushes /\ clicks \in 0 .. MaxClicks BY <1>1, <2>1
  <2>3. raced \in BOOLEAN /\ spoiled \in BOOLEAN BY <1>1
  <2> QED BY <2>2, <2>3 DEF Counters
<1>5. FilesInv
  <2>1. \A s \in Servers : srv[s].pc \notin Started /\ srv[s].pc \notin Starting
    BY <1>1 DEF Started, Starting
  <2> QED BY <1>1, <1>2, <2>1
          DEF FilesInv, Named, OneFirstStart, Agree, TabAgrees, Live, Started, Starting
<1>6. OrderInv
  <2>1. \A s \in Servers : Queued(s) = <<>> BY <1>2 DEF Queued
  <2> QED BY <1>1, <1>2, <2>1, NoClicks DEF OrderInv, InOrder
<1>7. ScreenInv BY <1>1, <1>2, EmptyIs, NoClicks DEF ScreenInv, OwnScreens
<1> QED BY <1>3, <1>4, <1>5, <1>6, <1>7 DEF IInv

LEMMA StutterKeeps == ASSUME IInv, UNCHANGED vars PROVE IInv'
<1> USE DEF IInv, vars, history
<1>1. Types' BY DEF Types, SocketOpen, OneHolder, Holds
<1>2. Counters' BY DEF Counters
<1>3. FilesInv' BY DEF FilesInv, Named, Orderly, OneFirstStart, Agree, TabAgrees, Live
<1>4. OrderInv'
  <2>1. \A s \in Servers : Queued(s)' = Queued(s) BY DEF Queued
  <2> QED BY <2>1, OrderStays
<1>5. ScreenInv'
  <2>1. OwnScreens' /\ \A s \in Servers : Keeps(s) BY DEF ScreenInv, OwnScreens, Keeps
  <2>2. pushes' \in Nat /\ pushes <= pushes' BY DEF Counters
  <2> QED BY <1>1, <2>1, <2>2, SeenKeeps DEF ScreenInv
<1> QED BY <1>1, <1>2, <1>3, <1>4, <1>5

LEMMA NextKeeps == ASSUME IInv, [Next]_vars PROVE IInv'
<1>1. ASSUME NEW s \in Servers,
             \/ preferredPort(s) \/ initialToken(s) \/ Listen(s) \/ WritePort(s) \/ WriteToken(s)
             \/ Stop(s)
      PROVE  IInv'
  BY <1>1, StartKeeps
<1>2. ASSUME NEW s \in Servers, Push(s) \/ \E i \in Screens : PushAgain(s, i) PROVE IInv'
  BY <1>2, PushKeeps
<1>3. ASSUME NEW s \in Servers, NEW n \in Screens, Debounced(s, n) PROVE IInv'
  BY <1>3, DebouncedKeeps
<1>4. ASSUME NEW s \in Servers, handleMessage(s) PROVE IInv' BY <1>4, handleMessageKeeps
<1>5. CASE onmessage \/ \E s \in Servers : Open(s) BY <1>5, PagesKeep
<1>6. ASSUME NEW s \in Servers, Connect(s) PROVE IInv' BY <1>6, ConnectKeeps
<1>7. CASE onclose BY <1>7, oncloseKeeps
<1>8. CASE ClickOn BY <1>8, ClickOnKeeps
<1>9. CASE UNCHANGED vars BY <1>9, StutterKeeps
<1> QED BY <1>1, <1>2, <1>3, <1>4, <1>5, <1>6, <1>7, <1>8, <1>9 DEF Next, ServerStep, TabStep

\* Of any number of servers, started and stopped in any order.
LEMMA Inductive == Spec => []IInv
BY InitIs, NextKeeps, PTL DEF Spec

-----------------------------------------------------------------------------
(* What the runs check. *)

\* Types, a socket that is open has nothing queued, and no two servers hold a
\* port, however many ports are taken (server.listen, ws.onopen).
THEOREM TypeCorrect == Spec => []TypeOK
<1>1. IInv => TypeOK BY DEF IInv, Types, TypeOK, Server, Tab, SocketOpen, OneHolder
<1> QED BY <1>1, Inductive, PTL

\* The tab of a server on its preferred port has the port and the key of every
\* later one (preferredPort, initialToken, onListen), unless two made their
\* first start at once or a file could not be written.
THEOREM TabIsServed == Spec => []OpenTabIsServed
<1>1. IInv => OpenTabIsServed
  BY DEF IInv, FilesInv, Agree, TabAgrees, OpenTabIsServed
<1> QED BY <1>1, Inductive, PTL

\* What a server recorded, what is on its wire and what the tab has queued for
\* it are in the order in which the user clicked, each click once (sendEvent,
\* handleMessage).
THEOREM ClicksKeepOrder == Spec => []ClicksInOrder
<1>1. IInv => ClicksInOrder
  <2> SUFFICES ASSUME IInv, NEW s \in Servers
               PROVE  Ordered(srv[s].events \o srv[s].wire \o Queued(s))
    BY DEF ClicksInOrder, Ordered, Queued
  <2> DEFINE e == srv[s].events
             w == srv[s].wire
             q == Queued(s)
  <2>1. e \in Seq(Click) /\ w \in Seq(Click) /\ q \in Seq(Click)
    <3>1. srv[s] \in Server /\ tab \in Tab BY DEF IInv, Types
    <3>2. <<>> \in Seq(Click) BY EmptySeq
    <3> QED BY <3>1, <3>2 DEF Server, Tab, Queued
  <2>2. /\ Ordered(e) /\ Ordered(w) /\ Ordered(q)
        /\ Before(e, w) /\ Before(e, q) /\ Before(w, q)
    BY DEF IInv, OrderInv, InOrder
  <2> HIDE DEF e, w, q
  <2>3. e \o w \in Seq(Click) BY <2>1, ConcatProperties
  <2>4. Ordered(e \o w) BY <2>1, <2>2, OrderOfConcat
  <2>5. Before(e \o w, q) BY <2>1, <2>2, BeforeConcat
  <2>6. Ordered(e \o w \o q) BY <2>1, <2>2, <2>3, <2>4, <2>5, OrderOfConcat
  <2> QED BY <2>6 DEF e, w, q
<1> QED BY <1>1, Inductive, PTL

\* What OnlyOldAnswersCleared says of a step.
OldCleared ==
    \A s \in Servers :
        Live(s)' /\ Len(srv'[s].events) < Len(srv[s].events) =>
            \E n \in srv'[s].known \ srv[s].known :
               \A i \in DOMAIN srv[s].events : srv[s].events[i].on # n \/ srv[s].events[i].early

\* Every step but a timer's leaves what a live server recorded, or adds to it.
LEMMA OthersRecord ==
    ASSUME IInv, Next, \A s \in Servers, n \in Screens : ~Debounced(s, n)
    PROVE  \A s \in Servers : Live(s)' => Len(srv[s].events) <= Len(srv'[s].events)
<1> DEFINE Grows(s) == Live(s)' => Len(srv[s].events) <= Len(srv'[s].events)
           Same(s)  == srv'[s].events = srv[s].events
<1> SUFFICES \A s \in Servers : Grows(s) OBVIOUS
<1>0. /\ srv \in [Servers -> Server]
      /\ \A s \in Servers : Len(srv[s].events) \in Nat
  <2>1. srv \in [Servers -> Server] BY DEF IInv, Types
  <2>2. \A s \in Servers : srv[s].events \in Seq(Click) BY <2>1 DEF Server
  <2> QED BY <2>1, <2>2, LenProperties
<1>1. \A s \in Servers : Same(s) => Grows(s) BY <1>0
<1>2. ASSUME NEW s \in Servers,
             \/ preferredPort(s) \/ initialToken(s) \/ Listen(s) \/ WritePort(s) \/ WriteToken(s)
             \/ Stop(s)
      PROVE  \A r \in Servers : Grows(r)
  <2>1. \A r \in Servers : Same(r) \/ srv'[r].pc = "gone"
    BY <1>2, StartSteps, GoneIs DEF SameSession, IInv
  <2> QED BY <1>1, <2>1 DEF Live
<1>3. ASSUME NEW s \in Servers, Push(s) \/ \E i \in Screens : PushAgain(s, i)
      PROVE  \A r \in Servers : Same(r)
  <2>1. \E content, timers : srv' = [srv EXCEPT ![s].content = content, ![s].timers = timers]
    BY <1>0, <1>3 DEF Push, PushAgain
  <2> QED BY <1>0, <2>1 DEF Server
<1>6. ASSUME NEW s \in Servers, handleMessage(s) PROVE \A r \in Servers : Grows(r)
  <2>1. srv[s] \in Server /\ srv[s].events \in Seq(Click) /\ srv[s].wire \in Seq(Click)
        /\ srv[s].wire # <<>>
    BY <1>0, <1>6 DEF Server, handleMessage
  <2>2. Head(srv[s].wire) \in Click BY <2>1, HeadAndTail
  <2>3. srv'[s].events = Append(srv[s].events, Head(srv[s].wire))
    BY <1>0, <1>6 DEF handleMessage, Server
  <2>4. Len(srv'[s].events) = Len(srv[s].events) + 1 BY <2>1, <2>2, <2>3, AppendProperties
  <2>5. \A r \in Servers \ {s} : Same(r) BY <1>0, <1>6 DEF handleMessage
  <2> QED BY <1>0, <1>1, <2>4, <2>5
<1>7. ASSUME srv' = Unplugged PROVE \A r \in Servers : Same(r)
  BY <1>0, <1>7, UnpluggedIs DEF IInv, SameSession
<1>8. ASSUME NEW s \in Servers, Connect(s) PROVE \A r \in Servers : Same(r)
  BY <1>0, <1>8 DEF Connect, Server
<1>9. CASE ClickOn
  <2>1. tab.ws \in Servers \cup {None} BY DEF IInv, Types, Tab
  <2>2. srv' = srv \/ \E s \in Servers : \E wire : srv' = [srv EXCEPT ![s].wire = wire]
    BY <1>0, <1>9, <2>1 DEF ClickOn
  <2>3. ASSUME NEW s \in Servers, NEW wire, srv' = [srv EXCEPT ![s].wire = wire]
        PROVE  \A r \in Servers : Same(r)
    BY <1>0, <2>3 DEF Server
  <2>4. \A r \in Servers : Same(r) BY <2>2, <2>3
  <2> QED BY <1>1, <2>4
<1>10. CASE onclose BY <1>1, <1>10 DEF onclose
<1> HIDE DEF Grows, Same
<1>11. ASSUME NEW s \in Servers, preferredPort(s) \/ ServerStep(s) \/ Stop(s)
       PROVE  \A r \in Servers : Grows(r)
  BY <1>2, <1>6, <1>11 DEF ServerStep
<1>12. ASSUME NEW s \in Servers, Push(s) \/ Open(s) \/ \E i \in Screens : PushAgain(s, i)
       PROVE  \A r \in Servers : Grows(r)
  <2>1. CASE Open(s)
    <3>1. srv' = Unplugged BY <2>1 DEF Open
    <3> QED BY <1>1, <1>7, <3>1
  <2>2. CASE Push(s) \/ \E i \in Screens : PushAgain(s, i) BY <1>1, <1>3, <2>2
  <2> QED BY <1>12, <2>1, <2>2
<1>13. CASE TabStep
  <2>1. CASE onmessage
    <3>1. srv' = Unplugged BY <2>1 DEF onmessage
    <3> QED BY <1>1, <1>7, <3>1
  <2>2. CASE \E s \in Servers : Connect(s) BY <1>1, <1>8, <2>2
  <2> QED BY <1>10, <1>13, <2>1, <2>2 DEF TabStep
<1> QED BY <1>9, <1>11, <1>12, <1>13 DEF Next

\* Recorded answers go only when a server learns of a new screen, and no
\* answer to that screen is among them but those of a page that loaded before
\* the server knew of it (the debounced fs.watch callback).
THEOREM NoFreshAnswerCleared == Spec => OnlyOldAnswersCleared
<1>1. ASSUME IInv, NEW t \in Servers, NEW m \in Screens, Debounced(t, m) PROVE OldCleared
  <2> SUFFICES ASSUME NEW s \in Servers, Len(srv'[s].events) < Len(srv[s].events)
               PROVE  \E n \in srv'[s].known \ srv[s].known :
                        \A i \in DOMAIN srv[s].events :
                           srv[s].events[i].on # n \/ srv[s].events[i].early
    BY DEF OldCleared
  <2>1. srv[s].events \in Seq(Click) BY <1>1 DEF IInv, Types, Server
  <2>2. Len(srv[s].events) \in Nat BY <2>1, LenProperties
  <2>3. srv'[s].events # srv[s].events BY <2>2
  <2>4. s = t /\ m \notin srv[s].known /\ m \in srv[s].timers /\ m \in srv'[s].known
    BY <1>1, <2>3, DebouncedSteps
  <2>5. m \in ToSet(srv[s].content) BY <1>1, <2>4 DEF IInv, ScreenInv, OwnScreens
  <2>6. ~Seen(m) BY <2>4, <2>5 DEF Seen
  <2>7. OnSeen(srv[s].events) BY <1>1 DEF IInv, ScreenInv
  <2> QED BY <2>4, <2>6, <2>7 DEF OnSeen
<1>2. ASSUME IInv, Next, \A s \in Servers, n \in Screens : ~Debounced(s, n) PROVE OldCleared
  <2>1. \A s \in Servers : Len(srv[s].events) \in Nat /\ Len(srv'[s].events) \in Nat
    <3>1. IInv' BY <1>2, NextKeeps
    <3>2. \A s \in Servers : srv[s].events \in Seq(Click) /\ srv'[s].events \in Seq(Click)
      BY <1>2, <3>1 DEF IInv, Types, Server
    <3> QED BY <3>2, LenProperties
  <2> QED BY <1>2, <2>1, OthersRecord DEF OldCleared
<1>3. IInv /\ [Next]_vars => [OldCleared]_vars BY <1>1, <1>2
<1>4. Spec => [][OldCleared]_vars BY <1>3, Inductive, PTL DEF Spec
<1> QED BY <1>4 DEF OnlyOldAnswersCleared, OldCleared
=============================================================================
