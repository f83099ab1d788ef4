----------------------------- MODULE WsChannels -----------------------------
(***************************************************************************)
(* The channels multiplexed over the one web socket between the browser    *)
(* and the backend: WebSocketConnectionProvider on the browser's side,     *)
(* MessagingContribution.handleChannels on the backend's, WebSocketChannel *)
(* on both, over a reconnecting socket whose link may break at any time    *)
(* and which the backend supervises with pings.                            *)
(*                                                                         *)
(* Each connection of the socket is a session, numbered from 1; the        *)
(* backend keeps a map of channels for each.                               *)
(***************************************************************************)
EXTENDS Integers, Sequences, FiniteSets

CONSTANTS Paths,         \* paths the browser's code listens on
          Known,         \* paths for which the backend has a handler
          Reconnecting,  \* paths listened on with the option reconnecting
          MaxSessions,   \* bound: connections of the socket
          MaxCloses,     \* bound: channels closed by the services
          MaxData,       \* bound: data messages in a direction of a channel
          Supervised     \* bound: whether the interval of the pings runs

ASSUME WsAssumption ==
  /\ Known \subseteq Paths /\ Reconnecting \subseteq Paths /\ IsFiniteSet(Paths)
  /\ MaxSessions \in Nat /\ MaxCloses \in Nat /\ MaxData \in Nat
  /\ Supervised \in BOOLEAN

Sessions == 1 .. MaxSessions
\* Each session opens one channel per path, each service close one more: these are
\* all, and data are followed on these.
ChannelIds == 0 .. Cardinality(Paths) * (MaxSessions + 1) + MaxCloses

VARIABLES
  \* browser
  readyState,     \* of the reconnecting socket: "closed", "connecting", "open"
  session,        \* the latest session, 0 before the first
  listened,       \* paths openChannel was called for
  openListeners,  \* paths that wait for the socket's open event
  channelIdSeq,
  channels,       \* [id, path, opened]; opened once the handler was called
  \* network
  link,           \* session -> "none", "up", "broken"
  up, down,       \* session -> messages to the backend, to the browser
  \* backend
  socket,         \* session -> "none", "open", "terminated", "closed"
  alive,          \* session -> flag of the supervision by pings
  backChannels,   \* session -> the channels of the map, [id, path]
  \* history
  closes,         \* service closes so far
  sent, got,      \* channel id -> direction -> data sent, data handled
  newest          \* path -> the newest channel its handler was given, -1 before

browserVars == <<readyState, session, listened, openListeners, channelIdSeq, channels>>
network == <<link, up, down>>
backend == <<socket, alive, backChannels>>
history == <<closes, sent, got, newest>>
vars == <<browserVars, network, backend, history>>

Init ==
  /\ readyState = "closed" /\ session = 0
  /\ listened = {} /\ openListeners = {}
  /\ channelIdSeq = 0 /\ channels = {}
  /\ link = [s \in Sessions |-> "none"]
  /\ up = [s \in Sessions |-> <<>>] /\ down = [s \in Sessions |-> <<>>]
  /\ socket = [s \in Sessions |-> "none"]
  /\ alive = [s \in Sessions |-> FALSE]
  /\ backChannels = [s \in Sessions |-> {}]
  /\ closes = 0
  /\ sent = [i \in ChannelIds |-> [up |-> 0, down |-> 0]]
  /\ got = [i \in ChannelIds |-> [up |-> <<>>, down |-> <<>>]]
  /\ newest = [p \in Paths |-> -1]

\* WebSocketChannel.Message, and the ping and pong frames of the protocol.
OpenMessage(i, p) == [kind |-> "open", id |-> i, path |-> p]
Message(k, i) == [kind |-> k, id |-> i]
DataMessage(i, n) == [kind |-> "data", id |-> i, content |-> n]

\* doSend of the two sides: dropped once the socket is closing; on a broken
\* link the messages leave and do not arrive.
Carries(s) == link[s] = "up"
SendUp(ms) ==
  up' = IF readyState = "open" /\ Carries(session)
        THEN [up EXCEPT ![session] = @ \o ms] ELSE up
SendDown(s, ms) ==
  down' = IF socket[s] = "open" /\ Carries(s) THEN [down EXCEPT ![s] = @ \o ms] ELSE down

-----------------------------------------------------------------------------
(* The browser's side.                                                     *)

\* Defect: ids are taken again.
RecycledId(i) == Cardinality(channels) + i - 1

\* The id of the i-th channel opened in a step.
NewId(i) == channelIdSeq + i - 1

\* doOpenChannel for each of the paths ps in turn.
NewChannels(ps) == {[id |-> NewId(i), path |-> ps[i], opened |-> FALSE] : i \in DOMAIN ps}
OpenMessages(ps) == [i \in DOMAIN ps |-> OpenMessage(NewId(i), ps[i])]

\* openChannel: at once on an open socket, else when it opens.
Listen(p) ==
  /\ p \notin listened
  /\ listened' = listened \cup {p}
  /\ IF readyState = "open"
     THEN /\ channels' = channels \cup NewChannels(<<p>>)
          /\ channelIdSeq' = channelIdSeq + 1
          /\ SendUp(OpenMessages(<<p>>))
          /\ UNCHANGED openListeners
     ELSE /\ openListeners' = openListeners \cup {p}
          /\ UNCHANGED <<channels, channelIdSeq, up>>
  /\ UNCHANGED <<readyState, session, link, down, backend, history>>

\* A connection attempt succeeds: the backend has the socket, the browser's open
\* event is still to come.  handleConnection gives the socket its own map.
Connect ==
  LET s == session + 1 IN
  /\ readyState = "closed" /\ s \in Sessions
  /\ readyState' = "connecting" /\ session' = s
  /\ link' = [link EXCEPT ![s] = "up"]
  /\ socket' = [socket EXCEPT ![s] = "open"]
  /\ alive' = [alive EXCEPT ![s] = TRUE]
  /\ backChannels' = [backChannels EXCEPT ![s] = {}]
  /\ UNCHANGED <<listened, openListeners, channelIdSeq, channels, up, down, history>>

\* The open event: every waiting listener removes itself and opens its channel.
\* (In which order is left open.)
Orders(S) ==
  {o \in [1 .. Cardinality(S) -> S] :
     \A x \in S : \E i \in DOMAIN o : \A j \in DOMAIN o : o[j] = x <=> j = i}

SocketOpen ==
  /\ readyState = "connecting" /\ Carries(session)
  /\ readyState' = "open"
  /\ openListeners' = {}
  /\ \E ps \in Orders(openListeners) :
       /\ channels' = channels \cup NewChannels(ps)
       /\ channelIdSeq' = channelIdSeq + Len(ps)
       /\ up' = [up EXCEPT ![session] = @ \o OpenMessages(ps)]
  /\ UNCHANGED <<session, listened, link, down, backend, history>>

\* Defect: no path is opened again.
ReopenNone(cs) == {}

\* What the close listeners of channels do: leave the map, and open again.
PathsToReopen(cs) == {c.path : c \in cs} \cap Reconnecting
Remaining(cs) == channels \ cs

\* The close event of the socket: all channels are closed; their paths wait.
SocketClose ==
  /\ readyState \in {"connecting", "open"} /\ ~Carries(session)
  /\ readyState' = "closed"
  /\ channels' = Remaining(channels)
  /\ openListeners' = openListeners \cup PathsToReopen(channels)
  /\ UNCHANGED <<session, listened, channelIdSeq, network, backend, history>>

\* One channel is closed on an open socket: its close listeners delete it and
\* open a new one for the path; a handler's connection sends a close for the old
\* one as it is disposed.
CloseAndReopen(c, closedHere) ==
  LET again == IF c.path \in PathsToReopen({c}) THEN <<c.path>> ELSE <<>>
      close == IF c.opened THEN <<Message("close", c.id)>> ELSE <<>>
  IN  /\ channels' = Remaining({c}) \cup NewChannels(again)
      /\ channelIdSeq' = channelIdSeq + Len(again)
      /\ SendUp(IF closedHere THEN close \o OpenMessages(again)
                              ELSE OpenMessages(again) \o close)

\* A service of the browser disposes its connection.
ServiceCloses(c) ==
  /\ readyState = "open" /\ c.opened /\ closes < MaxCloses
  /\ closes' = closes + 1
  /\ CloseAndReopen(c, TRUE)
  /\ UNCHANGED <<readyState, session, listened, openListeners, link, down, backend, sent, got, newest>>

ServiceSends(c) ==
  /\ readyState = "open" /\ c.opened /\ c.id \in ChannelIds /\ sent[c.id].up < MaxData
  /\ sent' = [sent EXCEPT ![c.id].up = @ + 1]
  /\ SendUp(<<DataMessage(c.id, sent[c.id].up + 1)>>)
  /\ UNCHANGED <<browserVars, link, down, backend, closes, got, newest>>

-----------------------------------------------------------------------------
(* The browser's onmessage.                                                *)

NextDown(m) ==
  /\ readyState # "closed" /\ Carries(session)
  /\ down[session] # <<>> /\ m = Head(down[session])
  /\ down' = [down EXCEPT ![session] = Tail(@)]
  /\ UNCHANGED <<readyState, session, listened, link, backend, closes, sent>>

\* The browser itself answers a ping.
AnswerPing(m) ==
  /\ m.kind = "ping"
  /\ up' = [up EXCEPT ![session] = Append(@, Message("pong", 0))]
  /\ UNCHANGED <<openListeners, channelIdSeq, channels, got, newest>>

\* The channel a message is for, if it is still in the map.
ChannelsFor(m) == {c \in channels : c.id = m.id}

HandleReady(m) ==
  /\ m.kind = "ready"
  /\ channels' = {IF c \in ChannelsFor(m) THEN [c EXCEPT !.opened = TRUE] ELSE c : c \in channels}
  /\ newest' = [p \in Paths |->
       IF \E c \in ChannelsFor(m) : c.path = p THEN m.id ELSE newest[p]]
  /\ UNCHANGED <<openListeners, channelIdSeq, up, got>>

\* Data reach the handler only once it has been given the channel.
HandleData(m) ==
  /\ m.kind = "data"
  /\ got' = IF \E c \in ChannelsFor(m) : c.opened
            THEN [got EXCEPT ![m.id].down = Append(@, m.content)] ELSE got
  /\ UNCHANGED <<openListeners, channelIdSeq, channels, up, newest>>

HandleClose(m) ==
  /\ m.kind = "close"
  /\ IF ChannelsFor(m) = {}
     THEN UNCHANGED <<channels, channelIdSeq, up>>
     ELSE \E c \in ChannelsFor(m) : CloseAndReopen(c, FALSE)
  /\ UNCHANGED <<openListeners, got, newest>>

OnMessage ==
  /\ session \in Sessions /\ down[session] # <<>>
  /\ LET m == Head(down[session]) IN
       NextDown(m) /\ (AnswerPing(m) \/ HandleReady(m) \/ HandleData(m) \/ HandleClose(m))

-----------------------------------------------------------------------------
(* The backend's side.                                                     *)

NextUp(s, m) ==
  /\ socket[s] = "open" /\ Carries(s)
  /\ up[s] # <<>> /\ m = Head(up[s])
  /\ up' = [up EXCEPT ![s] = Tail(@)]
  /\ UNCHANGED <<browserVars, link, socket, sent, newest>>

\* channelHandlers.route: some handler, or the parent's, takes the path.
Routed(m) == m.path \in Known

\* The channel of a service is announced and kept.  A service may also close it
\* as it is given it (the debug adapter's does, for an unknown session): then it
\* is disposed, ready() throws, and the channel gets no place in the map.
HandleOpen(s, m) ==
  /\ m.kind = "open"
  /\ \/ /\ Routed(m)
        /\ backChannels' = [backChannels EXCEPT ![s] = @ \cup {[id |-> m.id, path |-> m.path]}]
        /\ SendDown(s, <<Message("ready", m.id)>>)
        /\ UNCHANGED closes
     \/ /\ Routed(m) /\ closes < MaxCloses
        /\ closes' = closes + 1
        /\ SendDown(s, <<Message("close", m.id)>>)
        /\ UNCHANGED backChannels
     \/ /\ ~Routed(m)
        /\ UNCHANGED <<backChannels, down, closes>>
  /\ UNCHANGED <<alive, got>>

HandleDataUp(s, m) ==
  /\ m.kind = "data"
  /\ got' = IF \E c \in backChannels[s] : c.id = m.id
            THEN [got EXCEPT ![m.id].up = Append(@, m.content)] ELSE got
  /\ UNCHANGED <<backChannels, alive, down, closes>>

HandleCloseUp(s, m) ==
  /\ m.kind = "close"
  /\ backChannels' = [backChannels EXCEPT ![s] = {c \in @ : c.id # m.id}]
  /\ UNCHANGED <<alive, down, got, closes>>

\* Defect: the pong is not noted.
IgnorePong(s) == alive
NotePong(s) == [alive EXCEPT ![s] = TRUE]

HandlePong(s, m) ==
  /\ m.kind = "pong"
  /\ alive' = NotePong(s)
  /\ UNCHANGED <<backChannels, down, got, closes>>

OnMessageUp(s) ==
  /\ up[s] # <<>>
  /\ LET m == Head(up[s]) IN
       /\ NextUp(s, m)
       /\ HandleOpen(s, m) \/ HandleDataUp(s, m) \/ HandleCloseUp(s, m) \/ HandlePong(s, m)

\* A service of the backend closes its channel, or sends.
BackServiceCloses(s, c) ==
  /\ socket[s] = "open" /\ closes < MaxCloses
  /\ closes' = closes + 1
  /\ backChannels' = [backChannels EXCEPT ![s] = @ \ {c}]
  /\ SendDown(s, <<Message("close", c.id)>>)
  /\ UNCHANGED <<browserVars, link, up, socket, alive, sent, got, newest>>

BackServiceSends(s, c) ==
  /\ socket[s] = "open" /\ c.id \in ChannelIds /\ sent[c.id].down < MaxData
  /\ sent' = [sent EXCEPT ![c.id].down = @ + 1]
  /\ SendDown(s, <<DataMessage(c.id, sent[c.id].down + 1)>>)
  /\ UNCHANGED <<browserVars, link, up, backend, closes, got, newest>>

\* Defect: channels outlive their socket.
KeepBackChannels(s) == backChannels
NoBackChannels(s) == [backChannels EXCEPT ![s] = {}]

\* The close event of a socket of the backend closes its channels.
BackSocketClose(s) ==
  /\ socket[s] = "terminated" \/ (socket[s] = "open" /\ ~Carries(s))
  /\ socket' = [socket EXCEPT ![s] = "closed"]
  /\ backChannels' = NoBackChannels(s)
  /\ UNCHANGED <<browserVars, network, alive, history>>

\* One socket's turn in the interval: no pong since the last turn, terminate;
\* else ping.  On a good link a pong takes less than the interval.
PingInFlight(s) ==
  \/ \E i \in DOMAIN down[s] : down[s][i].kind = "ping"
  \/ \E i \in DOMAIN up[s] : up[s][i].kind = "pong"

CutLink(s) ==
  /\ link' = [link EXCEPT ![s] = "broken"]
  /\ up' = [up EXCEPT ![s] = <<>>]
  /\ down' = [down EXCEPT ![s] = <<>>]

\* Defect: the flag is not reset before the ping.
KeepAlive(s) == alive
NotAlive(s) == [alive EXCEPT ![s] = FALSE]

CheckAlive(s) ==
  /\ Supervised /\ socket[s] = "open" /\ ~PingInFlight(s)
  /\ IF alive[s]
     THEN /\ alive' = NotAlive(s)
          /\ SendDown(s, <<Message("ping", 0)>>)
          /\ UNCHANGED <<socket, link, up>>
     ELSE /\ socket' = [socket EXCEPT ![s] = "terminated"]
          /\ CutLink(s)
          /\ UNCHANGED alive
  /\ UNCHANGED <<browserVars, backChannels, history>>

\* The link of a session breaks; what is under way is lost.  Either end may
\* notice much later than the other.
LinkBreaks(s) ==
  /\ link[s] = "up" /\ s < MaxSessions
  /\ CutLink(s)
  /\ UNCHANGED <<browserVars, backend, history>>

Next ==
  \/ \E p \in Paths : Listen(p)
  \/ Connect \/ SocketOpen \/ SocketClose \/ OnMessage
  \/ \E c \in channels : ServiceCloses(c) \/ ServiceSends(c)
  \/ \E s \in Sessions :
       \/ OnMessageUp(s) \/ BackSocketClose(s) \/ CheckAlive(s) \/ LinkBreaks(s)
       \/ \E c \in backChannels[s] : BackServiceCloses(s, c) \/ BackServiceSends(s, c)

Spec == Init /\ [][Next]_vars

\* The socket is reconnected for ever, a good link delivers, the browser some
\* day notices a broken one, the interval of the pings recurs, and a terminated
\* socket is closed.  That the backend notices a broken link by itself is not
\* assumed.
Fairness ==
  /\ WF_vars(Connect) /\ WF_vars(SocketOpen) /\ WF_vars(SocketClose) /\ WF_vars(OnMessage)
  /\ \A s \in Sessions :
       /\ WF_vars(OnMessageUp(s)) /\ WF_vars(CheckAlive(s))
       /\ WF_vars(socket[s] = "terminated" /\ BackSocketClose(s))

FairSpec == Spec /\ Fairness

-----------------------------------------------------------------------------
(* Properties.                                                             *)

Channel == [id : Nat, path : Paths, opened : BOOLEAN]
BackChannel == [id : Nat, path : Paths]
Messages ==
  [kind : {"open"}, id : Nat, path : Paths]
    \cup [kind : {"ready", "close", "ping", "pong"}, id : Nat]
    \cup [kind : {"data"}, id : Nat, content : Nat]

TypeOK ==
  /\ readyState \in {"closed", "connecting", "open"}
  /\ session \in 0 .. MaxSessions
  /\ listened \subseteq Paths /\ openListeners \subseteq listened
  /\ channelIdSeq \in Nat
  /\ channels \subseteq Channel
  /\ \A c \in channels : c.id < channelIdSeq
  /\ link \in [Sessions -> {"none", "up", "broken"}]
  /\ up \in [Sessions -> Seq(Messages)] /\ down \in [Sessions -> Seq(Messages)]
  /\ socket \in [Sessions -> {"none", "open", "terminated", "closed"}]
  /\ alive \in [Sessions -> BOOLEAN]
  /\ backChannels \in [Sessions -> SUBSET BackChannel]
  /\ closes \in Nat
  /\ sent \in [ChannelIds -> [up : Nat, down : Nat]]
  /\ got \in [ChannelIds -> [up : Seq(Nat), down : Seq(Nat)]]
  /\ newest \in [Paths -> Nat \cup {-1}]

\* Whatever closes the channels, in whatever order with the socket's events,
\* the code that listens on a reconnecting path is served by exactly one of a
\* waiting listener and a channel: never by none, never twice.
PathServedOnce ==
  \A p \in listened \cap Reconnecting :
    Cardinality({c \in channels : c.path = p}) + (IF p \in openListeners THEN 1 ELSE 0) = 1

\* The two ends of a channel agree on the service it is for, although closes and
\* reopens of several paths cross on the wire.
EndsAgree ==
  \A c \in channels : \A d \in backChannels[session] : c.id = d.id => c.path = d.path

\* What a handler receives on a channel is what was sent on that channel, from
\* the first on, in order and without a gap: nothing arrives before the handler
\* was attached, and nothing from a channel of an earlier session.
NoGap ==
  \A i \in ChannelIds :
    /\ \A n \in DOMAIN got[i].down : got[i].down[n] = n
    /\ \A n \in DOMAIN got[i].up : got[i].up[n] = n
    /\ Len(got[i].down) <= sent[i].down /\ Len(got[i].up) <= sent[i].up

\* A session whose link broke is closed, and its services with it, even if the
\* backend's end of the link never notices.
HalfOpenReaped ==
  \A s \in Sessions : socket[s] = "open" /\ link[s] = "broken" ~> backChannels[s] = {} /\ socket[s] = "closed"

\* Once the link stays good and the services stop closing, every listened
\* reconnecting path gets its channel, and keeps it: the supervision terminates no
\* socket whose link is good.
ServedForGood ==
  \A p \in Known \cap Reconnecting :
    p \in listened ~> [](\E c \in channels : c.path = p /\ c.opened)

\* A service of the backend does not outlive its channel in the browser.
NoOrphan ==
  \A s \in Sessions, i \in ChannelIds :
    (\E d \in backChannels[s] : d.id = i) /\ ~(\E c \in channels : c.id = i)
      ~> ~ \E d \in backChannels[s] : d.id = i

\* The provider supplies the handler of each path with channels as ChannelSupply
\* says: one after the other, none of them twice.
OpenedIds(p) == {c.id : c \in {d \in channels : d.path = p /\ d.opened}}
CurrentId(p) == IF OpenedIds(p) = {} THEN -1 ELSE CHOOSE i \in OpenedIds(p) : TRUE

Supply == INSTANCE ChannelSupply
  WITH Ids <- ChannelIds, current <- [p \in Paths |-> CurrentId(p)]
SuppliesChannels == Supply!Spec
=============================================================================
