-------------------------- MODULE WsChannelsProofs --------------------------
(***************************************************************************)
(* Proofs about WsChannels: its variables keep their types, each path that *)
(* reconnects is served exactly once, the two ends of a channel agree on   *)
(* the path it is for, the data of a channel arrive in order and without a *)
(* gap, and the handlers are supplied as ChannelSupply says.               *)
(***************************************************************************)
EXTENDS WsChannels, FiniteSetTheorems, TLAPS

\* An open message for the id i and the path p is on its way in session s.
OnWire(s, i, p) ==
  \E k \in DOMAIN up[s] : up[s][k].kind = "open" /\ up[s][k].id = i /\ up[s][k].path = p

\* Where the paths are: waiting while the socket is not open, each in a channel of
\* its own while it is.
Placed ==
  /\ readyState = "open" => openListeners = {}
  /\ readyState # "open" => channels = {}
  /\ readyState # "closed" => session \in Sessions
  /\ \A c \in channels : c.path \in listened
  /\ \A p \in listened \cap Reconnecting :
       IF readyState = "open"
       THEN \E c \in channels : \A d \in channels : d.path = p <=> d = c
       ELSE p \in openListeners

\* Every id on the wire or in a map of the backend was taken before, and stands for
\* the path of the channel that has it.
Taken ==
  \A s \in Sessions :
    /\ \A d \in backChannels[s] : d.id < channelIdSeq
    /\ \A i, p : OnWire(s, i, p) => i < channelIdSeq

Agree ==
  \A c \in channels :
    /\ \A d \in backChannels[session] : c.id = d.id => c.path = d.path
    /\ \A p : OnWire(session, c.id, p) => p = c.path

IInv == TypeOK /\ Placed /\ Taken /\ Agree

-----------------------------------------------------------------------------
(* Messages and new channels.                                              *)

LEMMA MessageTypes ==
  /\ \A i \in Nat, p \in Paths : OpenMessage(i, p) \in Messages
  /\ \A i \in Nat, k \in {"ready", "close", "ping", "pong"} : Message(k, i) \in Messages
  /\ \A i \in Nat, n \in Nat : DataMessage(i, n) \in Messages
BY DEF OpenMessage, Message, DataMessage, Messages

\* The channels opened in a step get the next ids, and an open message each.
LEMMA NewOnes ==
  ASSUME channelIdSeq \in Nat, NEW ps \in Seq(Paths)
  PROVE  /\ NewChannels(ps) \subseteq Channel
         /\ \A c \in NewChannels(ps) :
              \E i \in DOMAIN ps : c.id = NewId(i) /\ c.path = ps[i] /\ ~c.opened
         /\ OpenMessages(ps) \in Seq(Messages) /\ Len(OpenMessages(ps)) = Len(ps)
         /\ \A i \in DOMAIN ps : OpenMessages(ps)[i] = OpenMessage(NewId(i), ps[i])
         /\ \A i \in DOMAIN ps :
              /\ NewId(i) \in Nat /\ channelIdSeq <= NewId(i)
              /\ NewId(i) < channelIdSeq + Len(ps)
         /\ \A i, j \in DOMAIN ps : NewId(i) = NewId(j) => i = j
         /\ channelIdSeq + Len(ps) \in Nat
<1>1. \A i \in DOMAIN ps :
        /\ i \in 1 .. Len(ps) /\ ps[i] \in Paths
        /\ NewId(i) \in Nat /\ channelIdSeq <= NewId(i) /\ NewId(i) < channelIdSeq + Len(ps)
  BY DEF NewId
<1>2. \A i, j \in DOMAIN ps : NewId(i) = NewId(j) => i = j
  BY DEF NewId
<1>3. NewChannels(ps) \subseteq Channel
      /\ \A c \in NewChannels(ps) :
           \E i \in DOMAIN ps : c.id = NewId(i) /\ c.path = ps[i] /\ ~c.opened
  <2> DEFINE n(i) == [id |-> NewId(i), path |-> ps[i], opened |-> FALSE]
  <2>1. ASSUME NEW i \in DOMAIN ps
        PROVE  n(i) \in Channel /\ n(i).id = NewId(i) /\ n(i).path = ps[i] /\ ~n(i).opened
    <3>1. NewId(i) \in Nat /\ ps[i] \in Paths
      BY <1>1
    <3> QED BY <3>1 DEF Channel
  <2>2. NewChannels(ps) = {n(i) : i \in DOMAIN ps}
    BY DEF NewChannels
  <2> HIDE DEF n
  <2> QED BY <2>1, <2>2
<1>4. /\ OpenMessages(ps) \in Seq(Messages) /\ Len(OpenMessages(ps)) = Len(ps)
      /\ \A i \in DOMAIN ps : OpenMessages(ps)[i] = OpenMessage(NewId(i), ps[i])
  <2> DEFINE m(i) == OpenMessage(NewId(i), ps[i])
  <2>1. \A i \in 1 .. Len(ps) : m(i) \in Messages
    <3>1. \A i \in 1 .. Len(ps) : NewId(i) \in Nat /\ ps[i] \in Paths
      BY <1>1
    <3> QED BY <3>1, MessageTypes
  <2>2. OpenMessages(ps) = [i \in 1 .. Len(ps) |-> m(i)]
    BY DEF OpenMessages
  <2> HIDE DEF m
  <2>3. OpenMessages(ps) \in Seq(Messages) /\ Len(OpenMessages(ps)) = Len(ps)
        /\ \A i \in DOMAIN ps : OpenMessages(ps)[i] = m(i)
    BY <2>1, <2>2
  <2> QED BY <2>3 DEF m
<1> QED BY <1>1, <1>2, <1>3, <1>4

LEMMA PathSeq ==
  ASSUME NEW p \in Paths
  PROVE  <<p>> \in Seq(Paths) /\ Len(<<p>>) = 1 /\ DOMAIN <<p>> = {1} /\ <<p>>[1] = p
OBVIOUS

\* A channel opened alone.
LEMMA NewOne ==
  ASSUME channelIdSeq \in Nat, NEW p \in Paths
  PROVE  NewChannels(<<p>>) = {[id |-> channelIdSeq, path |-> p, opened |-> FALSE]}
BY PathSeq DEF NewChannels, NewId

\* What SendUp leaves on the wire.
LEMMA SentUp ==
  ASSUME TypeOK, NEW ms \in Seq(Messages), SendUp(ms), readyState = "open" => session \in Sessions
  PROVE  /\ up' \in [Sessions -> Seq(Messages)]
         /\ \A s \in Sessions : \A i, p :
              OnWire(s, i, p)' =>
                \/ OnWire(s, i, p)
                \/ \E k \in DOMAIN ms : ms[k].kind = "open" /\ ms[k].id = i /\ ms[k].path = p
<1>0. up \in [Sessions -> Seq(Messages)]
  BY DEF TypeOK
<1>1. CASE up' = up
  BY <1>0, <1>1 DEF OnWire
<1>2. CASE up' = [up EXCEPT ![session] = @ \o ms] /\ session \in Sessions
  <2>1. up[session] \o ms \in Seq(Messages) /\ up[session] \in Seq(Messages)
    BY <1>0, <1>2
  <2>2. up' \in [Sessions -> Seq(Messages)]
    BY <1>0, <1>2, <2>1
  <2>3. \A k \in DOMAIN (up[session] \o ms) :
          \/ k \in DOMAIN up[session] /\ (up[session] \o ms)[k] = up[session][k]
          \/ \E j \in DOMAIN ms : (up[session] \o ms)[k] = ms[j]
    <3> SUFFICES ASSUME NEW k \in DOMAIN (up[session] \o ms), k \notin DOMAIN up[session]
                 PROVE  \E j \in DOMAIN ms : (up[session] \o ms)[k] = ms[j]
      BY <2>1
    <3>1. k - Len(up[session]) \in DOMAIN ms /\ (up[session] \o ms)[k] = ms[k - Len(up[session])]
      BY <2>1
    <3> QED BY <3>1
  <2>4. \A s \in Sessions : up'[s] = IF s = session THEN up[session] \o ms ELSE up[s]
    BY <1>0, <1>2
  <2> DEFINE q == up[session] \o ms
  <2>5. ASSUME NEW s \in Sessions, NEW i, NEW p, OnWire(s, i, p)'
        PROVE  \/ OnWire(s, i, p)
               \/ \E k \in DOMAIN ms : ms[k].kind = "open" /\ ms[k].id = i /\ ms[k].path = p
    <3>1. CASE s # session
      BY <2>4, <2>5, <3>1 DEF OnWire
    <3>2. CASE s = session
      <4>1. PICK k \in DOMAIN q : q[k].kind = "open" /\ q[k].id = i /\ q[k].path = p
        BY <2>4, <2>5, <3>2 DEF OnWire
      <4> QED BY <2>3, <3>2, <4>1 DEF OnWire
    <3> QED BY <3>1, <3>2
  <2> QED BY <2>2, <2>5
<1> QED BY <1>1, <1>2 DEF SendUp

\* Taking the first message off, or losing them all, puts none on the wire.
LEMMA TakenOff ==
  ASSUME TypeOK, NEW s \in Sessions, up[s] # <<>>, up' = [up EXCEPT ![s] = Tail(@)]
  PROVE  /\ up' \in [Sessions -> Seq(Messages)]
         /\ Head(up[s]) \in Messages
         /\ \A t \in Sessions : \A i, p : OnWire(t, i, p)' => OnWire(t, i, p)
         /\ Head(up[s]).kind = "open" => OnWire(s, Head(up[s]).id, Head(up[s]).path)
<1>1. up \in [Sessions -> Seq(Messages)] /\ up[s] \in Seq(Messages)
  BY DEF TypeOK
<1>2. Tail(up[s]) \in Seq(Messages) /\ Head(up[s]) \in Messages
      /\ 1 \in DOMAIN up[s] /\ Head(up[s]) = up[s][1]
  BY <1>1
<1>3. \A k \in DOMAIN Tail(up[s]) : k + 1 \in DOMAIN up[s] /\ Tail(up[s])[k] = up[s][k + 1]
  BY <1>1
<1>4. \A t \in Sessions : up'[t] = IF t = s THEN Tail(up[s]) ELSE up[t]
  BY <1>1
<1>5. up' \in [Sessions -> Seq(Messages)]
  BY <1>1, <1>2
<1> QED BY <1>2, <1>3, <1>4, <1>5 DEF OnWire

LEMMA SentDown ==
  ASSUME TypeOK, NEW s \in Sessions, NEW ms \in Seq(Messages), SendDown(s, ms)
  PROVE  down' \in [Sessions -> Seq(Messages)]
<1>1. down \in [Sessions -> Seq(Messages)] /\ down[s] \o ms \in Seq(Messages)
  BY DEF TypeOK
<1>2. CASE down' = [down EXCEPT ![s] = @ \o ms]
  BY <1>1, <1>2
<1> QED BY <1>1, <1>2 DEF SendDown

LEMMA CutLinkTypes ==
  ASSUME TypeOK, NEW s \in Sessions, CutLink(s)
  PROVE  /\ link' \in [Sessions -> {"none", "up", "broken"}]
         /\ up' \in [Sessions -> Seq(Messages)] /\ down' \in [Sessions -> Seq(Messages)]
         /\ \A t \in Sessions : \A i, p : OnWire(t, i, p)' => OnWire(t, i, p)
<1>1. up \in [Sessions -> Seq(Messages)] /\ down \in [Sessions -> Seq(Messages)]
      /\ link \in [Sessions -> {"none", "up", "broken"}]
  BY DEF TypeOK
<1>2. \A t \in Sessions : up'[t] = IF t = s THEN <<>> ELSE up[t]
  BY <1>1 DEF CutLink
<1> QED BY <1>1, <1>2 DEF CutLink, OnWire

-----------------------------------------------------------------------------
(* Names: what a step may do to ids and paths.                             *)

\* The channels of a step are old ones or the new ones for ps, what is on the wire
\* was there or opens one of these, and the backend takes up what was on the wire.
LEMMA NamesStep ==
  ASSUME IInv, NEW ps \in Seq(Paths), session' = session,
         channelIdSeq' = channelIdSeq + Len(ps),
         channels' # {} => session \in Sessions,
         \A c \in channels' :
           \/ \E b \in channels : b.id = c.id /\ b.path = c.path
           \/ \E i \in DOMAIN ps : c.id = NewId(i) /\ c.path = ps[i],
         \A s \in Sessions : \A n, p :
           OnWire(s, n, p)' =>
             OnWire(s, n, p) \/ \E i \in DOMAIN ps : n = NewId(i) /\ p = ps[i],
         \A s \in Sessions : \A d \in backChannels'[s] :
           d \in backChannels[s] \/ OnWire(s, d.id, d.path)
  PROVE  Taken' /\ Agree'
<1>0. /\ channelIdSeq \in Nat /\ Len(ps) \in Nat
      /\ \A b \in channels : b.id \in Nat /\ b.id < channelIdSeq
      /\ \A s \in Sessions : \A d \in backChannels[s] : d.id \in Nat
  BY DEF IInv, TypeOK, Channel, BackChannel
<1>1. \A i \in DOMAIN ps :
        NewId(i) \in Nat /\ channelIdSeq <= NewId(i) /\ NewId(i) < channelIdSeq + Len(ps)
  BY <1>0, NewOnes
<1>2. \A i, j \in DOMAIN ps : NewId(i) = NewId(j) => i = j
  BY <1>0, NewOnes
<1>3. \A s \in Sessions : \A n, p : OnWire(s, n, p) => n \in Nat /\ n < channelIdSeq
  <2> SUFFICES ASSUME NEW s \in Sessions, NEW n, NEW p, OnWire(s, n, p)
               PROVE  n \in Nat /\ n < channelIdSeq
    OBVIOUS
  <2>1. PICK k \in DOMAIN up[s] : up[s][k].id = n
    BY DEF OnWire
  <2>2. up[s][k] \in Messages
    BY DEF IInv, TypeOK
  <2> QED BY <2>1, <2>2 DEF Messages, IInv, Taken
<1>4. Taken'
  <2> SUFFICES ASSUME NEW s \in Sessions
               PROVE  /\ \A d \in backChannels'[s] : d.id < channelIdSeq'
                      /\ \A n, p : OnWire(s, n, p)' => n < channelIdSeq'
    BY DEF Taken
  <2>1. \A d \in backChannels'[s] : d.id < channelIdSeq'
    BY <1>0, <1>3 DEF IInv, Taken
  <2>2. \A n, p : OnWire(s, n, p)' => n < channelIdSeq'
    BY <1>0, <1>1, <1>3
  <2> QED BY <2>1, <2>2
<1>5. Agree'
  <2> SUFFICES ASSUME NEW c \in channels'
               PROVE  /\ \A d \in backChannels'[session] : c.id = d.id => c.path = d.path
                      /\ \A p : OnWire(session, c.id, p)' => p = c.path
    BY DEF Agree
  <2>1. session \in Sessions
    OBVIOUS
  <2>2. CASE \E b \in channels : b.id = c.id /\ b.path = c.path
    <3>1. PICK b \in channels : b.id = c.id /\ b.path = c.path
      BY <2>2
    <3>2. c.id \in Nat /\ c.id < channelIdSeq /\ \A p : OnWire(session, c.id, p) => p = c.path
      BY <1>0, <3>1 DEF IInv, Agree
    <3>3. \A p : OnWire(session, c.id, p)' => p = c.path
      BY <1>0, <1>1, <2>1, <3>2
    <3>4. \A d \in backChannels[session] : c.id = d.id => c.path = d.path
      BY <3>1 DEF IInv, Agree
    <3> QED BY <2>1, <3>2, <3>3, <3>4
  <2>3. CASE \E i \in DOMAIN ps : c.id = NewId(i) /\ c.path = ps[i]
    <3>1. PICK i \in DOMAIN ps : c.id = NewId(i) /\ c.path = ps[i]
      BY <2>3
    <3>2. c.id \in Nat /\ channelIdSeq <= c.id
      BY <1>1, <3>1
    <3>3. \A p : ~OnWire(session, c.id, p)
      BY <1>0, <1>3, <2>1, <3>2
    <3>4. \A d \in backChannels[session] : c.id # d.id
      BY <1>0, <2>1, <3>2 DEF IInv, Taken
    <3>5. \A p : OnWire(session, c.id, p)' => p = c.path
      BY <1>2, <2>1, <3>1, <3>3
    <3> QED BY <2>1, <3>3, <3>4, <3>5
  <2> QED BY <2>2, <2>3
<1> QED BY <1>4, <1>5

\* A step that opens no channel.
LEMMA KeptStep ==
  ASSUME IInv, UNCHANGED <<session, channelIdSeq>>,
         \A c \in channels' : \E b \in channels : b.id = c.id /\ b.path = c.path,
         \A s \in Sessions : \A n, p : OnWire(s, n, p)' => OnWire(s, n, p),
         \A s \in Sessions : \A d \in backChannels'[s] :
           d \in backChannels[s] \/ OnWire(s, d.id, d.path)
  PROVE  Taken' /\ Agree'
<1> DEFINE ps == <<>>
<1>1. ps \in Seq(Paths) /\ Len(ps) = 0 /\ DOMAIN ps = {}
  OBVIOUS
<1>2. channelIdSeq' = channelIdSeq + Len(ps)
  BY <1>1 DEF IInv, TypeOK
<1>3. channels' # {} => session \in Sessions
  BY DEF IInv, Placed
<1> HIDE DEF ps
<1> QED BY <1>1, <1>2, <1>3, NamesStep

\* A step that leaves the browser's channels alone.
LEMMA QuietStep ==
  ASSUME IInv, TypeOK',
         UNCHANGED <<readyState, session, listened, openListeners, channelIdSeq, channels>>,
         \A s \in Sessions : \A n, p : OnWire(s, n, p)' => OnWire(s, n, p),
         \A s \in Sessions : \A d \in backChannels'[s] :
           d \in backChannels[s] \/ OnWire(s, d.id, d.path)
  PROVE  IInv'
<1>1. Placed'
  BY DEF IInv, Placed
<1>2. Taken' /\ Agree'
  BY KeptStep
<1> QED BY <1>1, <1>2 DEF IInv

-----------------------------------------------------------------------------
(* The browser's steps.                                                    *)

\* A channel is closed, and one for its path is opened if it reconnects: the
\* paths stay where they are, and no id gets a second path.
LEMMA CloseStep ==
  ASSUME IInv, NEW c \in channels, NEW closedHere, CloseAndReopen(c, closedHere),
         UNCHANGED <<readyState, session, listened, openListeners, backChannels>>
  PROVE  /\ up' \in [Sessions -> Seq(Messages)]
         /\ channels' \subseteq Channel /\ channelIdSeq' \in Nat
         /\ \A d \in channels' : d.id < channelIdSeq'
         /\ Placed' /\ Taken' /\ Agree'
<1> DEFINE again == IF c.path \in PathsToReopen({c}) THEN <<c.path>> ELSE <<>>
           close == IF c.opened THEN <<Message("close", c.id)>> ELSE <<>>
           ms == IF closedHere THEN close \o OpenMessages(again) ELSE OpenMessages(again) \o close
           new == [id |-> channelIdSeq, path |-> c.path, opened |-> FALSE]
<1>1. /\ c.path \in Paths /\ c.id \in Nat /\ channelIdSeq \in Nat /\ channels \subseteq Channel
      /\ readyState = "open" /\ session \in Sessions /\ openListeners = {}
      /\ c.path \in listened /\ TypeOK /\ \A d \in channels : d.id \in Nat /\ d.id < channelIdSeq
  BY DEF IInv, TypeOK, Placed, Channel
<1>2. again \in Seq(Paths) /\ again = IF c.path \in Reconnecting THEN <<c.path>> ELSE <<>>
  BY <1>1, PathSeq DEF PathsToReopen
<1>3. /\ channels' = (channels \ {c}) \cup NewChannels(again)
      /\ channelIdSeq' = channelIdSeq + Len(again)
      /\ SendUp(ms)
  BY DEF CloseAndReopen, Remaining
<1>4. NewChannels(again) = IF c.path \in Reconnecting THEN {new} ELSE {}
  <2>1. CASE c.path \in Reconnecting
    BY <1>1, <1>2, <2>1, NewOne
  <2>2. CASE c.path \notin Reconnecting
    BY <1>2, <2>2 DEF NewChannels
  <2> QED BY <2>1, <2>2
<1>5. /\ NewChannels(again) \subseteq Channel /\ channelIdSeq + Len(again) \in Nat
      /\ Len(again) \in Nat
      /\ OpenMessages(again) \in Seq(Messages)
      /\ \A d \in NewChannels(again) : \E i \in DOMAIN again : d.id = NewId(i) /\ d.path = again[i]
      /\ \A i \in DOMAIN again : NewId(i) \in Nat /\ NewId(i) < channelIdSeq + Len(again)
  BY <1>1, <1>2, NewOnes
<1>6. close \in Seq(Messages) /\ ms \in Seq(Messages)
  <2>1. Message("close", c.id) \in Messages
    BY <1>1, MessageTypes
  <2>2. close \in Seq(Messages)
    BY <2>1
  <2> HIDE DEF close, again
  <2> QED BY <1>5, <2>2
<1>7. \A k \in DOMAIN ms : ms[k].kind = "open" =>
        \E i \in DOMAIN again : ms[k].id = NewId(i) /\ ms[k].path = again[i]
  <2>1. \A k \in DOMAIN close : close[k].kind # "open"
    BY DEF Message
  <2>2. \A k \in DOMAIN OpenMessages(again) :
          /\ k \in DOMAIN again
          /\ OpenMessages(again)[k].id = NewId(k) /\ OpenMessages(again)[k].path = again[k]
    BY <1>1, <1>2, NewOnes DEF OpenMessage, OpenMessages
  <2>3. \A k \in DOMAIN ms :
          \/ \E j \in DOMAIN close : ms[k] = close[j]
          \/ \E j \in DOMAIN OpenMessages(again) : ms[k] = OpenMessages(again)[j]
    <3> HIDE DEF close, again
    <3>1. ASSUME NEW s \in Seq(Messages), NEW t \in Seq(Messages), NEW k \in DOMAIN (s \o t)
          PROVE  (\E j \in DOMAIN s : (s \o t)[k] = s[j]) \/ (\E j \in DOMAIN t : (s \o t)[k] = t[j])
      <4>1. CASE k \in DOMAIN s
        BY <4>1
      <4>2. CASE k \notin DOMAIN s
        <5>1. k - Len(s) \in DOMAIN t /\ (s \o t)[k] = t[k - Len(s)]
          BY <4>2
        <5> QED BY <5>1
      <4> QED BY <4>1, <4>2
    <3> QED BY <1>5, <1>6, <3>1
  <2> HIDE DEF ms, close, again
  <2> QED BY <2>1, <2>2, <2>3
<1>8. /\ up' \in [Sessions -> Seq(Messages)]
      /\ \A s \in Sessions : \A n, p : OnWire(s, n, p)' =>
           OnWire(s, n, p) \/ \E i \in DOMAIN again : n = NewId(i) /\ p = again[i]
  <2> HIDE DEF ms, close, again
  <2>1. /\ up' \in [Sessions -> Seq(Messages)]
        /\ \A s \in Sessions : \A n, p : OnWire(s, n, p)' =>
             \/ OnWire(s, n, p)
             \/ \E k \in DOMAIN ms : ms[k].kind = "open" /\ ms[k].id = n /\ ms[k].path = p
    BY <1>1, <1>3, <1>6, SentUp
  <2> QED BY <1>7, <2>1
<1>9. /\ channels' \subseteq Channel /\ channelIdSeq' \in Nat
      /\ \A d \in channels' : d.id < channelIdSeq'
  <2> HIDE DEF ms, close, again
  <2> QED BY <1>1, <1>3, <1>5
<1>10. Taken' /\ Agree'
  <2> HIDE DEF ms, close, again
  <2> QED BY <1>1, <1>2, <1>3, <1>5, <1>8, NamesStep
<1>11. Placed'
  <2> HIDE DEF ms, close, again
  <2>0. channels' = (channels \ {c}) \cup (IF c.path \in Reconnecting THEN {new} ELSE {})
    BY <1>3, <1>4
  <2>1. new.path = c.path /\ new \notin channels
    BY <1>1
  <2>2. ASSUME NEW p \in listened \cap Reconnecting
        PROVE  \E e \in channels' : \A d \in channels' : d.path = p <=> d = e
    <3>1. PICK e \in channels : \A d \in channels : d.path = p <=> d = e
      BY <1>1, <2>2 DEF IInv, Placed
    <3> HIDE DEF new
    <3>2. CASE c.path = p
      BY <2>0, <2>1, <2>2, <3>1, <3>2
    <3>3. CASE c.path # p
      BY <2>0, <2>1, <3>1, <3>3
    <3> QED BY <3>2, <3>3
  <2>3. \A d \in channels' : d.path \in listened
    BY <1>1, <2>0, <2>1 DEF IInv, Placed
  <2> QED BY <1>1, <2>2, <2>3 DEF Placed
<1> QED BY <1>8, <1>9, <1>10, <1>11

\* Each path of a list with no repetitions gets one channel, when there was none.
LEMMA OpenStep ==
  ASSUME IInv, channels = {}, session \in Sessions, NEW ps \in Seq(Paths),
         UNCHANGED <<session, listened, backChannels>>,
         readyState' = "open", openListeners' = {},
         channels' = NewChannels(ps), channelIdSeq' = channelIdSeq + Len(ps),
         up' = [up EXCEPT ![session] = @ \o OpenMessages(ps)],
         \A i \in DOMAIN ps : ps[i] \in listened,
         \A p \in listened \cap Reconnecting :
           \E i \in DOMAIN ps : \A j \in DOMAIN ps : ps[j] = p <=> j = i
  PROVE  /\ up' \in [Sessions -> Seq(Messages)]
         /\ channels' \subseteq Channel /\ channelIdSeq' \in Nat
         /\ \A d \in channels' : d.id < channelIdSeq'
         /\ Placed' /\ Taken' /\ Agree'
<1>1. channelIdSeq \in Nat /\ TypeOK
  BY DEF IInv, TypeOK
<1>2. /\ NewChannels(ps) \subseteq Channel /\ channelIdSeq + Len(ps) \in Nat
      /\ OpenMessages(ps) \in Seq(Messages) /\ Len(OpenMessages(ps)) = Len(ps)
      /\ \A c \in NewChannels(ps) : \E i \in DOMAIN ps : c.id = NewId(i) /\ c.path = ps[i]
      /\ \A i \in DOMAIN ps : OpenMessages(ps)[i] = OpenMessage(NewId(i), ps[i])
      /\ \A i \in DOMAIN ps : NewId(i) < channelIdSeq + Len(ps)
      /\ DOMAIN OpenMessages(ps) = DOMAIN ps
  BY <1>1, NewOnes
<1>3. /\ up' \in [Sessions -> Seq(Messages)]
      /\ \A s \in Sessions : \A n, p : OnWire(s, n, p)' =>
           OnWire(s, n, p) \/ \E i \in DOMAIN ps : n = NewId(i) /\ p = ps[i]
  <2> DEFINE us == up[session]
             ms == OpenMessages(ps)
  <2>1. us \in Seq(Messages) /\ ms \in Seq(Messages) /\ up \in [Sessions -> Seq(Messages)]
    BY <1>1, <1>2 DEF TypeOK
  <2>2. us \o ms \in Seq(Messages)
    BY <2>1
  <2>3. \A s \in Sessions : up'[s] = IF s = session THEN us \o ms ELSE up[s]
    BY <2>1
  <2>4. \A k \in DOMAIN (us \o ms) :
          \/ k \in DOMAIN us /\ (us \o ms)[k] = us[k]
          \/ k - Len(us) \in DOMAIN ms /\ (us \o ms)[k] = ms[k - Len(us)]
    BY <2>1
  <2>5. \A j \in DOMAIN ms : j \in DOMAIN ps /\ ms[j].id = NewId(j) /\ ms[j].path = ps[j]
    BY <1>2 DEF OpenMessage
  <2>6. up' \in [Sessions -> Seq(Messages)]
    BY <2>1, <2>2
  <2>7. ASSUME NEW s \in Sessions, NEW n, NEW p, OnWire(s, n, p)'
        PROVE  OnWire(s, n, p) \/ \E i \in DOMAIN ps : n = NewId(i) /\ p = ps[i]
    <3>1. CASE s # session
      BY <2>3, <2>7, <3>1 DEF OnWire
    <3>2. CASE s = session
      <4> HIDE DEF ms
      <4>1. PICK k \in DOMAIN (us \o ms) :
              (us \o ms)[k].kind = "open" /\ (us \o ms)[k].id = n /\ (us \o ms)[k].path = p
        BY <2>3, <2>7, <3>2 DEF OnWire
      <4>2. CASE k \in DOMAIN us /\ (us \o ms)[k] = us[k]
        BY <3>2, <4>1, <4>2 DEF OnWire
      <4>3. CASE k - Len(us) \in DOMAIN ms /\ (us \o ms)[k] = ms[k - Len(us)]
        BY <2>5, <4>1, <4>3
      <4> QED BY <2>4, <4>2, <4>3
    <3> QED BY <3>1, <3>2
  <2> QED BY <2>6, <2>7
<1>4. /\ channels' \subseteq Channel /\ channelIdSeq' \in Nat
      /\ \A d \in channels' : d.id < channelIdSeq'
  BY <1>2
<1>5. Taken' /\ Agree'
  BY <1>2, <1>3, NamesStep
<1>6. Placed'
  <2>1. ASSUME NEW p \in listened \cap Reconnecting
        PROVE  \E c \in channels' : \A d \in channels' : d.path = p <=> d = c
    <3>1. PICK i \in DOMAIN ps : \A j \in DOMAIN ps : ps[j] = p <=> j = i
      BY <2>1
    <3> DEFINE n(j) == [id |-> NewId(j), path |-> ps[j], opened |-> FALSE]
    <3>2. channels' = {n(j) : j \in DOMAIN ps}
      BY DEF NewChannels
    <3>3. \A j \in DOMAIN ps : n(j).path = ps[j]
      OBVIOUS
    <3> HIDE DEF n
    <3>4. n(i) \in channels'
      BY <3>1, <3>2
    <3>5. \A d \in channels' : d.path = p <=> d = n(i)
      BY <3>1, <3>2, <3>3
    <3> QED BY <3>4, <3>5
  <2>2. \A c \in channels' : c.path \in listened
    BY <1>2
  <2> QED BY <2>1, <2>2 DEF Placed
<1> QED BY <1>3, <1>4, <1>5, <1>6

LEMMA ListenStep ==
  ASSUME IInv, NEW p \in Paths, Listen(p)
  PROVE  IInv'
<1>0. /\ TypeOK /\ p \notin listened /\ listened' = listened \cup {p}
      /\ UNCHANGED <<readyState, session, link, down, backend, history>>
      /\ channels \subseteq Channel /\ channelIdSeq \in Nat
      /\ \A c \in channels : c.path # p /\ c.id < channelIdSeq /\ c.id \in Nat
  BY DEF IInv, TypeOK, Placed, Listen, Channel
<1>1. CASE readyState = "open"
  <2> DEFINE new == [id |-> channelIdSeq, path |-> p, opened |-> FALSE]
             ps == <<p>>
  <2>0. channels' = channels \cup {new} /\ channelIdSeq' = channelIdSeq + Len(ps)
        /\ SendUp(OpenMessages(ps)) /\ UNCHANGED openListeners /\ session \in Sessions
    BY <1>0, <1>1, NewOne DEF Listen, IInv, Placed
  <2>1. /\ ps \in Seq(Paths) /\ Len(ps) = 1 /\ DOMAIN ps = {1} /\ ps[1] = p
        /\ NewId(1) = channelIdSeq
    BY <1>0 DEF NewId
  <2>2. /\ OpenMessages(ps) \in Seq(Messages)
        /\ \A k \in DOMAIN OpenMessages(ps) :
             k = 1 /\ OpenMessages(ps)[k].id = NewId(1) /\ OpenMessages(ps)[k].path = p
    <3>1. /\ OpenMessages(ps) \in Seq(Messages) /\ Len(OpenMessages(ps)) = 1
          /\ OpenMessages(ps)[1] = OpenMessage(NewId(1), p)
      BY <1>0, <2>1, NewOnes
    <3> QED BY <3>1 DEF OpenMessage
  <2> HIDE DEF ps
  <2>3. /\ up' \in [Sessions -> Seq(Messages)]
        /\ \A s \in Sessions : \A n, q : OnWire(s, n, q)' =>
             OnWire(s, n, q) \/ \E i \in DOMAIN ps : n = NewId(i) /\ q = ps[i]
    <3>1. /\ up' \in [Sessions -> Seq(Messages)]
          /\ \A s \in Sessions : \A n, q : OnWire(s, n, q)' =>
               \/ OnWire(s, n, q)
               \/ \E k \in DOMAIN OpenMessages(ps) :
                    OpenMessages(ps)[k].id = n /\ OpenMessages(ps)[k].path = q
      BY <1>0, <2>0, <2>2, SentUp
    <3> QED BY <2>1, <2>2, <3>1
  <2>4. new.path = p /\ new.id = channelIdSeq /\ new \in Channel /\ new \notin channels
    BY <1>0 DEF Channel
  <2> HIDE DEF new
  <2>5. TypeOK'
    <3>1. channels' \subseteq Channel /\ channelIdSeq' \in Nat /\ \A c \in channels' : c.id < channelIdSeq'
      BY <1>0, <2>0, <2>1, <2>4
    <3> QED BY <1>0, <2>0, <2>3, <3>1 DEF TypeOK, backend, history
  <2>6. Taken' /\ Agree'
    <3>1. \A c \in channels' :
            \/ \E b \in channels : b.id = c.id /\ b.path = c.path
            \/ \E i \in DOMAIN ps : c.id = NewId(i) /\ c.path = ps[i]
      BY <2>0, <2>1, <2>4
    <3>2. backChannels' = backChannels /\ session' = session
      BY <1>0 DEF backend
    <3> QED BY <2>0, <2>1, <2>3, <3>1, <3>2, NamesStep
  <2>7. Placed'
    <3>1. \A c \in channels' : c.path \in listened'
      BY <1>0, <2>0, <2>4 DEF IInv, Placed
    <3>2. ASSUME NEW q \in listened' \cap Reconnecting
          PROVE  \E c \in channels' : \A d \in channels' : d.path = q <=> d = c
      <4>1. CASE q = p
        BY <1>0, <2>0, <2>4, <4>1
      <4>2. CASE q # p
        <5>1. PICK e \in channels : \A d \in channels : d.path = q <=> d = e
          BY <1>0, <1>1, <3>2, <4>2 DEF IInv, Placed
        <5> QED BY <2>0, <2>4, <4>2, <5>1
      <4> QED BY <4>1, <4>2
    <3> QED BY <1>0, <1>1, <2>0, <3>1, <3>2 DEF IInv, Placed
  <2> QED BY <2>5, <2>6, <2>7 DEF IInv
<1>2. CASE readyState # "open"
  <2>1. openListeners' = openListeners \cup {p} /\ UNCHANGED <<channels, channelIdSeq, up>>
    BY <1>2 DEF Listen
  <2>2. TypeOK'
    BY <1>0, <2>1 DEF TypeOK, backend, history
  <2>3. Placed'
    BY <1>0, <1>2, <2>1 DEF IInv, Placed
  <2>4. Taken' /\ Agree'
    BY <1>0, <2>1 DEF IInv, Taken, Agree, OnWire, backend
  <2> QED BY <2>2, <2>3, <2>4 DEF IInv
<1> QED BY <1>1, <1>2

\* The listeners take their turns in some order, each once.
LEMMA OrdersListed ==
  ASSUME openListeners \subseteq listened, listened \subseteq Paths, NEW ps \in Orders(openListeners)
  PROVE  /\ ps \in Seq(Paths) /\ \A i \in DOMAIN ps : ps[i] \in openListeners
         /\ Len(ps) = Cardinality(openListeners)
         /\ \A x \in openListeners : \E i \in DOMAIN ps : \A j \in DOMAIN ps : ps[j] = x <=> j = i
<1>1. Cardinality(openListeners) \in Nat
  <2>1. IsFiniteSet(openListeners)
    BY FS_Subset, WsAssumption
  <2> QED BY <2>1, FS_CardinalityType
<1>2. ps \in [1 .. Cardinality(openListeners) -> openListeners]
  BY DEF Orders
<1>3. ps \in Seq(openListeners) /\ Len(ps) = Cardinality(openListeners)
  BY <1>1, <1>2
<1> QED BY <1>2, <1>3 DEF Orders

LEMMA SocketSteps ==
  ASSUME IInv, Connect \/ SocketOpen \/ SocketClose
  PROVE  IInv'
<1>0. TypeOK
  BY DEF IInv
<1>1. ASSUME Connect PROVE IInv'
  <2>1. /\ session + 1 \in Sessions /\ session' = session + 1 /\ readyState' = "connecting"
        /\ readyState = "closed" /\ channels = {}
        /\ UNCHANGED <<listened, openListeners, channelIdSeq, channels, up, down, history>>
        /\ backChannels' = [backChannels EXCEPT ![session + 1] = {}]
    BY <1>1 DEF Connect, IInv, Placed
  <2>2. TypeOK'
    BY <1>0, <1>1, <2>1 DEF TypeOK, Connect, history, Sessions
  <2>3. Placed' /\ Agree'
    BY <2>1 DEF IInv, Placed, Agree
  <2>4. Taken'
    <3>1. \A s \in Sessions : backChannels'[s] \subseteq backChannels[s]
      BY <1>0, <2>1 DEF TypeOK
    <3> QED BY <2>1, <3>1 DEF IInv, Taken, OnWire
  <2> QED BY <2>2, <2>3, <2>4 DEF IInv
<1>2. ASSUME SocketOpen PROVE IInv'
  <2>1. PICK ps \in Orders(openListeners) :
          /\ channels' = channels \cup NewChannels(ps)
          /\ channelIdSeq' = channelIdSeq + Len(ps)
          /\ up' = [up EXCEPT ![session] = @ \o OpenMessages(ps)]
    BY <1>2 DEF SocketOpen
  <2>2. /\ readyState = "connecting" /\ channels = {} /\ session \in Sessions
        /\ readyState' = "open" /\ openListeners' = {}
        /\ UNCHANGED <<session, listened, link, down, backend, history>>
        /\ openListeners \subseteq listened /\ listened \subseteq Paths
        /\ \A p \in listened \cap Reconnecting : p \in openListeners
    BY <1>2 DEF SocketOpen, IInv, Placed, TypeOK
  <2>4. /\ ps \in Seq(Paths) /\ \A i \in DOMAIN ps : ps[i] \in openListeners
        /\ \A x \in openListeners : \E i \in DOMAIN ps : \A j \in DOMAIN ps : ps[j] = x <=> j = i
    BY <2>2, OrdersListed
  <2>5. /\ channels' = NewChannels(ps) /\ backChannels' = backChannels
        /\ \A i \in DOMAIN ps : ps[i] \in listened
        /\ \A p \in listened \cap Reconnecting :
             \E i \in DOMAIN ps : \A j \in DOMAIN ps : ps[j] = p <=> j = i
    BY <2>1, <2>2, <2>4 DEF backend
  <2>6. /\ up' \in [Sessions -> Seq(Messages)]
        /\ channels' \subseteq Channel /\ channelIdSeq' \in Nat
        /\ \A d \in channels' : d.id < channelIdSeq'
        /\ Placed' /\ Taken' /\ Agree'
    BY <2>1, <2>2, <2>4, <2>5, OpenStep
  <2>7. TypeOK'
    BY <1>0, <2>2, <2>6 DEF TypeOK, backend, history
  <2> QED BY <2>6, <2>7 DEF IInv
<1>3. ASSUME SocketClose PROVE IInv'
  <2>1. /\ readyState' = "closed" /\ channels' = {}
        /\ openListeners' = openListeners \cup ({c.path : c \in channels} \cap Reconnecting)
        /\ UNCHANGED <<session, listened, channelIdSeq, network, backend, history>>
    BY <1>3 DEF SocketClose, Remaining, PathsToReopen
  <2>2. TypeOK'
    BY <1>0, <2>1 DEF TypeOK, IInv, Placed, network, backend, history
  <2>3. \A p \in listened \cap Reconnecting : p \in openListeners'
    BY <2>1 DEF IInv, Placed
  <2>4. Placed' /\ Agree'
    BY <2>1, <2>3 DEF IInv, Placed, Agree
  <2>5. Taken'
    BY <2>1 DEF IInv, Taken, OnWire, network, backend
  <2> QED BY <2>2, <2>4, <2>5 DEF IInv
<1> QED BY <1>1, <1>2, <1>3

\* The history of data keeps its type.
LEMMA DataTypes ==
  ASSUME TypeOK, NEW i, NEW n \in Nat
  PROVE  /\ [sent EXCEPT ![i].up = @ + 1] \in [ChannelIds -> [up : Nat, down : Nat]]
         /\ [sent EXCEPT ![i].down = @ + 1] \in [ChannelIds -> [up : Nat, down : Nat]]
         /\ [got EXCEPT ![i].up = Append(@, n)] \in [ChannelIds -> [up : Seq(Nat), down : Seq(Nat)]]
         /\ [got EXCEPT ![i].down = Append(@, n)] \in [ChannelIds -> [up : Seq(Nat), down : Seq(Nat)]]
<1>1. /\ sent \in [ChannelIds -> [up : Nat, down : Nat]]
      /\ got \in [ChannelIds -> [up : Seq(Nat), down : Seq(Nat)]]
  BY DEF TypeOK
<1>2. CASE i \in ChannelIds
  <2>1. sent[i] \in [up : Nat, down : Nat] /\ got[i] \in [up : Seq(Nat), down : Seq(Nat)]
    BY <1>1, <1>2
  <2>2. sent[i].up + 1 \in Nat /\ sent[i].down + 1 \in Nat
        /\ Append(got[i].up, n) \in Seq(Nat) /\ Append(got[i].down, n) \in Seq(Nat)
    BY <2>1
  <2>3. /\ [sent[i] EXCEPT !.up = @ + 1] \in [up : Nat, down : Nat]
        /\ [sent[i] EXCEPT !.down = @ + 1] \in [up : Nat, down : Nat]
        /\ [got[i] EXCEPT !.up = Append(@, n)] \in [up : Seq(Nat), down : Seq(Nat)]
        /\ [got[i] EXCEPT !.down = Append(@, n)] \in [up : Seq(Nat), down : Seq(Nat)]
    BY <2>1, <2>2
  <2> QED BY <1>1, <1>2, <2>3
<1>3. CASE i \notin ChannelIds
  BY <1>1, <1>3
<1> QED BY <1>2, <1>3

LEMMA ServiceSteps ==
  ASSUME IInv, NEW c \in channels, ServiceCloses(c) \/ ServiceSends(c)
  PROVE  IInv'
<1>0. TypeOK /\ c.id \in Nat
  BY DEF IInv, TypeOK, Channel
<1>1. ASSUME ServiceCloses(c) PROVE IInv'
  <2>1. /\ CloseAndReopen(c, TRUE) /\ closes' = closes + 1
        /\ UNCHANGED <<readyState, session, listened, openListeners, link, down, backend,
                       sent, got, newest>>
    BY <1>1 DEF ServiceCloses
  <2>2. /\ up' \in [Sessions -> Seq(Messages)]
        /\ channels' \subseteq Channel /\ channelIdSeq' \in Nat
        /\ \A d \in channels' : d.id < channelIdSeq'
        /\ Placed' /\ Taken' /\ Agree'
    BY <2>1, CloseStep DEF backend
  <2>3. TypeOK'
    BY <1>0, <2>1, <2>2 DEF TypeOK, backend
  <2> QED BY <2>2, <2>3 DEF IInv
<1>2. ASSUME ServiceSends(c) PROVE IInv'
  <2> DEFINE m == DataMessage(c.id, sent[c.id].up + 1)
  <2>1. /\ SendUp(<<m>>) /\ sent' = [sent EXCEPT ![c.id].up = @ + 1]
        /\ UNCHANGED <<browserVars, link, down, backend, closes, got, newest>>
        /\ readyState = "open" /\ session \in Sessions /\ c.id \in ChannelIds
    BY <1>2 DEF ServiceSends, IInv, Placed
  <2>2. m \in Messages /\ m.kind # "open"
    <3>1. sent[c.id].up + 1 \in Nat
      BY <1>0, <2>1 DEF TypeOK
    <3>2. DataMessage(c.id, sent[c.id].up + 1) \in Messages
      BY <1>0, <3>1, MessageTypes
    <3> QED BY <3>2 DEF DataMessage
  <2>3. SendUp(<<m>>)
    BY <2>1
  <2> HIDE DEF m
  <2>4. /\ up' \in [Sessions -> Seq(Messages)]
        /\ \A s \in Sessions : \A n, p : OnWire(s, n, p)' => OnWire(s, n, p)
    <3> DEFINE ms == <<m>>
    <3>1. ms \in Seq(Messages) /\ \A k \in DOMAIN ms : ms[k].kind # "open"
      BY <2>2
    <3>2. SendUp(ms)
      BY <2>3
    <3> HIDE DEF ms
    <3> QED BY <1>0, <2>1, <3>1, <3>2, SentUp
  <2>5. TypeOK'
    <3>1. sent' \in [ChannelIds -> [up : Nat, down : Nat]]
      BY <1>0, <2>1, DataTypes
    <3> QED BY <1>0, <2>1, <2>4, <3>1 DEF TypeOK, browserVars, backend
  <2> QED BY <2>1, <2>4, <2>5, QuietStep DEF browserVars, backend
<1> QED BY <1>1, <1>2

\* The browser hears a message.
LEMMA OnMessageStep ==
  ASSUME IInv, OnMessage
  PROVE  IInv'
<1> DEFINE m == Head(down[session])
<1>0. /\ session \in Sessions /\ down[session] # <<>> /\ NextDown(m) /\ TypeOK
      /\ AnswerPing(m) \/ HandleReady(m) \/ HandleData(m) \/ HandleClose(m)
  BY DEF OnMessage, IInv
<1>1. m \in Messages /\ down' \in [Sessions -> Seq(Messages)]
  <2>1. down \in [Sessions -> Seq(Messages)] /\ down[session] \in Seq(Messages)
    BY <1>0 DEF TypeOK
  <2>2. m \in Messages /\ Tail(down[session]) \in Seq(Messages)
    BY <1>0, <2>1
  <2>3. down' = [down EXCEPT ![session] = Tail(@)]
    BY <1>0 DEF NextDown
  <2> QED BY <2>1, <2>2, <2>3
<1>2. UNCHANGED <<readyState, session, listened, link, backend, closes, sent>>
  BY <1>0 DEF NextDown
<1> HIDE DEF m
<1>3. ASSUME AnswerPing(m) PROVE IInv'
  <2> DEFINE pong == Message("pong", 0)
  <2>1. up' = [up EXCEPT ![session] = Append(@, pong)]
        /\ UNCHANGED <<openListeners, channelIdSeq, channels, got, newest>>
    BY <1>3 DEF AnswerPing
  <2>2. pong \in Messages /\ pong.kind # "open"
    BY MessageTypes DEF Message
  <2> HIDE DEF pong
  <2>3. up \in [Sessions -> Seq(Messages)] /\ up[session] \in Seq(Messages)
        /\ Append(up[session], pong) \in Seq(Messages)
    BY <1>0, <2>2 DEF TypeOK
  <2>4. up' \in [Sessions -> Seq(Messages)]
        /\ \A s \in Sessions : up'[s] = IF s = session THEN Append(up[session], pong) ELSE up[s]
    BY <2>1, <2>3
  <2>5. \A s \in Sessions : \A n, p : OnWire(s, n, p)' => OnWire(s, n, p)
    <3>1. \A k \in DOMAIN Append(up[session], pong) :
            \/ k \in DOMAIN up[session] /\ Append(up[session], pong)[k] = up[session][k]
            \/ Append(up[session], pong)[k] = pong
      BY <2>2, <2>3
    <3> QED BY <2>2, <2>4, <3>1 DEF OnWire
  <2>6. TypeOK'
    BY <1>0, <1>1, <1>2, <2>1, <2>4 DEF TypeOK, backend
  <2> QED BY <1>2, <2>1, <2>5, <2>6, QuietStep DEF backend
<1>4. ASSUME HandleReady(m) PROVE IInv'
  <2> DEFINE f(c) == IF c \in ChannelsFor(m) THEN [c EXCEPT !.opened = TRUE] ELSE c
  <2>1. /\ channels' = {f(c) : c \in channels}
        /\ newest' = [p \in Paths |->
                        IF \E c \in ChannelsFor(m) : c.path = p THEN m.id ELSE newest[p]]
        /\ UNCHANGED <<openListeners, channelIdSeq, up, got>>
    BY <1>4 DEF HandleReady
  <2>2. \A c \in channels : f(c) \in Channel /\ f(c).id = c.id /\ f(c).path = c.path
    BY <1>0 DEF TypeOK, Channel
  <2>3. newest' \in [Paths -> Nat \cup {-1}]
    <3>1. m.id \in Nat
      BY <1>1 DEF Messages
    <3> QED BY <1>0, <2>1, <3>1 DEF TypeOK
  <2> HIDE DEF f
  <2>4. TypeOK'
    <3>1. channels' \subseteq Channel /\ \A c \in channels' : c.id < channelIdSeq'
      BY <1>0, <2>1, <2>2 DEF TypeOK
    <3> QED BY <1>0, <1>1, <1>2, <2>1, <2>3, <3>1 DEF TypeOK, backend
  <2>5. Placed'
    <3>1. ASSUME NEW p \in listened \cap Reconnecting, readyState = "open"
          PROVE  \E c \in channels' : \A d \in channels' : d.path = p <=> d = c
      <4>1. PICK c \in channels : \A d \in channels : d.path = p <=> d = c
        BY <3>1 DEF IInv, Placed
      <4>2. f(c) \in channels' /\ f(c).path = p
        BY <2>1, <2>2, <4>1
      <4>3. \A d \in channels' : d.path = p => d = f(c)
        BY <2>1, <2>2, <4>1
      <4> QED BY <4>2, <4>3
    <3>2. readyState # "open" => channels' = {}
      BY <2>1 DEF IInv, Placed
    <3>3. \A c \in channels' : c.path \in listened
      BY <2>1, <2>2 DEF IInv, Placed
    <3> QED BY <1>2, <2>1, <3>1, <3>2, <3>3 DEF IInv, Placed
  <2>6. Taken' /\ Agree'
    <3>1. \A c \in channels' : \E b \in channels : b.id = c.id /\ b.path = c.path
      BY <2>1, <2>2
    <3>2. /\ \A s \in Sessions : \A n, p : OnWire(s, n, p)' => OnWire(s, n, p)
          /\ backChannels' = backChannels
      BY <1>2, <2>1 DEF OnWire, backend
    <3> QED BY <1>2, <2>1, <3>1, <3>2, KeptStep
  <2> QED BY <2>4, <2>5, <2>6 DEF IInv
<1>5. ASSUME HandleData(m) PROVE IInv'
  <2>1. /\ m.kind = "data"
        /\ got' = [got EXCEPT ![m.id].down = Append(@, m.content)] \/ got' = got
        /\ UNCHANGED <<openListeners, channelIdSeq, channels, up, newest>>
    BY <1>5 DEF HandleData
  <2>2. m.content \in Nat
    BY <1>1, <2>1 DEF Messages
  <2>3. got' \in [ChannelIds -> [up : Seq(Nat), down : Seq(Nat)]]
    <3>1. got \in [ChannelIds -> [up : Seq(Nat), down : Seq(Nat)]]
      BY <1>0 DEF TypeOK
    <3>2. [got EXCEPT ![m.id].down = Append(@, m.content)]
            \in [ChannelIds -> [up : Seq(Nat), down : Seq(Nat)]]
      BY <1>0, <2>2, DataTypes
    <3> QED BY <2>1, <3>1, <3>2
  <2>4. TypeOK'
    BY <1>0, <1>1, <1>2, <2>1, <2>3 DEF TypeOK, backend
  <2> QED BY <1>2, <2>1, <2>4, QuietStep DEF backend, OnWire
<1>6. ASSUME HandleClose(m) PROVE IInv'
  <2>1. UNCHANGED <<openListeners, got, newest>>
    BY <1>6 DEF HandleClose
  <2>2. CASE ChannelsFor(m) = {}
    <3>1. UNCHANGED <<channels, channelIdSeq, up>>
      BY <1>6, <2>2 DEF HandleClose
    <3>2. TypeOK'
      BY <1>0, <1>1, <1>2, <2>1, <3>1 DEF TypeOK, backend
    <3> QED BY <1>2, <2>1, <3>1, <3>2, QuietStep DEF backend, OnWire
  <2>3. CASE ChannelsFor(m) # {}
    <3>1. PICK c \in ChannelsFor(m) : CloseAndReopen(c, FALSE)
      BY <1>6, <2>3 DEF HandleClose
    <3>2. c \in channels
      BY DEF ChannelsFor
    <3>3. /\ up' \in [Sessions -> Seq(Messages)]
          /\ channels' \subseteq Channel /\ channelIdSeq' \in Nat
          /\ \A d \in channels' : d.id < channelIdSeq'
          /\ Placed' /\ Taken' /\ Agree'
      BY <1>2, <2>1, <3>1, <3>2, CloseStep DEF backend
    <3>4. TypeOK'
      BY <1>0, <1>1, <1>2, <2>1, <3>3 DEF TypeOK, backend
    <3> QED BY <3>3, <3>4 DEF IInv
  <2> QED BY <2>2, <2>3
<1> QED BY <1>0, <1>3, <1>4, <1>5, <1>6

-----------------------------------------------------------------------------
(* The backend's steps.                                                    *)

\* The backend hears a message.
LEMMA OnMessageUpStep ==
  ASSUME IInv, NEW s \in Sessions, OnMessageUp(s)
  PROVE  IInv'
<1> DEFINE m == Head(up[s])
<1>0. /\ up[s] # <<>> /\ up' = [up EXCEPT ![s] = Tail(@)] /\ TypeOK
      /\ UNCHANGED <<browserVars, link, socket, sent, newest>>
      /\ HandleOpen(s, m) \/ HandleDataUp(s, m) \/ HandleCloseUp(s, m) \/ HandlePong(s, m)
  BY DEF OnMessageUp, NextUp, IInv
<1>1. /\ up' \in [Sessions -> Seq(Messages)] /\ m \in Messages
      /\ \A t \in Sessions : \A n, p : OnWire(t, n, p)' => OnWire(t, n, p)
      /\ m.kind = "open" => OnWire(s, m.id, m.path)
  BY <1>0, TakenOff
<1>2. /\ backChannels \in [Sessions -> SUBSET BackChannel]
      /\ down \in [Sessions -> Seq(Messages)] /\ closes \in Nat
      /\ alive \in [Sessions -> BOOLEAN]
      /\ got \in [ChannelIds -> [up : Seq(Nat), down : Seq(Nat)]]
  BY <1>0 DEF TypeOK
<1> HIDE DEF m
<1>3. /\ down' \in [Sessions -> Seq(Messages)] /\ closes' \in Nat
      /\ alive' \in [Sessions -> BOOLEAN]
      /\ got' \in [ChannelIds -> [up : Seq(Nat), down : Seq(Nat)]]
      /\ backChannels' \in [Sessions -> SUBSET BackChannel]
      /\ \A t \in Sessions : \A d \in backChannels'[t] :
           d \in backChannels[t] \/ OnWire(t, d.id, d.path)
  <2>1. CASE HandleOpen(s, m)
    <3>1. m.kind = "open" /\ UNCHANGED <<alive, got>>
      BY <2>1 DEF HandleOpen
    <3>2. m.id \in Nat /\ m.path \in Paths
      BY <1>1, <3>1 DEF Messages
    <3> DEFINE new == [id |-> m.id, path |-> m.path]
    <3>3. new \in BackChannel /\ OnWire(s, new.id, new.path)
      BY <1>1, <3>1, <3>2 DEF BackChannel
    <3>4. \/ backChannels' = [backChannels EXCEPT ![s] = @ \cup {new}]
          \/ backChannels' = backChannels
      BY <2>1 DEF HandleOpen
    <3>5. closes' \in Nat
      BY <1>2, <2>1 DEF HandleOpen
    <3>6. down' \in [Sessions -> Seq(Messages)]
      <4>1. /\ <<Message("ready", m.id)>> \in Seq(Messages)
            /\ <<Message("close", m.id)>> \in Seq(Messages)
        BY <3>2, MessageTypes
      <4>2. \/ SendDown(s, <<Message("ready", m.id)>>)
            \/ SendDown(s, <<Message("close", m.id)>>)
            \/ down' = down
        BY <2>1 DEF HandleOpen
      <4> QED BY <1>0, <1>2, <4>1, <4>2, SentDown
    <3> HIDE DEF new
    <3>7. /\ backChannels' \in [Sessions -> SUBSET BackChannel]
          /\ \A t \in Sessions : \A d \in backChannels'[t] :
               d \in backChannels[t] \/ OnWire(t, d.id, d.path)
      BY <1>2, <3>3, <3>4
    <3> QED BY <1>2, <3>1, <3>5, <3>6, <3>7
  <2>2. CASE HandleDataUp(s, m)
    <3>1. /\ m.kind = "data" /\ UNCHANGED <<backChannels, alive, down, closes>>
          /\ got' = [got EXCEPT ![m.id].up = Append(@, m.content)] \/ got' = got
      BY <2>2 DEF HandleDataUp
    <3>2. m.content \in Nat
      BY <1>1, <3>1 DEF Messages
    <3>3. [got EXCEPT ![m.id].up = Append(@, m.content)]
            \in [ChannelIds -> [up : Seq(Nat), down : Seq(Nat)]]
      BY <1>0, <3>2, DataTypes
    <3> QED BY <1>2, <3>1, <3>3
  <2>3. CASE HandleCloseUp(s, m)
    BY <1>2, <2>3 DEF HandleCloseUp
  <2>4. CASE HandlePong(s, m)
    BY <1>2, <2>4 DEF HandlePong, NotePong
  <2> QED BY <1>0, <2>1, <2>2, <2>3, <2>4
<1>4. TypeOK'
  BY <1>0, <1>1, <1>3 DEF TypeOK, browserVars
<1> QED BY <1>0, <1>1, <1>3, <1>4, QuietStep DEF browserVars

LEMMA BackServiceSteps ==
  ASSUME IInv, NEW s \in Sessions, NEW c \in backChannels[s],
         BackServiceCloses(s, c) \/ BackServiceSends(s, c)
  PROVE  IInv'
<1>0. TypeOK /\ c.id \in Nat /\ backChannels \in [Sessions -> SUBSET BackChannel]
  BY DEF IInv, TypeOK, BackChannel
<1>1. ASSUME BackServiceCloses(s, c) PROVE IInv'
  <2>1. /\ backChannels' = [backChannels EXCEPT ![s] = @ \ {c}] /\ closes' = closes + 1
        /\ SendDown(s, <<Message("close", c.id)>>)
        /\ UNCHANGED <<browserVars, link, up, socket, alive, sent, got, newest>>
    BY <1>1 DEF BackServiceCloses
  <2>2. down' \in [Sessions -> Seq(Messages)]
    <3>1. <<Message("close", c.id)>> \in Seq(Messages)
      BY <1>0, MessageTypes
    <3> QED BY <1>0, <2>1, <3>1, SentDown
  <2>3. /\ backChannels' \in [Sessions -> SUBSET BackChannel]
        /\ \A t \in Sessions : backChannels'[t] \subseteq backChannels[t]
    BY <1>0, <2>1
  <2>4. TypeOK'
    BY <1>0, <2>1, <2>2, <2>3 DEF TypeOK, browserVars
  <2> QED BY <2>1, <2>3, <2>4, QuietStep DEF browserVars, OnWire
<1>2. ASSUME BackServiceSends(s, c) PROVE IInv'
  <2>1. /\ sent' = [sent EXCEPT ![c.id].down = @ + 1] /\ c.id \in ChannelIds
        /\ SendDown(s, <<DataMessage(c.id, sent[c.id].down + 1)>>)
        /\ UNCHANGED <<browserVars, link, up, backend, closes, got, newest>>
    BY <1>2 DEF BackServiceSends
  <2>2. down' \in [Sessions -> Seq(Messages)]
    <3>1. sent[c.id].down + 1 \in Nat
      BY <1>0, <2>1 DEF TypeOK
    <3>2. <<DataMessage(c.id, sent[c.id].down + 1)>> \in Seq(Messages)
      BY <1>0, <3>1, MessageTypes
    <3> QED BY <1>0, <2>1, <3>2, SentDown
  <2>3. sent' \in [ChannelIds -> [up : Nat, down : Nat]]
    BY <1>0, <2>1, DataTypes
  <2>4. TypeOK'
    BY <1>0, <2>1, <2>2, <2>3 DEF TypeOK, browserVars, backend
  <2> QED BY <2>1, <2>4, QuietStep DEF browserVars, backend, OnWire
<1> QED BY <1>1, <1>2

\* The socket of a session is pinged, terminated or closed, or its link breaks.
LEMMA BackSocketSteps ==
  ASSUME IInv, NEW s \in Sessions, BackSocketClose(s) \/ CheckAlive(s) \/ LinkBreaks(s)
  PROVE  IInv'
<1>0. TypeOK /\ backChannels \in [Sessions -> SUBSET BackChannel]
  BY DEF IInv, TypeOK
<1>1. ASSUME BackSocketClose(s) PROVE IInv'
  <2>1. /\ socket' = [socket EXCEPT ![s] = "closed"]
        /\ backChannels' = [backChannels EXCEPT ![s] = {}]
        /\ UNCHANGED <<browserVars, network, alive, history>>
    BY <1>1 DEF BackSocketClose, NoBackChannels
  <2>2. /\ backChannels' \in [Sessions -> SUBSET BackChannel]
        /\ \A t \in Sessions : backChannels'[t] \subseteq backChannels[t]
    BY <1>0, <2>1
  <2>3. TypeOK'
    BY <1>0, <2>1, <2>2 DEF TypeOK, browserVars, network, history
  <2> QED BY <2>1, <2>2, <2>3, QuietStep DEF browserVars, network, OnWire
<1>2. ASSUME CheckAlive(s) PROVE IInv'
  <2>1. UNCHANGED <<browserVars, backChannels, history>>
    BY <1>2 DEF CheckAlive
  <2>2. \/ /\ alive' = [alive EXCEPT ![s] = FALSE]
           /\ SendDown(s, <<Message("ping", 0)>>)
           /\ UNCHANGED <<socket, link, up>>
        \/ /\ socket' = [socket EXCEPT ![s] = "terminated"] /\ CutLink(s) /\ UNCHANGED alive
    BY <1>2 DEF CheckAlive, NotAlive
  <2>3. CASE alive' = [alive EXCEPT ![s] = FALSE] /\ SendDown(s, <<Message("ping", 0)>>)
             /\ UNCHANGED <<socket, link, up>>
    <3>1. down' \in [Sessions -> Seq(Messages)]
      <4>1. <<Message("ping", 0)>> \in Seq(Messages)
        BY MessageTypes
      <4> QED BY <1>0, <2>3, <4>1, SentDown
    <3>2. TypeOK'
      BY <1>0, <2>1, <2>3, <3>1 DEF TypeOK, browserVars, history
    <3> QED BY <2>1, <2>3, <3>2, QuietStep DEF browserVars, OnWire
  <2>4. CASE socket' = [socket EXCEPT ![s] = "terminated"] /\ CutLink(s) /\ UNCHANGED alive
    <3>1. /\ link' \in [Sessions -> {"none", "up", "broken"}]
          /\ up' \in [Sessions -> Seq(Messages)] /\ down' \in [Sessions -> Seq(Messages)]
          /\ \A t \in Sessions : \A n, p : OnWire(t, n, p)' => OnWire(t, n, p)
      BY <1>0, <2>4, CutLinkTypes
    <3>2. TypeOK'
      BY <1>0, <2>1, <2>4, <3>1 DEF TypeOK, browserVars, history
    <3> QED BY <2>1, <3>1, <3>2, QuietStep DEF browserVars
  <2> QED BY <2>2, <2>3, <2>4
<1>3. ASSUME LinkBreaks(s) PROVE IInv'
  <2>1. CutLink(s) /\ UNCHANGED <<browserVars, backend, history>>
    BY <1>3 DEF LinkBreaks
  <2>2. /\ link' \in [Sessions -> {"none", "up", "broken"}]
        /\ up' \in [Sessions -> Seq(Messages)] /\ down' \in [Sessions -> Seq(Messages)]
        /\ \A t \in Sessions : \A n, p : OnWire(t, n, p)' => OnWire(t, n, p)
    BY <1>0, <2>1, CutLinkTypes
  <2>3. TypeOK'
    BY <1>0, <2>1, <2>2 DEF TypeOK, browserVars, backend, history
  <2> QED BY <2>1, <2>2, <2>3, QuietStep DEF browserVars, backend
<1> QED BY <1>1, <1>2, <1>3

-----------------------------------------------------------------------------
LEMMA InitHolds ==
  ASSUME Init
  PROVE  IInv
<1>1. TypeOK
  BY WsAssumption DEF Init, TypeOK, Sessions
<1>2. Placed /\ Taken /\ Agree
  BY DEF Init, Placed, Taken, Agree, OnWire
<1> QED BY <1>1, <1>2 DEF IInv

LEMMA NextKeeps ==
  ASSUME IInv, [Next]_vars
  PROVE  IInv'
<1>1. ASSUME UNCHANGED vars PROVE IInv'
  <2>1. TypeOK'
    BY <1>1 DEF IInv, TypeOK, vars, browserVars, network, backend, history
  <2> QED BY <1>1, <2>1, QuietStep DEF vars, browserVars, network, backend, OnWire
<1> QED
  BY <1>1, ListenStep, SocketSteps, ServiceSteps, OnMessageStep, OnMessageUpStep,
     BackServiceSteps, BackSocketSteps DEF Next

LEMMA Invariance == Spec => []IInv
  BY InitHolds, NextKeeps, PTL DEF Spec

\* The maps, listeners, flags and messages of both sides keep their types, and ids
\* are never used before channelIdSeq gave them out.
THEOREM TypeCorrect == Spec => []TypeOK
<1>1. IInv => TypeOK
  BY DEF IInv
<1> QED BY <1>1, Invariance, PTL

\* However the close events of the socket and of single channels, the open events
\* and listen calls are ordered, a reconnecting path never has two channels, and is
\* never forgotten (WebSocketConnectionProvider.openChannel and its close listener).
THEOREM EachServedOnce == Spec => []PathServedOnce
<1>1. IInv => PathServedOnce
  <2> SUFFICES ASSUME IInv, NEW p \in listened \cap Reconnecting
               PROVE  Cardinality({c \in channels : c.path = p})
                        + (IF p \in openListeners THEN 1 ELSE 0) = 1
    BY DEF PathServedOnce
  <2> DEFINE Of == {c \in channels : c.path = p}
  <2>0. Cardinality({}) = 0 /\ \A c : Cardinality({c}) = 1
    BY FS_EmptySet, FS_Singleton
  <2>1. ASSUME readyState = "open" PROVE Cardinality(Of) + (IF p \in openListeners THEN 1 ELSE 0) = 1
    <3>1. PICK c \in channels : \A d \in channels : d.path = p <=> d = c
      BY <2>1 DEF IInv, Placed
    <3>2. Of = {c} /\ p \notin openListeners
      BY <2>1, <3>1 DEF IInv, Placed
    <3>3. Cardinality(Of) = 1
      BY <2>0, <3>2
    <3> HIDE DEF Of
    <3> QED BY <3>2, <3>3
  <2>2. ASSUME readyState # "open" PROVE Cardinality(Of) + (IF p \in openListeners THEN 1 ELSE 0) = 1
    <3>1. Of = {} /\ p \in openListeners
      BY <2>2 DEF IInv, Placed
    <3>2. Cardinality(Of) = 0
      BY <2>0, <3>1
    <3> HIDE DEF Of
    <3> QED BY <3>1, <3>2
  <2>3. Cardinality(Of) + (IF p \in openListeners THEN 1 ELSE 0) = 1
    BY <2>1, <2>2
  <2> QED BY <2>3
<1> QED BY <1>1, Invariance, PTL

\* An id stands for one path at both ends, although closes, reopens and lost
\* sessions cross (channelIdSeq is never set back; the backend has a map per socket).
THEOREM BothEndsAgree == Spec => []EndsAgree
<1>1. IInv => EndsAgree
  BY DEF IInv, Agree, EndsAgree
<1> QED BY <1>1, Invariance, PTL

-----------------------------------------------------------------------------
(* What is under way on the link of the latest session.                    *)

Is(m, k, i) == m.kind = k /\ m.id = i
Has(q, k, i) == \E n \in DOMAIN q : Is(q[n], k, i)

\* The data under way for i are those numbered by C, in order.
DataLane(q, i, C) ==
  /\ \A k \in DOMAIN q : Is(q[k], "data", i) => q[k].content \in C
  /\ \A x \in C : \E k \in DOMAIN q : Is(q[k], "data", i) /\ q[k].content = x
  /\ \A k, l \in DOMAIN q :
       Is(q[k], "data", i) /\ Is(q[l], "data", i) /\ k < l => q[k].content < q[l].content

\* Before the first data for i its channel is announced.
ReadyFirst(q, i) ==
  \A k \in DOMAIN q : Is(q[k], "data", i) => \E j \in DOMAIN q : j < k /\ Is(q[j], "ready", i)

OpenOnce(q, i) ==
  \A k, l \in DOMAIN q : Is(q[k], "open", i) /\ Is(q[l], "open", i) => k = l

\* Of what was under way as q, the data and announcements are so in r as well, and
\* no others are.
Calm(q, r) ==
  /\ \A i, C : DataLane(q, i, C) => DataLane(r, i, C)
  /\ \A i : ReadyFirst(q, i) => ReadyFirst(r, i)
  /\ \A i : Has(r, "ready", i) <=> Has(q, "ready", i)
  /\ \A i : Has(r, "data", i) => Has(q, "data", i)

\* The opens of r are those of q, or of new ids, each once.
Opened(q, r) ==
  \A i : Has(r, "open", i) =>
    \/ Has(q, "open", i) /\ (OpenOnce(q, i) => OpenOnce(r, i))
    \/ i \in Nat /\ i >= channelIdSeq /\ i < channelIdSeq' /\ OpenOnce(r, i)

LEMMA AppendAt ==
  ASSUME NEW q \in Seq(Messages), NEW ms \in Seq(Messages)
  PROVE  /\ q \o ms \in Seq(Messages)
         /\ \A k \in DOMAIN q : k \in DOMAIN (q \o ms) /\ (q \o ms)[k] = q[k] /\ k <= Len(q)
         /\ \A j \in DOMAIN ms :
              /\ j + Len(q) \in DOMAIN (q \o ms) /\ (q \o ms)[j + Len(q)] = ms[j] /\ j >= 1
         /\ \A k \in DOMAIN (q \o ms) :
              \/ k \in DOMAIN q
              \/ k - Len(q) \in DOMAIN ms /\ (q \o ms)[k] = ms[k - Len(q)] /\ k > Len(q)
OBVIOUS

LEMMA TailAt ==
  ASSUME NEW q \in Seq(Messages), q # <<>>
  PROVE  /\ Tail(q) \in Seq(Messages) /\ 1 \in DOMAIN q /\ Head(q) = q[1] /\ Head(q) \in Messages
         /\ \A k \in DOMAIN Tail(q) : k \in Nat /\ k >= 1 /\ k + 1 \in DOMAIN q /\ Tail(q)[k] = q[k + 1]
         /\ \A k \in DOMAIN q : k \in Nat /\ k >= 1
         /\ \A k \in DOMAIN q : k # 1 => k - 1 \in DOMAIN Tail(q) /\ Tail(q)[k - 1] = q[k]
<1>1. /\ Tail(q) \in Seq(Messages) /\ Len(Tail(q)) = Len(q) - 1 /\ Len(q) \in Nat /\ Len(q) >= 1
      /\ Head(q) = q[1] /\ DOMAIN q = 1 .. Len(q) /\ DOMAIN Tail(q) = 1 .. Len(Tail(q))
      /\ \A k \in 1 .. Len(q) - 1 : Tail(q)[k] = q[k + 1]
      /\ q[1] \in Messages
  OBVIOUS
<1> QED BY <1>1

\* Appended messages of other kinds leave data and announcements as they are.
LEMMA CalmAppend ==
  ASSUME NEW q \in Seq(Messages), NEW ms \in Seq(Messages),
         \A j \in DOMAIN ms : ms[j].kind \notin {"ready", "data"}
  PROVE  Calm(q, q \o ms)
<1> DEFINE r == q \o ms
<1>1. /\ \A k \in DOMAIN q : k \in DOMAIN r /\ r[k] = q[k] /\ k <= Len(q)
      /\ \A k \in DOMAIN r : k \in DOMAIN q \/ r[k].kind \notin {"ready", "data"}
  BY AppendAt
<1> HIDE DEF r
<1>2. \A i, C : DataLane(q, i, C) => DataLane(r, i, C)
  BY <1>1 DEF DataLane, Is
<1>3. \A i : ReadyFirst(q, i) => ReadyFirst(r, i)
  BY <1>1 DEF ReadyFirst, Is
<1>4. \A i : (Has(r, "ready", i) <=> Has(q, "ready", i)) /\ (Has(r, "data", i) => Has(q, "data", i))
  BY <1>1 DEF Has, Is
<1>5. Calm(q, r)
  BY <1>2, <1>3, <1>4 DEF Calm
<1> QED BY <1>5 DEF r

\* So does taking off a message of another kind.
LEMMA CalmTail ==
  ASSUME NEW q \in Seq(Messages), q # <<>>, Head(q).kind \notin {"ready", "data"}
  PROVE  Calm(q, Tail(q))
<1> DEFINE r == Tail(q)
<1>1. /\ \A k \in DOMAIN r : k \in Nat /\ k + 1 \in DOMAIN q /\ r[k] = q[k + 1]
      /\ \A k \in DOMAIN q : k \in Nat
      /\ \A k \in DOMAIN q :
           q[k].kind \in {"ready", "data"} => k - 1 \in DOMAIN r /\ r[k - 1] = q[k]
  BY TailAt
<1> HIDE DEF r
<1>2. ASSUME NEW i, NEW C, DataLane(q, i, C) PROVE DataLane(r, i, C)
  <2>1. \A k \in DOMAIN r : Is(r[k], "data", i) => r[k].content \in C
    BY <1>1, <1>2 DEF DataLane
  <2>2. \A x \in C : \E k \in DOMAIN r : Is(r[k], "data", i) /\ r[k].content = x
    BY <1>1, <1>2 DEF DataLane, Is
  <2>3. ASSUME NEW k \in DOMAIN r, NEW l \in DOMAIN r, Is(r[k], "data", i), Is(r[l], "data", i), k < l
        PROVE  r[k].content < r[l].content
    <3>1. k + 1 \in DOMAIN q /\ l + 1 \in DOMAIN q /\ r[k] = q[k + 1] /\ r[l] = q[l + 1] /\ k + 1 < l + 1
      BY <1>1, <2>3
    <3> QED BY <1>2, <2>3, <3>1 DEF DataLane
  <2> QED BY <2>1, <2>2, <2>3 DEF DataLane
<1>3. ASSUME NEW i, ReadyFirst(q, i) PROVE ReadyFirst(r, i)
  <2> SUFFICES ASSUME NEW k \in DOMAIN r, Is(r[k], "data", i)
               PROVE  \E j \in DOMAIN r : j < k /\ Is(r[j], "ready", i)
    BY DEF ReadyFirst
  <2>1. k + 1 \in DOMAIN q /\ Is(q[k + 1], "data", i) /\ k \in Nat
    BY <1>1
  <2>2. PICK j \in DOMAIN q : j < k + 1 /\ Is(q[j], "ready", i)
    BY <1>3, <2>1 DEF ReadyFirst
  <2>3. j \in Nat /\ j - 1 \in DOMAIN r /\ r[j - 1] = q[j] /\ j - 1 < k
    BY <1>1, <2>1, <2>2 DEF Is
  <2> QED BY <2>2, <2>3
<1>4. \A i : (Has(r, "ready", i) <=> Has(q, "ready", i)) /\ (Has(r, "data", i) => Has(q, "data", i))
  BY <1>1 DEF Has, Is
<1>5. Calm(q, r)
  BY <1>2, <1>3, <1>4 DEF Calm
<1> QED BY <1>5 DEF r

LEMMA CalmSame == \A q : Calm(q, q) /\ Opened(q, q)
BY DEF Calm, Opened

\* Opens are appended for new ids only.
LEMMA OpenedAppend ==
  ASSUME NEW q \in Seq(Messages), NEW ms \in Seq(Messages),
         channelIdSeq \in Nat, \A i : Has(q, "open", i) => i < channelIdSeq,
         \A j \in DOMAIN ms : ms[j].kind = "open" =>
           /\ ms[j].id >= channelIdSeq /\ ms[j].id < channelIdSeq'
           /\ \A l \in DOMAIN ms : ms[l].kind = "open" /\ ms[l].id = ms[j].id => l = j
  PROVE  Opened(q, q \o ms)
<1> DEFINE r == q \o ms
<1>1. /\ \A k \in DOMAIN q : k \in DOMAIN r /\ r[k] = q[k] /\ k \in Nat
      /\ \A k \in DOMAIN r :
           \/ k \in DOMAIN q
           \/ k \in Nat /\ k - Len(q) \in DOMAIN ms /\ r[k] = ms[k - Len(q)] /\ Len(q) \in Nat
      /\ \A j \in DOMAIN ms : ms[j].id \in Nat
  <2>1. \A j \in DOMAIN ms : ms[j] \in Messages
    OBVIOUS
  <2> QED BY <2>1, AppendAt DEF Messages
<1> HIDE DEF r
<1>2. ASSUME NEW i, Has(r, "open", i)
      PROVE  \/ Has(q, "open", i) /\ (OpenOnce(q, i) => OpenOnce(r, i))
             \/ i \in Nat /\ i >= channelIdSeq /\ i < channelIdSeq' /\ OpenOnce(r, i)
  <2>1. PICK k \in DOMAIN r : Is(r[k], "open", i)
    BY <1>2 DEF Has
  <2>2. CASE k \in DOMAIN q
    <3>1. Has(q, "open", i)
      BY <1>1, <2>1, <2>2 DEF Has
    <3>2. i < channelIdSeq /\ i \in Nat
      <4>1. q[k] \in Messages /\ q[k].id = i
        BY <1>1, <2>1, <2>2 DEF Is
      <4> QED BY <3>1, <4>1 DEF Messages
    <3>3. \A l \in DOMAIN r : Is(r[l], "open", i) => l \in DOMAIN q /\ Is(q[l], "open", i)
      BY <1>1, <3>2 DEF Is
    <3> QED BY <3>1, <3>3 DEF OpenOnce
  <2>3. CASE k \notin DOMAIN q
    <3>1. k - Len(q) \in DOMAIN ms /\ ms[k - Len(q)].kind = "open" /\ ms[k - Len(q)].id = i
      BY <1>1, <2>1, <2>3 DEF Is
    <3>2. i \in Nat /\ i >= channelIdSeq /\ i < channelIdSeq'
      BY <1>1, <3>1
    <3>3. \A l \in DOMAIN q : ~Is(q[l], "open", i)
      <4>1. ~Has(q, "open", i)
        BY <3>2
      <4> QED BY <4>1 DEF Has
    <3>4. \A l \in DOMAIN r : Is(r[l], "open", i) => l - Len(q) = k - Len(q) /\ l \in Nat
      BY <1>1, <3>1, <3>3 DEF Is
    <3>5. OpenOnce(r, i)
      BY <1>1, <3>4 DEF OpenOnce
    <3> QED BY <3>2, <3>5
  <2> QED BY <2>2, <2>3
<1>3. Opened(q, r)
  BY <1>2 DEF Opened
<1> QED BY <1>3 DEF r

LEMMA OpenedTail ==
  ASSUME NEW q \in Seq(Messages), q # <<>>
  PROVE  /\ Opened(q, Tail(q))
         /\ \A i : OpenOnce(q, i) /\ Is(Head(q), "open", i) => ~Has(Tail(q), "open", i)
         /\ \A k, i : Has(Tail(q), k, i) => Has(q, k, i)
<1> DEFINE r == Tail(q)
<1>1. /\ \A k \in DOMAIN r : k \in Nat /\ k >= 1 /\ k + 1 \in DOMAIN q /\ r[k] = q[k + 1]
      /\ 1 \in DOMAIN q /\ Head(q) = q[1]
  BY TailAt
<1> HIDE DEF r
<1>2. \A k, i : Has(r, k, i) => Has(q, k, i)
  BY <1>1 DEF Has
<1>3. \A i : OpenOnce(q, i) => OpenOnce(r, i)
  <2> SUFFICES ASSUME NEW i, OpenOnce(q, i), NEW k \in DOMAIN r, NEW l \in DOMAIN r,
                      Is(r[k], "open", i), Is(r[l], "open", i)
               PROVE  k = l
    BY DEF OpenOnce
  <2>1. k + 1 = l + 1 /\ k \in Nat /\ l \in Nat
    BY <1>1 DEF OpenOnce
  <2> QED BY <2>1
<1>4. \A i : OpenOnce(q, i) /\ Is(Head(q), "open", i) => ~Has(r, "open", i)
  <2> SUFFICES ASSUME NEW i, OpenOnce(q, i), Is(Head(q), "open", i),
                      NEW k \in DOMAIN r, Is(r[k], "open", i)
               PROVE  FALSE
    BY DEF Has
  <2>1. k + 1 = 1 /\ k \in Nat /\ k >= 1
    BY <1>1 DEF OpenOnce
  <2> QED BY <2>1
<1>5. Opened(q, r)
  BY <1>2, <1>3 DEF Opened
<1> QED BY <1>2, <1>4, <1>5 DEF r

-----------------------------------------------------------------------------
(* How far the data of a channel have come.                                *)

\* Only the link of the latest session carries messages, and only while the browser
\* has not heard that it closed.
Lone ==
  /\ \A s \in Sessions : link[s] = "up" => s = session
  /\ \A s \in Sessions : link[s] # "up" => up[s] = <<>> /\ down[s] = <<>>
  /\ readyState = "closed" => \A s \in Sessions : link[s] # "up"

Wired == session \in Sessions /\ link[session] = "up"

KnownId(i) == \E d \in backChannels[session] : d.id = i
UnknownId(i) == \A s \in Sessions : \A d \in backChannels[s] : d.id # i

\* Ids not yet given out are not in use.
Unused ==
  /\ \A i \in ChannelIds : i >= channelIdSeq => sent[i].up = 0 /\ sent[i].down = 0
  /\ Wired => \A i :
       \/ Has(up[session], "data", i)
       \/ Has(down[session], "ready", i) \/ Has(down[session], "data", i)
       => i \in Nat /\ i < channelIdSeq

\* An id is that of one channel, of the latest session.
OwnIds ==
  /\ \A c, d \in channels : c.id = d.id => c = d
  /\ \A c \in channels, s \in Sessions : \A d \in backChannels[s] : d.id = c.id => s = session

\* Until the backend hears that a channel is opened, nothing else is known of it.
Opening ==
  Wired => \A i : Has(up[session], "open", i) =>
    /\ OpenOnce(up[session], i) /\ ~Has(up[session], "data", i)
    /\ ~Has(down[session], "ready", i) /\ ~Has(down[session], "data", i)
    /\ UnknownId(i)
    /\ \A c \in channels : c.id = i => ~c.opened
    /\ i \in ChannelIds => sent[i].up = 0 /\ sent[i].down = 0

\* A channel the backend has, and the handler of the browser has not yet, is
\* announced before anything is sent on it.
Announced ==
  Wired => \A c \in channels : ~c.opened =>
    /\ KnownId(c.id) => Has(down[session], "ready", c.id)
    /\ ReadyFirst(down[session], c.id)

\* What was sent to a service and not handled is under way.
DownLane ==
  Wired => \A c \in channels : c.id \in ChannelIds =>
    DataLane(down[session], c.id, Len(got[c.id].down) + 1 .. sent[c.id].down)
UpLane ==
  Wired => \A d \in backChannels[session] : d.id \in ChannelIds =>
    DataLane(up[session], d.id, Len(got[d.id].up) + 1 .. sent[d.id].up)

DataInv ==
  /\ Lone /\ Unused /\ OwnIds /\ Opening /\ Announced /\ DownLane /\ UpLane /\ NoGap

\* A step that moves no data: channels close, new ones open, links break.
LEMMA CalmStep ==
  ASSUME IInv, DataInv, TypeOK', UNCHANGED <<session, sent, got>>,
         channelIdSeq' >= channelIdSeq,
         readyState' = "closed" => \A s \in Sessions : link'[s] # "up",
         \A s \in Sessions :
           \/ link'[s] = link[s]
           \/ link'[s] # "up" /\ up'[s] = <<>> /\ down'[s] = <<>>,
         \A s \in Sessions : link[s] # "up" => up'[s] = up[s] /\ down'[s] = down[s],
         \A c \in channels' :
           \/ c \in channels
           \/ c.id >= channelIdSeq /\ c.id < channelIdSeq' /\ ~c.opened,
         \A c, d \in channels' : c.id = d.id => c = d,
         \A s \in Sessions : backChannels'[s] \subseteq backChannels[s],
         Wired' => Calm(down[session], down'[session])
                     /\ Calm(up[session], up'[session]) /\ Opened(up[session], up'[session])
  PROVE  DataInv'
<1>0. /\ channelIdSeq \in Nat /\ channelIdSeq' \in Nat
      /\ \A c \in channels : c.id \in Nat /\ c.id < channelIdSeq
      /\ \A c \in channels' : c.id \in Nat /\ c.id < channelIdSeq'
      /\ \A s \in Sessions : \A d \in backChannels[s] : d.id \in Nat /\ d.id < channelIdSeq
      /\ \A i \in ChannelIds : sent[i].up \in Nat /\ sent[i].down \in Nat
      /\ \A i \in ChannelIds : Len(got[i].up) \in Nat /\ Len(got[i].down) \in Nat
  BY DEF IInv, TypeOK, Taken, Channel, BackChannel
<1>1. Lone'
  BY DEF DataInv, Lone
<1>2. Wired' => Wired
  BY DEF DataInv, Wired, Lone
<1>3. Unused'
  <2>1. ASSUME Wired', NEW i,
               \/ Has(up'[session], "data", i)
               \/ Has(down'[session], "ready", i) \/ Has(down'[session], "data", i)
        PROVE  i \in Nat /\ i < channelIdSeq'
    <3>1. \/ Has(up[session], "data", i)
          \/ Has(down[session], "ready", i) \/ Has(down[session], "data", i)
      BY <2>1 DEF Calm
    <3>2. i \in Nat /\ i < channelIdSeq
      BY <1>2, <2>1, <3>1 DEF DataInv, Unused
    <3> QED BY <1>0, <3>2
  <2>2. \A i \in ChannelIds : i \in Nat
    <3>1. \A i \in ChannelIds : i \in Int /\ 0 <= i
      BY DEF ChannelIds
    <3> QED BY <3>1
  <2>3. \A i \in ChannelIds : i >= channelIdSeq' => sent'[i].up = 0 /\ sent'[i].down = 0
    BY <1>0, <2>2 DEF DataInv, Unused
  <2> QED BY <2>1, <2>3 DEF Unused
<1>4. OwnIds'
  BY <1>0 DEF DataInv, OwnIds
<1>5. Opening'
  <2> SUFFICES ASSUME Wired', NEW i, Has(up'[session], "open", i)
               PROVE  /\ OpenOnce(up'[session], i) /\ ~Has(up'[session], "data", i)
                      /\ ~Has(down'[session], "ready", i) /\ ~Has(down'[session], "data", i)
                      /\ UnknownId(i)'
                      /\ \A c \in channels' : c.id = i => ~c.opened
                      /\ i \in ChannelIds => sent[i].up = 0 /\ sent[i].down = 0
    BY DEF Opening
  <2>0. Wired /\ session \in Sessions
    BY <1>2 DEF Wired
  <2>1. CASE Has(up[session], "open", i) /\ (OpenOnce(up[session], i) => OpenOnce(up'[session], i))
    <3>1. i \in Nat /\ i < channelIdSeq
      <4>1. PICK k \in DOMAIN up[session] : up[session][k].kind = "open" /\ up[session][k].id = i
        BY <2>1 DEF Has, Is
      <4>2. up[session][k] \in Messages
        BY <2>0 DEF IInv, TypeOK
      <4>3. OnWire(session, i, up[session][k].path)
        BY <4>1 DEF OnWire
      <4> QED BY <2>0, <4>1, <4>2, <4>3 DEF IInv, Taken, Messages
    <3>2. /\ OpenOnce(up[session], i) /\ ~Has(up[session], "data", i)
          /\ ~Has(down[session], "ready", i) /\ ~Has(down[session], "data", i)
          /\ UnknownId(i)
          /\ \A c \in channels : c.id = i => ~c.opened
          /\ i \in ChannelIds => sent[i].up = 0 /\ sent[i].down = 0
      BY <2>0, <2>1 DEF DataInv, Opening
    <3>3. \A c \in channels' : c.id = i => ~c.opened
      BY <1>0, <3>1, <3>2
    <3>4. UnknownId(i)'
      BY <3>2 DEF UnknownId
    <3> QED BY <2>1, <3>2, <3>3, <3>4 DEF Calm
  <2>2. CASE i \in Nat /\ i >= channelIdSeq /\ i < channelIdSeq' /\ OpenOnce(up'[session], i)
    <3>1. /\ ~Has(up[session], "data", i)
          /\ ~Has(down[session], "ready", i) /\ ~Has(down[session], "data", i)
          /\ i \in ChannelIds => sent[i].up = 0 /\ sent[i].down = 0
      BY <1>0, <2>0, <2>2 DEF DataInv, Unused
    <3>2. \A c \in channels' : c.id = i => ~c.opened
      BY <1>0, <2>2
    <3>3. UnknownId(i)'
      BY <1>0, <2>2 DEF UnknownId
    <3> QED BY <2>2, <3>1, <3>2, <3>3 DEF Calm
  <2> QED BY <2>1, <2>2 DEF Opened
<1>6. ASSUME Wired', NEW c \in channels', c \notin channels
      PROVE  /\ ~Has(down'[session], "data", c.id) /\ ~KnownId(c.id)'
             /\ c.id \in ChannelIds => sent[c.id].down = 0 /\ Len(got[c.id].down) = 0
  <2>1. Wired /\ session \in Sessions /\ c.id \in Nat /\ c.id >= channelIdSeq
    BY <1>0, <1>2, <1>6 DEF Wired
  <2>2. ~Has(down[session], "data", c.id)
    BY <1>0, <2>1 DEF DataInv, Unused
  <2>3. c.id \in ChannelIds => sent[c.id].down = 0 /\ Len(got[c.id].down) = 0
    BY <1>0, <2>1 DEF DataInv, Unused, NoGap
  <2>4. ~KnownId(c.id)'
    BY <1>0, <2>1 DEF KnownId
  <2> QED BY <1>6, <2>2, <2>3, <2>4 DEF Calm
<1>7. Announced'
  <2> SUFFICES ASSUME Wired', NEW c \in channels', ~c.opened
               PROVE  /\ KnownId(c.id)' => Has(down'[session], "ready", c.id)
                      /\ ReadyFirst(down'[session], c.id)
    BY DEF Announced
  <2>1. CASE c \in channels
    <3>1. /\ KnownId(c.id) => Has(down[session], "ready", c.id)
          /\ ReadyFirst(down[session], c.id)
      BY <1>2, <2>1 DEF DataInv, Announced
    <3>2. KnownId(c.id)' => KnownId(c.id)
      BY <1>2 DEF KnownId, Wired
    <3> QED BY <3>1, <3>2 DEF Calm
  <2>2. CASE c \notin channels
    BY <1>6, <2>2 DEF ReadyFirst, Has
  <2> QED BY <2>1, <2>2
<1>8. DownLane'
  <2> SUFFICES ASSUME Wired', NEW c \in channels', c.id \in ChannelIds
               PROVE  DataLane(down'[session], c.id, Len(got[c.id].down) + 1 .. sent[c.id].down)
    BY DEF DownLane
  <2>1. CASE c \in channels
    BY <1>2, <2>1 DEF DataInv, DownLane, Calm
  <2>2. CASE c \notin channels
    <3>1. ~Has(down'[session], "data", c.id) /\ sent[c.id].down = 0 /\ Len(got[c.id].down) = 0
      BY <1>6, <2>2
    <3>2. Len(got[c.id].down) + 1 .. sent[c.id].down = {}
      BY <3>1
    <3> QED BY <3>1, <3>2 DEF DataLane, Has
  <2> QED BY <2>1, <2>2
<1>9. UpLane'
  <2> SUFFICES ASSUME Wired', NEW d \in backChannels'[session], d.id \in ChannelIds
               PROVE  DataLane(up'[session], d.id, Len(got[d.id].up) + 1 .. sent[d.id].up)
    BY DEF UpLane
  <2>1. d \in backChannels[session]
    BY DEF Wired
  <2> QED BY <1>2, <2>1 DEF DataInv, UpLane, Calm
<1>10. NoGap'
  BY DEF DataInv, NoGap
<1> QED BY <1>1, <1>3, <1>4, <1>5, <1>7, <1>8, <1>9, <1>10 DEF DataInv

\* What is sent arrives on the link of the latest session or nowhere.
LEMMA SendUpCarries ==
  ASSUME TypeOK, NEW ms \in Seq(Messages), SendUp(ms), readyState = "open" => session \in Sessions
  PROVE  /\ \A s \in Sessions : s # session => up'[s] = up[s]
         /\ \A s \in Sessions : link[s] # "up" => up'[s] = up[s]
         /\ Wired => up'[session] = IF readyState = "open" THEN up[session] \o ms ELSE up[session]
BY DEF TypeOK, SendUp, Carries, Wired

LEMMA SendDownCarries ==
  ASSUME TypeOK, NEW s \in Sessions, NEW ms \in Seq(Messages), SendDown(s, ms)
  PROVE  /\ \A t \in Sessions : t # s => down'[t] = down[t]
         /\ \A t \in Sessions : link[t] # "up" => down'[t] = down[t]
         /\ link[s] = "up" => down'[s] = IF socket[s] = "open" THEN down[s] \o ms ELSE down[s]
BY DEF TypeOK, SendDown, Carries

LEMMA AskedBefore ==
  ASSUME IInv
  PROVE  \A s \in Sessions : up[s] \in Seq(Messages) /\ down[s] \in Seq(Messages)
           /\ \A i : Has(up[s], "open", i) => i \in Nat /\ i < channelIdSeq
<1> SUFFICES ASSUME NEW s \in Sessions, NEW i, Has(up[s], "open", i)
             PROVE  i \in Nat /\ i < channelIdSeq
  BY DEF IInv, TypeOK
<1>1. PICK k \in DOMAIN up[s] : up[s][k].kind = "open" /\ up[s][k].id = i
  BY DEF Has, Is
<1>2. up[s][k] \in Messages
  BY DEF IInv, TypeOK
<1>3. OnWire(s, i, up[s][k].path)
  BY <1>1 DEF OnWire
<1> QED BY <1>1, <1>2, <1>3 DEF IInv, Taken, Messages

\* The channels and opens of a step have new ids, each its own.
LEMMA NewOpens ==
  ASSUME channelIdSeq \in Nat, NEW ps \in Seq(Paths), channelIdSeq' = channelIdSeq + Len(ps)
  PROVE  /\ OpenMessages(ps) \in Seq(Messages) /\ channelIdSeq' >= channelIdSeq
         /\ \A j \in DOMAIN OpenMessages(ps) :
              /\ OpenMessages(ps)[j].id >= channelIdSeq /\ OpenMessages(ps)[j].id < channelIdSeq'
              /\ OpenMessages(ps)[j].kind = "open"
              /\ \A l \in DOMAIN OpenMessages(ps) :
                   OpenMessages(ps)[l].id = OpenMessages(ps)[j].id => l = j
         /\ \A c \in NewChannels(ps) :
              c.id \in Nat /\ c.id >= channelIdSeq /\ c.id < channelIdSeq' /\ ~c.opened
         /\ \A c, d \in NewChannels(ps) : c.id = d.id => c = d
<1>1. /\ NewChannels(ps) \subseteq Channel
      /\ \A c \in NewChannels(ps) :
           \E i \in DOMAIN ps : c.id = NewId(i) /\ c.path = ps[i] /\ ~c.opened
      /\ OpenMessages(ps) \in Seq(Messages)
      /\ DOMAIN OpenMessages(ps) = DOMAIN ps
      /\ \A i \in DOMAIN ps : OpenMessages(ps)[i] = OpenMessage(NewId(i), ps[i])
      /\ \A i \in DOMAIN ps :
           NewId(i) \in Nat /\ channelIdSeq <= NewId(i) /\ NewId(i) < channelIdSeq + Len(ps)
      /\ \A i, j \in DOMAIN ps : NewId(i) = NewId(j) => i = j
  BY NewOnes DEF OpenMessages
<1>2. \A j \in DOMAIN ps : OpenMessages(ps)[j].id = NewId(j) /\ OpenMessages(ps)[j].kind = "open"
  BY <1>1 DEF OpenMessage
<1>3. \A c, d \in NewChannels(ps) : c.id = d.id => c = d
  <2> SUFFICES ASSUME NEW c \in NewChannels(ps), NEW d \in NewChannels(ps), c.id = d.id
               PROVE  c = d
    OBVIOUS
  <2>1. c.path = d.path /\ c.opened = d.opened
    <3>1. PICK i \in DOMAIN ps : c.id = NewId(i) /\ c.path = ps[i] /\ ~c.opened
      BY <1>1
    <3>2. PICK j \in DOMAIN ps : d.id = NewId(j) /\ d.path = ps[j] /\ ~d.opened
      BY <1>1
    <3>3. i = j
      BY <1>1, <3>1, <3>2
    <3>4. c.opened \in BOOLEAN /\ d.opened \in BOOLEAN
      BY <1>1 DEF Channel
    <3> QED BY <3>1, <3>2, <3>3, <3>4
  <2>2. c \in Channel /\ d \in Channel
    BY <1>1
  <2> QED BY <2>1, <2>2 DEF Channel
<1>4. channelIdSeq' >= channelIdSeq
  OBVIOUS
<1>5. \A c \in NewChannels(ps) :
        c.id \in Nat /\ c.id >= channelIdSeq /\ c.id < channelIdSeq' /\ ~c.opened
  BY <1>1
<1>6. \A j \in DOMAIN OpenMessages(ps) :
        /\ OpenMessages(ps)[j].id >= channelIdSeq /\ OpenMessages(ps)[j].id < channelIdSeq'
        /\ OpenMessages(ps)[j].kind = "open"
        /\ \A l \in DOMAIN OpenMessages(ps) :
             OpenMessages(ps)[l].id = OpenMessages(ps)[j].id => l = j
  BY <1>1, <1>2
<1> QED BY <1>1, <1>3, <1>4, <1>5, <1>6

\* A list of opens, or of other messages than data and announcements, is appended.
LEMMA AppendCalm ==
  ASSUME IInv, NEW s \in Sessions, NEW ms \in Seq(Messages),
         \A j \in DOMAIN ms : ms[j].kind \notin {"ready", "data"},
         \A j \in DOMAIN ms : ms[j].kind = "open" =>
           /\ ms[j].id >= channelIdSeq /\ ms[j].id < channelIdSeq'
           /\ \A l \in DOMAIN ms : ms[l].kind = "open" /\ ms[l].id = ms[j].id => l = j
  PROVE  /\ Calm(up[s], up[s] \o ms) /\ Opened(up[s], up[s] \o ms)
         /\ Calm(down[s], down[s] \o ms)
<1>1. channelIdSeq \in Nat
  BY DEF IInv, TypeOK
<1> QED BY <1>1, AskedBefore, CalmAppend, OpenedAppend

\* A channel is closed and perhaps opened again: no data move.
LEMMA CloseCalm ==
  ASSUME IInv, DataInv, NEW c \in channels, NEW closedHere, CloseAndReopen(c, closedHere)
  PROVE  /\ channelIdSeq' >= channelIdSeq
         /\ \A d \in channels' :
              \/ d \in channels
              \/ d.id >= channelIdSeq /\ d.id < channelIdSeq' /\ ~d.opened
         /\ \A b, d \in channels' : b.id = d.id => b = d
         /\ \A s \in Sessions : link[s] # "up" => up'[s] = up[s]
         /\ Wired => \E ms \in Seq(Messages) :
              /\ up'[session] = up[session] \o ms \/ up'[session] = up[session]
              /\ \A j \in DOMAIN ms : ms[j].kind \notin {"ready", "data"}
              /\ \A j \in DOMAIN ms : ms[j].kind = "open" =>
                   /\ ms[j].id >= channelIdSeq /\ ms[j].id < channelIdSeq'
                   /\ \A l \in DOMAIN ms : ms[l].kind = "open" /\ ms[l].id = ms[j].id => l = j
<1> DEFINE again == IF c.path \in PathsToReopen({c}) THEN <<c.path>> ELSE <<>>
           close == IF c.opened THEN <<Message("close", c.id)>> ELSE <<>>
           ms == IF closedHere THEN close \o OpenMessages(again) ELSE OpenMessages(again) \o close
<1>1. /\ c.path \in Paths /\ c.id \in Nat /\ channelIdSeq \in Nat /\ TypeOK
      /\ readyState = "open" => session \in Sessions
      /\ \A d \in channels : d.id \in Nat /\ d.id < channelIdSeq
  BY DEF IInv, TypeOK, Placed, Channel
<1>2. again \in Seq(Paths)
  BY <1>1, PathSeq
<1>3. /\ channels' = (channels \ {c}) \cup NewChannels(again)
      /\ channelIdSeq' = channelIdSeq + Len(again) /\ SendUp(ms)
  BY DEF CloseAndReopen, Remaining
<1>4. close \in Seq(Messages) /\ \A j \in DOMAIN close : close[j].kind = "close"
  <2>1. Message("close", c.id) \in Messages /\ Message("close", c.id).kind = "close"
    BY <1>1, MessageTypes DEF Message
  <2>2. CASE c.opened
    BY <2>1, <2>2
  <2>3. CASE ~c.opened
    BY <2>3
  <2> QED BY <2>2, <2>3
<1> DEFINE os == OpenMessages(again)
<1> HIDE DEF again, close
<1>5. /\ os \in Seq(Messages) /\ channelIdSeq' >= channelIdSeq
      /\ \A j \in DOMAIN os :
           /\ os[j].id >= channelIdSeq /\ os[j].id < channelIdSeq' /\ os[j].kind = "open"
           /\ \A l \in DOMAIN os : os[l].id = os[j].id => l = j
      /\ \A d \in NewChannels(again) :
           d.id \in Nat /\ d.id >= channelIdSeq /\ d.id < channelIdSeq' /\ ~d.opened
      /\ \A b, d \in NewChannels(again) : b.id = d.id => b = d
  BY <1>1, <1>2, <1>3, NewOpens
<1> HIDE DEF os
<1>6. ms = close \o os \/ ms = os \o close
  BY DEF os
<1>7. ASSUME NEW ns, ns = close \o os \/ ns = os \o close
      PROVE  /\ ns \in Seq(Messages)
             /\ \A j \in DOMAIN ns : ns[j].kind \in {"open", "close"}
             /\ \A j \in DOMAIN ns : ns[j].kind = "open" =>
                  /\ ns[j].id >= channelIdSeq /\ ns[j].id < channelIdSeq'
                  /\ \A l \in DOMAIN ns : ns[l].kind = "open" /\ ns[l].id = ns[j].id => l = j
  <2>1. CASE ns = close \o os
    <3>1. /\ ns \in Seq(Messages)
          /\ \A k \in DOMAIN ns :
               \/ ns[k].kind = "close"
               \/ /\ k - Len(close) \in DOMAIN os /\ ns[k] = os[k - Len(close)]
                  /\ k \in Nat /\ Len(close) \in Nat
      BY <1>4, <1>5, <2>1, AppendAt
    <3>2. \A k \in DOMAIN ns : ns[k].kind \in {"open", "close"}
      BY <1>5, <3>1
    <3>3. ASSUME NEW j \in DOMAIN ns, ns[j].kind = "open"
          PROVE  /\ ns[j].id >= channelIdSeq /\ ns[j].id < channelIdSeq'
                 /\ \A l \in DOMAIN ns : ns[l].kind = "open" /\ ns[l].id = ns[j].id => l = j
      <4>1. j - Len(close) \in DOMAIN os /\ ns[j] = os[j - Len(close)] /\ j \in Nat /\ Len(close) \in Nat
        BY <3>1, <3>3
      <4>2. \A l \in DOMAIN ns : ns[l].kind = "open" /\ ns[l].id = ns[j].id =>
              l \in Nat /\ l - Len(close) = j - Len(close)
        BY <1>5, <3>1, <4>1
      <4> QED BY <1>5, <4>1, <4>2
    <3> QED BY <3>1, <3>2, <3>3
  <2>2. CASE ns = os \o close
    <3>1. /\ ns \in Seq(Messages)
          /\ \A k \in DOMAIN ns : ns[k].kind = "close" \/ (k \in DOMAIN os /\ ns[k] = os[k])
      BY <1>4, <1>5, <2>2, AppendAt
    <3> QED BY <1>5, <3>1
  <2> QED BY <1>7, <2>1, <2>2
<1> HIDE DEF ms
<1>8. /\ \A s \in Sessions : link[s] # "up" => up'[s] = up[s]
      /\ Wired => up'[session] = up[session] \o ms \/ up'[session] = up[session]
  BY <1>1, <1>3, <1>6, <1>7, SendUpCarries
<1>9. \A b, d \in channels' : b.id = d.id => b = d
  BY <1>1, <1>3, <1>5 DEF DataInv, OwnIds
<1> QED BY <1>3, <1>5, <1>6, <1>7, <1>8, <1>9

\* A step that leaves the channels, or closes some, and takes no data off the link.
LEMMA QuietCalm ==
  ASSUME IInv, DataInv, TypeOK',
         UNCHANGED <<readyState, session, channelIdSeq, channels, sent, got>>,
         \A s \in Sessions :
           \/ link'[s] = link[s]
           \/ link'[s] # "up" /\ up'[s] = <<>> /\ down'[s] = <<>>,
         \A s \in Sessions : link[s] # "up" => up'[s] = up[s] /\ down'[s] = down[s],
         \A s \in Sessions : backChannels'[s] \subseteq backChannels[s],
         Wired' => Calm(down[session], down'[session])
                     /\ Calm(up[session], up'[session]) /\ Opened(up[session], up'[session])
  PROVE  DataInv'
<1>1. channelIdSeq \in Nat
  BY DEF IInv, TypeOK
<1>2. readyState' = "closed" => \A s \in Sessions : link'[s] # "up"
  BY DEF DataInv, Lone
<1>3. \A c, d \in channels' : c.id = d.id => c = d
  BY DEF DataInv, OwnIds
<1> QED BY <1>1, <1>2, <1>3, CalmStep

LEMMA ListenCalm ==
  ASSUME IInv, DataInv, TypeOK', NEW p \in Paths, Listen(p)
  PROVE  DataInv'
<1>1. UNCHANGED <<readyState, session, link, down, backChannels, sent, got>>
  BY DEF Listen, backend, history
<1>2. CASE readyState = "open"
  <2> DEFINE ps == <<p>>
             os == OpenMessages(ps)
  <2>1. /\ channels' = channels \cup NewChannels(ps) /\ channelIdSeq' = channelIdSeq + 1
        /\ SendUp(os) /\ session \in Sessions
    BY <1>2 DEF Listen, IInv, Placed
  <2>2. ps \in Seq(Paths) /\ Len(ps) = 1
    BY PathSeq
  <2>3. TypeOK /\ channelIdSeq \in Nat /\ \A c \in channels : c.id \in Nat /\ c.id < channelIdSeq
    BY DEF IInv, TypeOK, Channel
  <2> HIDE DEF ps
  <2>4. /\ os \in Seq(Messages) /\ channelIdSeq' >= channelIdSeq
        /\ \A j \in DOMAIN os :
             /\ os[j].id >= channelIdSeq /\ os[j].id < channelIdSeq' /\ os[j].kind = "open"
             /\ \A l \in DOMAIN os : os[l].id = os[j].id => l = j
        /\ \A c \in NewChannels(ps) :
             c.id \in Nat /\ c.id >= channelIdSeq /\ c.id < channelIdSeq' /\ ~c.opened
        /\ \A c, d \in NewChannels(ps) : c.id = d.id => c = d
    BY <2>1, <2>2, <2>3, NewOpens
  <2> HIDE DEF os
  <2>5. Calm(up[session], up[session] \o os) /\ Opened(up[session], up[session] \o os)
    BY <2>1, <2>4, AppendCalm
  <2>6. /\ \A s \in Sessions : link[s] # "up" => up'[s] = up[s]
        /\ Wired => up'[session] = up[session] \o os
    BY <1>2, <2>1, <2>3, <2>4, SendUpCarries
  <2>7. \A c, d \in channels' : c.id = d.id => c = d
    BY <2>1, <2>3, <2>4 DEF DataInv, OwnIds
  <2>8. Wired' => Wired
    BY <1>1 DEF Wired
  <2> QED BY <1>1, <1>2, <2>1, <2>4, <2>5, <2>6, <2>7, <2>8, CalmSame, CalmStep
<1>3. CASE readyState # "open"
  <2>1. UNCHANGED <<channels, channelIdSeq, up>>
    BY <1>3 DEF Listen
  <2> QED BY <1>1, <2>1, CalmSame, QuietCalm
<1> QED BY <1>2, <1>3

LEMMA SocketCalm ==
  ASSUME IInv, DataInv, TypeOK', Connect \/ SocketOpen \/ SocketClose
  PROVE  DataInv'
<1>0. TypeOK /\ channelIdSeq \in Nat /\ \A c \in channels : c.id \in Nat /\ c.id < channelIdSeq
  BY DEF IInv, TypeOK, Channel
<1>1. ASSUME Connect PROVE DataInv'
  <2>1. /\ session + 1 \in Sessions /\ session' = session + 1 /\ readyState' = "connecting"
        /\ readyState = "closed" /\ channels = {}
        /\ link' = [link EXCEPT ![session + 1] = "up"]
        /\ backChannels' = [backChannels EXCEPT ![session + 1] = {}]
        /\ UNCHANGED <<channelIdSeq, channels, up, down, sent, got>>
    BY <1>1 DEF Connect, IInv, Placed, history
  <2>2. \A s \in Sessions : link[s] # "up" /\ up[s] = <<>> /\ down[s] = <<>>
    BY <2>1 DEF DataInv, Lone
  <2>3. /\ \A s \in Sessions : link'[s] = IF s = session' THEN "up" ELSE link[s]
        /\ backChannels'[session'] = {}
    BY <1>0, <2>1 DEF TypeOK
  <2>4. up'[session'] = <<>> /\ down'[session'] = <<>> /\ session' \in Sessions
    BY <2>1, <2>2
  <2>5. \A k, i : ~Has(<<>>, k, i)
    BY DEF Has
  <2>6. Lone' /\ OwnIds'
    BY <2>1, <2>2, <2>3 DEF Lone, OwnIds
  <2>7. Unused' /\ Opening'
    BY <2>1, <2>4, <2>5 DEF DataInv, Unused, Opening
  <2>8. Announced' /\ DownLane' /\ UpLane'
    BY <2>1, <2>3 DEF Announced, DownLane, UpLane
  <2>9. NoGap'
    BY <2>1 DEF DataInv, NoGap
  <2> QED BY <2>6, <2>7, <2>8, <2>9 DEF DataInv
<1>2. ASSUME SocketOpen PROVE DataInv'
  <2>1. PICK ps \in Orders(openListeners) :
          /\ channels' = channels \cup NewChannels(ps)
          /\ channelIdSeq' = channelIdSeq + Len(ps)
          /\ up' = [up EXCEPT ![session] = @ \o OpenMessages(ps)]
    BY <1>2 DEF SocketOpen
  <2>2. /\ readyState = "connecting" /\ channels = {} /\ session \in Sessions
        /\ link[session] = "up" /\ readyState' = "open"
        /\ UNCHANGED <<session, link, down, backChannels, sent, got>>
    BY <1>2 DEF SocketOpen, IInv, Placed, Carries, backend, history
  <2>3. ps \in Seq(Paths)
    BY OrdersListed, <1>0 DEF TypeOK
  <2> DEFINE os == OpenMessages(ps)
  <2>4. /\ os \in Seq(Messages) /\ channelIdSeq' >= channelIdSeq
        /\ \A j \in DOMAIN os :
             /\ os[j].id >= channelIdSeq /\ os[j].id < channelIdSeq' /\ os[j].kind = "open"
             /\ \A l \in DOMAIN os : os[l].id = os[j].id => l = j
        /\ \A c \in NewChannels(ps) :
             c.id \in Nat /\ c.id >= channelIdSeq /\ c.id < channelIdSeq' /\ ~c.opened
        /\ \A c, d \in NewChannels(ps) : c.id = d.id => c = d
    BY <1>0, <2>1, <2>3, NewOpens
  <2>5. up' = [up EXCEPT ![session] = @ \o os]
    BY <2>1
  <2> HIDE DEF os
  <2>6. Calm(up[session], up[session] \o os) /\ Opened(up[session], up[session] \o os)
    BY <2>2, <2>4, AppendCalm
  <2>7. \A s \in Sessions : up'[s] = IF s = session THEN up[session] \o os ELSE up[s]
    BY <1>0, <2>5 DEF TypeOK
  <2>8. channels' = NewChannels(ps)
    BY <2>1, <2>2
  <2> QED BY <2>2, <2>4, <2>6, <2>7, <2>8, CalmSame, CalmStep
<1>3. ASSUME SocketClose PROVE DataInv'
  <2>1. /\ channels' = {} /\ link[session] # "up"
        /\ UNCHANGED <<session, channelIdSeq, link, up, down, backChannels, sent, got>>
    BY <1>3 DEF SocketClose, Remaining, Carries, network, backend, history
  <2>2. \A s \in Sessions : link[s] # "up"
    BY <2>1 DEF DataInv, Lone
  <2> QED BY <1>0, <2>1, <2>2, CalmSame, CalmStep
<1> QED BY <1>1, <1>2, <1>3

LEMMA ServiceClosesCalm ==
  ASSUME IInv, DataInv, TypeOK', NEW c \in channels, ServiceCloses(c)
  PROVE  DataInv'
<1>1. /\ CloseAndReopen(c, TRUE)
      /\ UNCHANGED <<readyState, session, link, down, backChannels, sent, got>>
  BY DEF ServiceCloses, backend
<1>2. /\ channelIdSeq' >= channelIdSeq
      /\ \A d \in channels' :
           \/ d \in channels
           \/ d.id >= channelIdSeq /\ d.id < channelIdSeq' /\ ~d.opened
      /\ \A b, d \in channels' : b.id = d.id => b = d
      /\ \A s \in Sessions : link[s] # "up" => up'[s] = up[s]
      /\ Wired => \E ms \in Seq(Messages) :
           /\ up'[session] = up[session] \o ms \/ up'[session] = up[session]
           /\ \A j \in DOMAIN ms : ms[j].kind \notin {"ready", "data"}
           /\ \A j \in DOMAIN ms : ms[j].kind = "open" =>
                /\ ms[j].id >= channelIdSeq /\ ms[j].id < channelIdSeq'
                /\ \A l \in DOMAIN ms : ms[l].kind = "open" /\ ms[l].id = ms[j].id => l = j
  BY <1>1, CloseCalm
<1>3. Wired' => Calm(up[session], up'[session]) /\ Opened(up[session], up'[session])
  <2> SUFFICES ASSUME Wired PROVE Calm(up[session], up'[session]) /\ Opened(up[session], up'[session])
    BY <1>1 DEF Wired
  <2>1. session \in Sessions
    BY DEF Wired
  <2> QED BY <1>2, <2>1, AppendCalm, CalmSame
<1>4. readyState' = "closed" => \A s \in Sessions : link'[s] # "up"
  BY <1>1 DEF DataInv, Lone
<1> QED BY <1>1, <1>2, <1>3, <1>4, CalmSame, CalmStep

LEMMA BackServiceClosesCalm ==
  ASSUME IInv, DataInv, TypeOK', NEW s \in Sessions, NEW c \in backChannels[s], BackServiceCloses(s, c)
  PROVE  DataInv'
<1> DEFINE ms == <<Message("close", c.id)>>
<1>1. /\ backChannels' = [backChannels EXCEPT ![s] = @ \ {c}] /\ SendDown(s, ms)
      /\ UNCHANGED <<readyState, session, channelIdSeq, channels, link, up, sent, got>>
      /\ TypeOK /\ c.id \in Nat
  BY DEF BackServiceCloses, browserVars, IInv, TypeOK, BackChannel
<1>2. ms \in Seq(Messages) /\ \A j \in DOMAIN ms : ms[j].kind = "close"
  <2>1. Message("close", c.id) \in Messages /\ Message("close", c.id).kind = "close"
    BY <1>1, MessageTypes DEF Message
  <2> QED BY <2>1
<1> HIDE DEF ms
<1>3. /\ \A t \in Sessions : link[t] # "up" => down'[t] = down[t]
      /\ \A t \in Sessions : down'[t] = down[t] \/ down'[t] = down[t] \o ms
  BY <1>1, <1>2, SendDownCarries DEF SendDown, TypeOK
<1>4. Wired' => Calm(down[session], down'[session])
  BY <1>1, <1>2, <1>3, AppendCalm, CalmSame DEF Wired
<1>5. \A t \in Sessions : backChannels'[t] \subseteq backChannels[t]
  BY <1>1 DEF TypeOK
<1> QED BY <1>1, <1>3, <1>4, <1>5, CalmSame, QuietCalm

LEMMA BackSocketCalm ==
  ASSUME IInv, DataInv, TypeOK', NEW s \in Sessions,
         BackSocketClose(s) \/ CheckAlive(s) \/ LinkBreaks(s)
  PROVE  DataInv'
<1>0. TypeOK /\ 0 \in Nat
  BY DEF IInv
<1>1. ASSUME CutLink(s), UNCHANGED <<readyState, session, channelIdSeq, channels, sent, got, backChannels>>
      PROVE  DataInv'
  <2>1. \A t \in Sessions :
          IF t = s THEN link'[t] # "up" /\ up'[t] = <<>> /\ down'[t] = <<>>
                   ELSE link'[t] = link[t] /\ up'[t] = up[t] /\ down'[t] = down[t]
    BY <1>0, <1>1 DEF CutLink, TypeOK
  <2>2. \A t \in Sessions : link[t] # "up" => up'[t] = up[t] /\ down'[t] = down[t]
    BY <2>1 DEF DataInv, Lone
  <2>3. Wired' => up'[session] = up[session] /\ down'[session] = down[session]
    BY <1>1, <2>1 DEF Wired
  <2> QED BY <1>1, <2>1, <2>2, <2>3, CalmSame, QuietCalm
<1>2. ASSUME BackSocketClose(s) PROVE DataInv'
  <2>1. /\ backChannels' = [backChannels EXCEPT ![s] = {}]
        /\ UNCHANGED <<readyState, session, channelIdSeq, channels, link, up, down, sent, got>>
    BY <1>2 DEF BackSocketClose, NoBackChannels, browserVars, network, history
  <2>2. \A t \in Sessions : backChannels'[t] \subseteq backChannels[t]
    BY <1>0, <2>1 DEF TypeOK
  <2> QED BY <2>1, <2>2, CalmSame, QuietCalm
<1>3. ASSUME CheckAlive(s) PROVE DataInv'
  <2> DEFINE ms == <<Message("ping", 0)>>
  <2>1. /\ UNCHANGED <<readyState, session, channelIdSeq, channels, sent, got, backChannels>>
        /\ (SendDown(s, ms) /\ UNCHANGED <<link, up>>) \/ CutLink(s)
    BY <1>3 DEF CheckAlive, browserVars, history
  <2>2. ms \in Seq(Messages) /\ \A j \in DOMAIN ms : ms[j].kind = "ping"
    <3>1. Message("ping", 0) \in Messages /\ Message("ping", 0).kind = "ping"
      BY <1>0, MessageTypes DEF Message
    <3> QED BY <3>1
  <2> HIDE DEF ms
  <2>3. CASE SendDown(s, ms) /\ UNCHANGED <<link, up>>
    <3>1. /\ \A t \in Sessions : link[t] # "up" => down'[t] = down[t]
          /\ \A t \in Sessions : down'[t] = down[t] \/ down'[t] = down[t] \o ms
      BY <1>0, <2>2, <2>3, SendDownCarries DEF SendDown, TypeOK
    <3>2. Wired' => Calm(down[session], down'[session])
      BY <2>1, <2>2, <2>3, <3>1, AppendCalm, CalmSame DEF Wired
    <3> QED BY <2>1, <2>3, <3>1, <3>2, CalmSame, QuietCalm
  <2> QED BY <1>1, <2>1, <2>3
<1>4. ASSUME LinkBreaks(s) PROVE DataInv'
  BY <1>1, <1>4 DEF LinkBreaks, browserVars, backend, history
<1> QED BY <1>2, <1>3, <1>4

-----------------------------------------------------------------------------
(* The steps that move data.                                               *)

\* What is left under way for i when the first message is taken off.
LEMMA TailLane ==
  ASSUME NEW q \in Seq(Messages), q # <<>>, NEW i
  PROVE  /\ ~Is(Head(q), "ready", i) /\ Has(q, "ready", i) => Has(Tail(q), "ready", i)
         /\ ~Is(Head(q), "ready", i) /\ ReadyFirst(q, i) => ReadyFirst(Tail(q), i)
         /\ ReadyFirst(q, i) => ~Is(Head(q), "data", i)
         /\ ~Is(Head(q), "data", i) => \A C : DataLane(q, i, C) => DataLane(Tail(q), i, C)
         /\ Is(Head(q), "data", i) => \A m, n \in Nat : DataLane(q, i, m + 1 .. n) =>
              /\ Head(q).content = m + 1 /\ m + 1 <= n
              /\ DataLane(Tail(q), i, (m + 1) + 1 .. n)
<1> DEFINE r == Tail(q)
           h == Head(q)
<1>1. /\ \A k \in DOMAIN r : k \in Nat /\ k >= 1 /\ k + 1 \in DOMAIN q /\ r[k] = q[k + 1]
      /\ \A k \in DOMAIN q : k \in Nat /\ k >= 1
      /\ \A k \in DOMAIN q : k # 1 => k - 1 \in DOMAIN r /\ r[k - 1] = q[k]
      /\ 1 \in DOMAIN q /\ h = q[1]
      /\ \A k \in DOMAIN q : q[k] \in Messages
  BY TailAt
<1> HIDE DEF r, h
<1>2. ASSUME ~Is(h, "ready", i), Has(q, "ready", i) PROVE Has(r, "ready", i)
  BY <1>1, <1>2 DEF Has
<1>3. ASSUME ReadyFirst(q, i) PROVE ~Is(h, "data", i)
  BY <1>1, <1>3 DEF ReadyFirst
<1>4. ASSUME ~Is(h, "ready", i), ReadyFirst(q, i) PROVE ReadyFirst(r, i)
  <2> SUFFICES ASSUME NEW k \in DOMAIN r, Is(r[k], "data", i)
               PROVE  \E j \in DOMAIN r : j < k /\ Is(r[j], "ready", i)
    BY DEF ReadyFirst
  <2>1. k + 1 \in DOMAIN q /\ Is(q[k + 1], "data", i) /\ k \in Nat
    BY <1>1
  <2>2. PICK j \in DOMAIN q : j < k + 1 /\ Is(q[j], "ready", i)
    BY <1>4, <2>1 DEF ReadyFirst
  <2>3. j \in Nat /\ j - 1 \in DOMAIN r /\ r[j - 1] = q[j] /\ j - 1 < k
    BY <1>1, <1>4, <2>1, <2>2
  <2> QED BY <2>2, <2>3
<1>5. ASSUME NEW C, DataLane(q, i, C)
      PROVE  /\ \A k \in DOMAIN r : Is(r[k], "data", i) => r[k].content \in C
             /\ \A x \in C :
                  \/ \E k \in DOMAIN r : Is(r[k], "data", i) /\ r[k].content = x
                  \/ Is(h, "data", i) /\ h.content = x
             /\ \A k, l \in DOMAIN r : Is(r[k], "data", i) /\ Is(r[l], "data", i) /\ k < l =>
                  r[k].content < r[l].content
             /\ Is(h, "data", i) =>
                  /\ h.content \in C
                  /\ \A k \in DOMAIN r : Is(r[k], "data", i) => h.content < r[k].content
  <2>1. \A k \in DOMAIN r : Is(r[k], "data", i) => r[k].content \in C
    BY <1>1, <1>5 DEF DataLane
  <2>2. ASSUME NEW x \in C
        PROVE  \/ \E k \in DOMAIN r : Is(r[k], "data", i) /\ r[k].content = x
               \/ Is(h, "data", i) /\ h.content = x
    <3>1. PICK k \in DOMAIN q : Is(q[k], "data", i) /\ q[k].content = x
      BY <1>5, <2>2 DEF DataLane
    <3> QED BY <1>1, <3>1
  <2>3. ASSUME NEW k \in DOMAIN r, NEW l \in DOMAIN r, Is(r[k], "data", i), Is(r[l], "data", i), k < l
        PROVE  r[k].content < r[l].content
    <3>1. k + 1 \in DOMAIN q /\ l + 1 \in DOMAIN q /\ r[k] = q[k + 1] /\ r[l] = q[l + 1] /\ k + 1 < l + 1
      BY <1>1, <2>3
    <3> QED BY <1>5, <2>3, <3>1 DEF DataLane
  <2>4. ASSUME Is(h, "data", i)
        PROVE  /\ h.content \in C
               /\ \A k \in DOMAIN r : Is(r[k], "data", i) => h.content < r[k].content
    <3>1. \A k \in DOMAIN r : k + 1 \in DOMAIN q /\ r[k] = q[k + 1] /\ 1 < k + 1
      BY <1>1
    <3> QED BY <1>1, <1>5, <2>4, <3>1 DEF DataLane
  <2> QED BY <2>1, <2>2, <2>3, <2>4
<1>6. ASSUME ~Is(h, "data", i), NEW C, DataLane(q, i, C) PROVE DataLane(r, i, C)
  BY <1>5, <1>6 DEF DataLane
<1>7. ASSUME Is(h, "data", i), NEW m \in Nat, NEW n \in Nat, DataLane(q, i, m + 1 .. n)
      PROVE  h.content = m + 1 /\ m + 1 <= n /\ DataLane(r, i, (m + 1) + 1 .. n)
  <2> DEFINE C == m + 1 .. n
  <2>1. /\ \A k \in DOMAIN r : Is(r[k], "data", i) => r[k].content \in C
        /\ \A x \in C :
             \/ \E k \in DOMAIN r : Is(r[k], "data", i) /\ r[k].content = x
             \/ h.content = x
        /\ \A k, l \in DOMAIN r : Is(r[k], "data", i) /\ Is(r[l], "data", i) /\ k < l =>
             r[k].content < r[l].content
        /\ h.content \in C
        /\ \A k \in DOMAIN r : Is(r[k], "data", i) => h.content < r[k].content
    BY <1>5, <1>7
  <2>2. h.content \in Int /\ m + 1 <= h.content /\ h.content <= n /\ m + 1 \in C
    BY <2>1
  <2>3. h.content = m + 1
    <3>1. CASE \E k \in DOMAIN r : Is(r[k], "data", i) /\ r[k].content = m + 1
      BY <2>1, <2>2, <3>1
    <3> QED BY <2>1, <2>2, <3>1
  <2>4. \A k \in DOMAIN r : Is(r[k], "data", i) => r[k].content \in (m + 1) + 1 .. n
    <3>1. \A k \in DOMAIN r : Is(r[k], "data", i) =>
            r[k].content \in Int /\ r[k].content <= n /\ m + 1 < r[k].content
      BY <2>1, <2>3
    <3> QED BY <3>1
  <2>5. \A x \in (m + 1) + 1 .. n : \E k \in DOMAIN r : Is(r[k], "data", i) /\ r[k].content = x
    <3>1. \A x \in (m + 1) + 1 .. n : x \in C /\ x # m + 1
      OBVIOUS
    <3> QED BY <2>1, <2>3, <3>1
  <2> QED BY <2>1, <2>2, <2>3, <2>4, <2>5 DEF DataLane
<1> HIDE DEF DataLane, ReadyFirst, Has, Is
<1>8. \A m, n \in Nat : Is(h, "data", i) /\ DataLane(q, i, m + 1 .. n) =>
        h.content = m + 1 /\ m + 1 <= n /\ DataLane(r, i, (m + 1) + 1 .. n)
  BY <1>7
<1>9. ~Is(h, "data", i) => \A C : DataLane(q, i, C) => DataLane(r, i, C)
  BY <1>6
<1> QED BY <1>2, <1>3, <1>4, <1>8, <1>9 DEF r, h

\* Under way is r, which is q and the data for i after the n-th.
MoreData(q, r, i, n) ==
  /\ \A m \in Nat : m <= n /\ DataLane(q, i, m + 1 .. n) => DataLane(r, i, m + 1 .. n + 1)
  /\ \A j, C : j # i /\ DataLane(q, j, C) => DataLane(r, j, C)
  /\ \A j : ReadyFirst(q, j) /\ (j = i => Has(q, "ready", i)) => ReadyFirst(r, j)
  /\ \A j : Has(r, "ready", j) <=> Has(q, "ready", j)
  /\ \A j : Has(r, "data", j) => Has(q, "data", j) \/ j = i
  /\ \A j : Has(r, "open", j) => Has(q, "open", j)
  /\ \A j : OpenOnce(q, j) => OpenOnce(r, j)

\* The next data for i are sent.
LEMMA DataAppended ==
  ASSUME NEW q \in Seq(Messages), NEW i \in Nat, NEW n \in Nat,
         NEW r, r = q \o <<DataMessage(i, n + 1)>>
  PROVE  MoreData(q, r, i, n)
<1> DEFINE d == DataMessage(i, n + 1)
           ms == <<d>>
           e == Len(q) + 1
<1>1. d \in Messages /\ d.kind = "data" /\ d.id = i /\ d.content = n + 1
  BY MessageTypes DEF DataMessage
<1>0. r = q \o ms
  OBVIOUS
<1> HIDE DEF d
<1>2. /\ \A k \in DOMAIN q : k \in DOMAIN r /\ r[k] = q[k] /\ k < e /\ k \in Nat
      /\ e \in DOMAIN r /\ r[e] = d /\ e \in Nat
      /\ \A k \in DOMAIN r : (k \in DOMAIN q /\ k < e) \/ k = e
  BY <1>0, <1>1
<1> HIDE DEF e
<1>3. \A j : Is(d, "data", j) <=> j = i
  BY <1>1 DEF Is
<1>4. \A j : ~Is(d, "ready", j) /\ ~Is(d, "open", j)
  BY <1>1 DEF Is
<1>5. ASSUME NEW m \in Nat, m <= n, DataLane(q, i, m + 1 .. n)
      PROVE  DataLane(r, i, m + 1 .. n + 1)
  <2>1. \A k \in DOMAIN q : Is(q[k], "data", i) => q[k].content \in m + 1 .. n
    BY <1>5 DEF DataLane
  <2>2. \A k \in DOMAIN r : Is(r[k], "data", i) => r[k].content \in m + 1 .. n + 1
    BY <1>1, <1>2, <1>5, <2>1
  <2>3. ASSUME NEW x \in m + 1 .. n + 1
        PROVE  \E k \in DOMAIN r : Is(r[k], "data", i) /\ r[k].content = x
    <3>1. CASE x = n + 1
      BY <1>1, <1>2, <1>3, <3>1
    <3>2. CASE x \in m + 1 .. n
      <4>1. PICK k \in DOMAIN q : Is(q[k], "data", i) /\ q[k].content = x
        BY <1>5, <3>2 DEF DataLane
      <4> QED BY <1>2, <4>1
    <3>3. x = n + 1 \/ x \in m + 1 .. n
      OBVIOUS
    <3> QED BY <3>1, <3>2, <3>3
  <2>4. ASSUME NEW k \in DOMAIN r, NEW l \in DOMAIN r, Is(r[k], "data", i), Is(r[l], "data", i), k < l
        PROVE  r[k].content < r[l].content
    <3>1. k \in DOMAIN q /\ r[k] = q[k]
      BY <1>2, <2>4
    <3>2. CASE l = e
      <4>1. r[k].content \in m + 1 .. n
        BY <2>1, <2>4, <3>1
      <4> QED BY <1>1, <1>2, <3>2, <4>1
    <3>3. CASE l \in DOMAIN q
      BY <1>2, <1>5, <2>4, <3>1, <3>3 DEF DataLane
    <3> QED BY <1>2, <3>2, <3>3
  <2> QED BY <2>2, <2>3, <2>4 DEF DataLane
<1>6. \A j, C : j # i /\ DataLane(q, j, C) => DataLane(r, j, C)
  <2> SUFFICES ASSUME NEW j, NEW C, j # i, DataLane(q, j, C) PROVE DataLane(r, j, C)
    OBVIOUS
  <2>1. \A k \in DOMAIN r : Is(r[k], "data", j) => k \in DOMAIN q /\ r[k] = q[k]
    BY <1>2, <1>3
  <2>2. \A x \in C : \E k \in DOMAIN r : Is(r[k], "data", j) /\ r[k].content = x
    BY <1>2 DEF DataLane
  <2> QED BY <2>1, <2>2 DEF DataLane
<1>7. \A j : ReadyFirst(q, j) /\ (j = i => Has(q, "ready", i)) => ReadyFirst(r, j)
  <2> SUFFICES ASSUME NEW j, ReadyFirst(q, j), j = i => Has(q, "ready", i),
                      NEW k \in DOMAIN r, Is(r[k], "data", j)
               PROVE  \E l \in DOMAIN r : l < k /\ Is(r[l], "ready", j)
    BY DEF ReadyFirst
  <2>1. CASE k \in DOMAIN q
    BY <1>2, <2>1 DEF ReadyFirst
  <2>2. CASE k = e
    BY <1>2, <1>3, <2>2 DEF Has
  <2> QED BY <1>2, <2>1, <2>2
<1>8. /\ \A j : Has(r, "ready", j) <=> Has(q, "ready", j)
      /\ \A j : Has(r, "data", j) => Has(q, "data", j) \/ j = i
      /\ \A j : Has(r, "open", j) => Has(q, "open", j)
      /\ \A j : OpenOnce(q, j) => OpenOnce(r, j)
  <2>1. \A j : Has(r, "ready", j) <=> Has(q, "ready", j)
    BY <1>2, <1>4 DEF Has
  <2>2. \A j : Has(r, "data", j) => Has(q, "data", j) \/ j = i
    BY <1>2, <1>3 DEF Has
  <2>3. \A j : Has(r, "open", j) => Has(q, "open", j)
    BY <1>2, <1>4 DEF Has
  <2>4. \A j : OpenOnce(q, j) => OpenOnce(r, j)
    BY <1>2, <1>4 DEF OpenOnce
  <2> QED BY <2>1, <2>2, <2>3, <2>4
<1> HIDE DEF DataLane, ReadyFirst, Has, Is, OpenOnce
<1> QED BY <1>5, <1>6, <1>7, <1>8 DEF MoreData

\* Under way is r, which is q and the announcement of i.
Announcing(q, r, i) ==
  /\ \A j, C : DataLane(q, j, C) => DataLane(r, j, C)
  /\ \A j : ReadyFirst(q, j) => ReadyFirst(r, j)
  /\ \A j : Has(r, "ready", j) <=> Has(q, "ready", j) \/ j = i
  /\ \A j : Has(r, "data", j) => Has(q, "data", j)

\* A channel is announced.
LEMMA ReadyAppended ==
  ASSUME NEW q \in Seq(Messages), NEW i \in Nat, NEW r, r = q \o <<Message("ready", i)>>
  PROVE  Announcing(q, r, i)
<1> DEFINE d == Message("ready", i)
           ms == <<d>>
           e == Len(q) + 1
<1>1. d \in Messages /\ d.kind = "ready" /\ d.id = i
  BY MessageTypes DEF Message
<1>0. r = q \o ms
  OBVIOUS
<1> HIDE DEF d
<1>2. /\ \A k \in DOMAIN q : k \in DOMAIN r /\ r[k] = q[k]
      /\ e \in DOMAIN r /\ r[e] = d
      /\ \A k \in DOMAIN r : k \in DOMAIN q \/ k = e
  BY <1>0, <1>1
<1> HIDE DEF e
<1>3. \A j : (Is(d, "ready", j) <=> j = i) /\ ~Is(d, "data", j)
  BY <1>1 DEF Is
<1>4. \A j, C : DataLane(q, j, C) => DataLane(r, j, C)
  <2> SUFFICES ASSUME NEW j, NEW C, DataLane(q, j, C) PROVE DataLane(r, j, C)
    OBVIOUS
  <2>1. \A k \in DOMAIN r : Is(r[k], "data", j) => k \in DOMAIN q /\ r[k] = q[k]
    BY <1>2, <1>3
  <2>2. \A x \in C : \E k \in DOMAIN r : Is(r[k], "data", j) /\ r[k].content = x
    BY <1>2 DEF DataLane
  <2> QED BY <2>1, <2>2 DEF DataLane
<1>5. \A j : ReadyFirst(q, j) => ReadyFirst(r, j)
  BY <1>2, <1>3 DEF ReadyFirst
<1>6. \A j : Has(r, "ready", j) <=> Has(q, "ready", j) \/ j = i
  BY <1>2, <1>3 DEF Has
<1>7. \A j : Has(r, "data", j) => Has(q, "data", j)
  BY <1>2, <1>3 DEF Has
<1> HIDE DEF DataLane, ReadyFirst, Has, Is
<1> QED BY <1>4, <1>5, <1>6, <1>7 DEF Announcing

\* Numbers of data, sent and handled.
LEMMA Counts ==
  ASSUME TypeOK, NoGap
  PROVE  \A i \in ChannelIds :
           /\ i \in Nat /\ sent[i].up \in Nat /\ sent[i].down \in Nat
           /\ got[i].up \in Seq(Nat) /\ got[i].down \in Seq(Nat)
           /\ Len(got[i].up) \in Nat /\ Len(got[i].down) \in Nat
           /\ Len(got[i].up) <= sent[i].up /\ Len(got[i].down) <= sent[i].down
<1>1. \A i \in ChannelIds : i \in Int /\ 0 <= i
  BY DEF ChannelIds
<1>2. \A i \in ChannelIds : i \in Nat
  BY <1>1
<1> QED BY <1>2 DEF TypeOK, NoGap

LEMMA ReadyMoves ==
  ASSUME IInv, DataInv, TypeOK', OnMessage, HandleReady(Head(down[session]))
  PROVE  DataInv'
<1> DEFINE q == down[session]
           m == Head(q)
           f(c) == IF c \in ChannelsFor(m) THEN [c EXCEPT !.opened = TRUE] ELSE c
<1>1. /\ session \in Sessions /\ q # <<>> /\ link[session] = "up" /\ Wired
      /\ down' = [down EXCEPT ![session] = Tail(q)] /\ m.kind = "ready"
      /\ channels' = {f(c) : c \in channels}
      /\ UNCHANGED <<readyState, session, link, backChannels, sent, channelIdSeq, up, got>>
  BY DEF OnMessage, NextDown, HandleReady, Carries, Wired, backend
<1>2. /\ \A s \in Sessions : q \in Seq(Messages) /\ (s # session => down'[s] = down[s])
      /\ down'[session] = Tail(q)
      /\ \A c \in channels : c \in Channel
  BY <1>1 DEF IInv, TypeOK
<1>3. \A c \in channels :
        /\ f(c).id = c.id
        /\ c.id = m.id => f(c).opened
        /\ c.id # m.id => f(c) = c
  BY <1>2 DEF ChannelsFor, Channel
<1> HIDE DEF f
<1>4. \A k, i : Has(Tail(q), k, i) => Has(q, k, i)
  BY <1>1, <1>2, OpenedTail
<1>5. \A i : /\ ~Is(m, "data", i)
             /\ Is(m, "ready", i) <=> i = m.id
  BY <1>1 DEF Is
<1>6. Has(q, "ready", m.id)
  BY <1>1, <1>2, TailAt DEF Has, Is
<1>7. \A i : /\ \A C : DataLane(q, i, C) => DataLane(Tail(q), i, C)
             /\ i # m.id /\ ReadyFirst(q, i) => ReadyFirst(Tail(q), i)
             /\ i # m.id /\ Has(q, "ready", i) => Has(Tail(q), "ready", i)
  BY <1>1, <1>2, <1>5, TailLane
<1> HIDE DEF q, m
<1>8. down[session] = q
  BY DEF q
<1>9. Lone'
  BY <1>1, <1>2 DEF DataInv, Lone
<1>10. Unused'
  BY <1>1, <1>2, <1>4, <1>8 DEF DataInv, Unused
<1>11. OwnIds'
  BY <1>1, <1>3 DEF DataInv, OwnIds
<1>12. Opening'
  <2> SUFFICES ASSUME NEW i, Has(up[session], "open", i)
               PROVE  /\ OpenOnce(up[session], i) /\ ~Has(up[session], "data", i)
                      /\ ~Has(Tail(q), "ready", i) /\ ~Has(Tail(q), "data", i)
                      /\ UnknownId(i)
                      /\ \A c \in channels' : c.id = i => ~c.opened
                      /\ i \in ChannelIds => sent[i].up = 0 /\ sent[i].down = 0
    BY <1>1, <1>2 DEF Opening, UnknownId
  <2>1. /\ OpenOnce(up[session], i) /\ ~Has(up[session], "data", i)
        /\ ~Has(q, "ready", i) /\ ~Has(q, "data", i) /\ UnknownId(i)
        /\ \A c \in channels : c.id = i => ~c.opened
        /\ i \in ChannelIds => sent[i].up = 0 /\ sent[i].down = 0
    BY <1>1, <1>8 DEF DataInv, Opening
  <2>2. i # m.id
    BY <1>6, <2>1
  <2> QED BY <1>1, <1>3, <1>4, <2>1, <2>2
<1>13. Announced'
  <2> SUFFICES ASSUME NEW c \in channels', ~c.opened
               PROVE  /\ KnownId(c.id) => Has(Tail(q), "ready", c.id)
                      /\ ReadyFirst(Tail(q), c.id)
    BY <1>1, <1>2 DEF Announced, KnownId
  <2>1. c \in channels /\ c.id # m.id
    BY <1>1, <1>3
  <2> QED BY <1>1, <1>7, <1>8, <2>1 DEF DataInv, Announced
<1>14. DownLane'
  <2> SUFFICES ASSUME NEW c \in channels', c.id \in ChannelIds
               PROVE  DataLane(Tail(q), c.id, Len(got[c.id].down) + 1 .. sent[c.id].down)
    BY <1>1, <1>2 DEF DownLane
  <2>1. PICK b \in channels : b.id = c.id
    BY <1>1, <1>3
  <2> QED BY <1>1, <1>7, <1>8, <2>1 DEF DataInv, DownLane
<1>15. UpLane' /\ NoGap'
  BY <1>1 DEF DataInv, UpLane, NoGap, Wired
<1> QED BY <1>9, <1>10, <1>11, <1>12, <1>13, <1>14, <1>15 DEF DataInv

LEMMA DataMoves ==
  ASSUME IInv, DataInv, TypeOK', OnMessage, HandleData(Head(down[session]))
  PROVE  DataInv'
<1> DEFINE q == down[session]
           m == Head(q)
<1>1. /\ session \in Sessions /\ q # <<>> /\ link[session] = "up" /\ Wired
      /\ down' = [down EXCEPT ![session] = Tail(q)] /\ m.kind = "data"
      /\ got' = IF \E c \in ChannelsFor(m) : c.opened
                THEN [got EXCEPT ![m.id].down = Append(@, m.content)] ELSE got
      /\ UNCHANGED <<readyState, session, link, backChannels, sent, channelIdSeq, channels, up>>
  BY DEF OnMessage, NextDown, HandleData, Carries, Wired, backend
<1>2. /\ \A s \in Sessions : q \in Seq(Messages) /\ (s # session => down'[s] = down[s])
      /\ down'[session] = Tail(q)
      /\ TypeOK /\ NoGap
  BY <1>1 DEF IInv, TypeOK, DataInv
<1>3. \A k, i : Has(Tail(q), k, i) => Has(q, k, i)
  BY <1>1, <1>2, OpenedTail
<1>4. \A i : /\ ~Is(m, "ready", i)
             /\ Is(m, "data", i) <=> i = m.id
  BY <1>1 DEF Is
<1>5. \A i : /\ i # m.id => \A C : DataLane(q, i, C) => DataLane(Tail(q), i, C)
             /\ ReadyFirst(q, i) => ReadyFirst(Tail(q), i) /\ i # m.id
             /\ Has(q, "ready", i) => Has(Tail(q), "ready", i)
  <2> SUFFICES ASSUME NEW i
               PROVE  /\ i # m.id => \A C : DataLane(q, i, C) => DataLane(Tail(q), i, C)
                      /\ ReadyFirst(q, i) => ReadyFirst(Tail(q), i) /\ i # m.id
                      /\ Has(q, "ready", i) => Has(Tail(q), "ready", i)
    OBVIOUS
  <2>1. ~Is(m, "ready", i) /\ (Is(m, "data", i) <=> i = m.id) /\ q \in Seq(Messages) /\ q # <<>>
    BY <1>1, <1>2, <1>4
  <2> HIDE DEF q
  <2> QED BY <2>1, TailLane
<1>6. \A i, n \in Nat : DataLane(q, m.id, i + 1 .. n) =>
        m.content = i + 1 /\ i + 1 <= n /\ DataLane(Tail(q), m.id, (i + 1) + 1 .. n)
  <2>1. Is(m, "data", m.id) /\ q \in Seq(Messages) /\ q # <<>>
    BY <1>1, <1>2, <1>4
  <2>2. PICK j : j = m.id
    OBVIOUS
  <2>3. \A i, n \in Nat : DataLane(q, j, i + 1 .. n) =>
          m.content = i + 1 /\ i + 1 <= n /\ DataLane(Tail(q), j, (i + 1) + 1 .. n)
    <3> HIDE DEF q
    <3> QED BY <2>1, <2>2, TailLane
  <2> QED BY <2>2, <2>3
<1>7. \A c \in channels : c.id = m.id => c.opened /\ c \in ChannelsFor(m)
  <2> HIDE DEF m
  <2>1. \A c \in channels : ~c.opened => ReadyFirst(q, c.id)
    BY <1>1 DEF DataInv, Announced
  <2> QED BY <1>5, <2>1 DEF ChannelsFor
<1>8. \A c \in ChannelsFor(m) : c \in channels /\ c.id = m.id
  BY DEF ChannelsFor
<1> HIDE DEF q, m
<1>9. down[session] = q
  BY DEF q
<1>10. Lone'
  BY <1>1, <1>2 DEF DataInv, Lone
<1>11. Unused' /\ OwnIds'
  BY <1>1, <1>2, <1>3, <1>9 DEF DataInv, Unused, OwnIds
<1>12. Opening'
  BY <1>1, <1>2, <1>3, <1>9 DEF DataInv, Opening, UnknownId
<1>13. Announced'
  BY <1>1, <1>2, <1>5, <1>9 DEF DataInv, Announced, KnownId
<1>14. ASSUME NEW c \in channels, c.id = m.id, m.id \in ChannelIds
       PROVE  LET n == Len(got[m.id].down)
              IN  /\ m.content = n + 1 /\ n + 1 <= sent[m.id].down
                  /\ DataLane(Tail(q), m.id, (n + 1) + 1 .. sent[m.id].down)
  <2>1. DataLane(q, m.id, Len(got[m.id].down) + 1 .. sent[m.id].down)
    BY <1>1, <1>9, <1>14 DEF DataInv, DownLane
  <2> QED BY <1>2, <1>6, <1>14, <2>1, Counts
<1>15. ASSUME NEW i \in ChannelIds
       PROVE  /\ got'[i].up = got[i].up
              /\ got'[i].down = IF i = m.id /\ \E c \in channels : c.id = m.id
                                THEN Append(got[i].down, m.content) ELSE got[i].down
  <2>1. got \in [ChannelIds -> [up : Seq(Nat), down : Seq(Nat)]]
    BY <1>2 DEF TypeOK
  <2>2. (\E c \in ChannelsFor(m) : c.opened) <=> (\E c \in channels : c.id = m.id)
    BY <1>7, <1>8
  <2> QED BY <1>1, <2>1, <2>2
<1>16. DownLane'
  <2> SUFFICES ASSUME NEW c \in channels, c.id \in ChannelIds
               PROVE  DataLane(Tail(q), c.id, Len(got'[c.id].down) + 1 .. sent[c.id].down)
    BY <1>1, <1>2 DEF DownLane
  <2>1. CASE c.id = m.id
    <3>1. got'[c.id].down = Append(got[c.id].down, m.content)
      BY <1>15, <2>1
    <3>2. Len(Append(got[c.id].down, m.content)) = Len(got[c.id].down) + 1
      BY <1>2, Counts
    <3> QED BY <1>14, <2>1, <3>1, <3>2
  <2>2. CASE c.id # m.id
    <3>1. got'[c.id].down = got[c.id].down
      BY <1>15, <2>2
    <3> QED BY <1>1, <1>5, <1>9, <2>2, <3>1 DEF DataInv, DownLane
  <2> QED BY <2>1, <2>2
<1>17. UpLane'
  BY <1>1, <1>15 DEF DataInv, UpLane, Wired
<1>18. NoGap'
  <2> SUFFICES ASSUME NEW i \in ChannelIds
               PROVE  /\ \A n \in DOMAIN got'[i].down : got'[i].down[n] = n
                      /\ \A n \in DOMAIN got'[i].up : got'[i].up[n] = n
                      /\ Len(got'[i].down) <= sent[i].down /\ Len(got'[i].up) <= sent[i].up
    BY <1>1 DEF NoGap
  <2>1. CASE i = m.id /\ \E c \in channels : c.id = m.id
    <3> DEFINE g == got[i].down
    <3>1. g \in Seq(Nat) /\ \A n \in DOMAIN g : g[n] = n
      BY <1>2, Counts DEF NoGap
    <3>2. m.content = Len(g) + 1 /\ Len(g) + 1 <= sent[i].down
      BY <1>14, <2>1
    <3>3. got'[i].down = Append(g, m.content) /\ got'[i].up = got[i].up
      BY <1>15, <2>1
    <3> HIDE DEF g
    <3>4. /\ Len(Append(g, m.content)) = Len(g) + 1
          /\ \A n \in DOMAIN Append(g, m.content) : Append(g, m.content)[n] = n
      BY <3>1, <3>2
    <3> QED BY <1>2, <3>2, <3>3, <3>4 DEF NoGap
  <2>2. CASE ~(i = m.id /\ \E c \in channels : c.id = m.id)
    BY <1>2, <1>15, <2>2 DEF NoGap
  <2> QED BY <2>1, <2>2
<1> QED BY <1>10, <1>11, <1>12, <1>13, <1>16, <1>17, <1>18 DEF DataInv

LEMMA OnMessageData ==
  ASSUME IInv, DataInv, TypeOK', OnMessage
  PROVE  DataInv'
<1> DEFINE q == down[session]
           m == Head(q)
<1>1. /\ session \in Sessions /\ q # <<>> /\ link[session] = "up" /\ Wired
      /\ down' = [down EXCEPT ![session] = Tail(q)]
      /\ UNCHANGED <<readyState, session, link, backChannels, sent>>
      /\ AnswerPing(m) \/ HandleReady(m) \/ HandleData(m) \/ HandleClose(m)
  BY DEF OnMessage, NextDown, Carries, Wired, backend
<1>2. /\ q \in Seq(Messages) /\ up[session] \in Seq(Messages)
      /\ \A s \in Sessions : link[s] # "up" => down'[s] = down[s]
      /\ down'[session] = Tail(q)
  BY <1>1 DEF IInv, TypeOK
<1>3. m.kind \notin {"ready", "data"} => Calm(q, Tail(q))
  BY <1>1, <1>2, CalmTail
<1>4. ASSUME AnswerPing(m) PROVE DataInv'
  <2> DEFINE pong == Message("pong", 0)
             ms == <<pong>>
  <2>1. /\ m.kind = "ping" /\ up' = [up EXCEPT ![session] = Append(@, pong)]
        /\ UNCHANGED <<channelIdSeq, channels, got>>
    BY <1>4 DEF AnswerPing
  <2>2. pong \in Messages /\ pong.kind = "pong"
    BY MessageTypes DEF Message
  <2> HIDE DEF pong
  <2>3. ms \in Seq(Messages) /\ \A j \in DOMAIN ms : ms[j].kind = "pong"
    BY <2>2
  <2>4. Append(up[session], pong) = up[session] \o ms
    BY <1>2, <2>2
  <2>5. /\ up'[session] = up[session] \o ms
        /\ \A s \in Sessions : link[s] # "up" => up'[s] = up[s]
    BY <1>1, <2>1, <2>4 DEF IInv, TypeOK
  <2> HIDE DEF ms
  <2>6. Calm(up[session], up'[session]) /\ Opened(up[session], up'[session])
    BY <1>1, <2>3, <2>5, AppendCalm
  <2> QED BY <1>1, <1>2, <1>3, <2>1, <2>5, <2>6, QuietCalm
<1>5. ASSUME HandleClose(m) PROVE DataInv'
  <2>1. m.kind = "close" /\ UNCHANGED got
    BY <1>5 DEF HandleClose
  <2>2. CASE ChannelsFor(m) = {}
    <3>1. UNCHANGED <<channels, channelIdSeq, up>>
      BY <1>5, <2>2 DEF HandleClose
    <3> QED BY <1>1, <1>2, <1>3, <2>1, <3>1, CalmSame, QuietCalm
  <2>3. CASE ChannelsFor(m) # {}
    <3>1. PICK c \in ChannelsFor(m) : CloseAndReopen(c, FALSE)
      BY <1>5, <2>3 DEF HandleClose
    <3>2. /\ channelIdSeq' >= channelIdSeq
          /\ \A d \in channels' :
               \/ d \in channels
               \/ d.id >= channelIdSeq /\ d.id < channelIdSeq' /\ ~d.opened
          /\ \A b, d \in channels' : b.id = d.id => b = d
          /\ \A s \in Sessions : link[s] # "up" => up'[s] = up[s]
          /\ Wired => \E ms \in Seq(Messages) :
               /\ up'[session] = up[session] \o ms \/ up'[session] = up[session]
               /\ \A j \in DOMAIN ms : ms[j].kind \notin {"ready", "data"}
               /\ \A j \in DOMAIN ms : ms[j].kind = "open" =>
                    /\ ms[j].id >= channelIdSeq /\ ms[j].id < channelIdSeq'
                    /\ \A l \in DOMAIN ms : ms[l].kind = "open" /\ ms[l].id = ms[j].id => l = j
      BY <3>1, CloseCalm DEF ChannelsFor
    <3>3. Calm(up[session], up'[session]) /\ Opened(up[session], up'[session])
      BY <1>1, <3>2, AppendCalm, CalmSame
    <3>4. readyState' = "closed" => \A s \in Sessions : link'[s] # "up"
      BY <1>1 DEF DataInv, Lone
    <3> QED BY <1>1, <1>2, <1>3, <2>1, <3>2, <3>3, <3>4, CalmStep
  <2> QED BY <2>2, <2>3
<1> QED BY <1>1, <1>4, <1>5, ReadyMoves, DataMoves

\* A service of the browser sends.
LEMMA ServiceSendsData ==
  ASSUME IInv, DataInv, TypeOK', NEW c \in channels, ServiceSends(c)
  PROVE  DataInv'
<1> DEFINE n == sent[c.id].up
           d == DataMessage(c.id, n + 1)
           q == up[session]
           r == q \o <<d>>
<1>1. /\ readyState = "open" /\ c.opened /\ c.id \in ChannelIds /\ session \in Sessions
      /\ sent' = [sent EXCEPT ![c.id].up = @ + 1] /\ SendUp(<<d>>)
      /\ UNCHANGED <<readyState, session, channelIdSeq, channels, link, down, backChannels, got>>
  BY DEF ServiceSends, browserVars, backend, IInv, Placed
<1>2. /\ TypeOK /\ NoGap /\ c.id \in Nat /\ n \in Nat /\ c.id < channelIdSeq /\ channelIdSeq \in Nat
      /\ q \in Seq(Messages) /\ sent \in [ChannelIds -> [up : Nat, down : Nat]]
  BY <1>1 DEF IInv, TypeOK, DataInv, Channel
<1>3. /\ \A m \in Nat : m <= n /\ DataLane(q, c.id, m + 1 .. n) => DataLane(r, c.id, m + 1 .. n + 1)
      /\ \A j, C : j # c.id /\ DataLane(q, j, C) => DataLane(r, j, C)
      /\ \A j : Has(r, "data", j) => Has(q, "data", j) \/ j = c.id
      /\ \A j : Has(r, "open", j) => Has(q, "open", j)
      /\ \A j : OpenOnce(q, j) => OpenOnce(r, j)
  <2>1. r = q \o <<DataMessage(c.id, n + 1)>>
    OBVIOUS
  <2> HIDE DEF n, d, q, r
  <2>2. MoreData(q, r, c.id, n)
    BY <1>2, <2>1, DataAppended
  <2> QED BY <2>2 DEF MoreData
<1>4. /\ \A s \in Sessions : link[s] # "up" => up'[s] = up[s]
      /\ Wired => up'[session] = r
  <2>1. d \in Messages
    BY <1>2, MessageTypes
  <2> HIDE DEF d
  <2>2. <<d>> \in Seq(Messages)
    BY <2>1
  <2> QED BY <1>1, <1>2, <2>2, SendUpCarries
<1>5. \A i \in ChannelIds :
        /\ sent'[i].down = sent[i].down
        /\ sent'[i].up = IF i = c.id THEN n + 1 ELSE sent[i].up
  BY <1>1, <1>2
<1> HIDE DEF n, d, r
<1>6. Lone'
  BY <1>1, <1>4 DEF DataInv, Lone
<1>7. Unused'
  <2>1. \A i \in ChannelIds : i >= channelIdSeq => i # c.id
    BY <1>2
  <2>2. \A i \in ChannelIds : i >= channelIdSeq' => sent'[i].up = 0 /\ sent'[i].down = 0
    BY <1>1, <1>5, <2>1 DEF DataInv, Unused
  <2>3. ASSUME Wired', NEW i,
               \/ Has(up'[session], "data", i)
               \/ Has(down'[session], "ready", i) \/ Has(down'[session], "data", i)
        PROVE  i \in Nat /\ i < channelIdSeq'
    BY <1>1, <1>2, <1>3, <1>4, <2>3 DEF DataInv, Unused, Wired
  <2> QED BY <1>1, <2>2, <2>3 DEF Unused
<1>8. OwnIds'
  BY <1>1 DEF DataInv, OwnIds
<1>9. Opening'
  <2> SUFFICES ASSUME Wired, NEW i, Has(r, "open", i)
               PROVE  /\ OpenOnce(r, i) /\ ~Has(r, "data", i)
                      /\ ~Has(down[session], "ready", i) /\ ~Has(down[session], "data", i)
                      /\ UnknownId(i)
                      /\ \A b \in channels : b.id = i => ~b.opened
                      /\ i \in ChannelIds => sent'[i].up = 0 /\ sent'[i].down = 0
    BY <1>1, <1>4 DEF Opening, UnknownId, Wired
  <2>1. /\ OpenOnce(q, i) /\ ~Has(q, "data", i)
        /\ ~Has(down[session], "ready", i) /\ ~Has(down[session], "data", i)
        /\ UnknownId(i)
        /\ \A b \in channels : b.id = i => ~b.opened
        /\ i \in ChannelIds => sent[i].up = 0 /\ sent[i].down = 0
    BY <1>3 DEF DataInv, Opening
  <2>2. i # c.id
    BY <1>1, <2>1
  <2> QED BY <1>3, <1>5, <2>1, <2>2
<1>10. Announced' /\ DownLane'
  BY <1>1, <1>5 DEF DataInv, Announced, DownLane, KnownId, Wired
<1>11. UpLane'
  <2> SUFFICES ASSUME Wired, NEW b \in backChannels[session], b.id \in ChannelIds
               PROVE  DataLane(r, b.id, Len(got[b.id].up) + 1 .. sent'[b.id].up)
    BY <1>1, <1>4 DEF UpLane, Wired
  <2>1. /\ DataLane(q, b.id, Len(got[b.id].up) + 1 .. sent[b.id].up)
        /\ Len(got[b.id].up) \in Nat /\ Len(got[b.id].up) <= sent[b.id].up
    BY <1>2, Counts DEF DataInv, UpLane
  <2>2. CASE b.id = c.id
    <3>1. sent[c.id].up = n
      BY DEF n
    <3> QED BY <1>3, <1>5, <2>1, <2>2, <3>1
  <2>3. CASE b.id # c.id
    BY <1>3, <1>5, <2>1, <2>3
  <2> QED BY <2>2, <2>3
<1>12. NoGap'
  <2>1. sent[c.id].up = n
    BY DEF n
  <2>2. \A i \in ChannelIds : Len(got[i].up) <= sent'[i].up
    BY <1>2, <1>5, <2>1, Counts
  <2> QED BY <1>1, <1>2, <1>5, <2>2 DEF NoGap
<1> QED BY <1>6, <1>7, <1>8, <1>9, <1>10, <1>11, <1>12 DEF DataInv

\* A service of the backend sends.
LEMMA BackServiceSendsData ==
  ASSUME IInv, DataInv, TypeOK', NEW s \in Sessions, NEW c \in backChannels[s], BackServiceSends(s, c)
  PROVE  DataInv'
<1> DEFINE n == sent[c.id].down
           d == DataMessage(c.id, n + 1)
           q == down[s]
           r == q \o <<d>>
<1>1. /\ socket[s] = "open" /\ c.id \in ChannelIds
      /\ sent' = [sent EXCEPT ![c.id].down = @ + 1] /\ SendDown(s, <<d>>)
      /\ UNCHANGED <<readyState, session, channelIdSeq, channels, link, up, backChannels, got>>
  BY DEF BackServiceSends, browserVars, backend
<1>2. /\ TypeOK /\ NoGap /\ c.id \in Nat /\ n \in Nat /\ c.id < channelIdSeq /\ channelIdSeq \in Nat
      /\ q \in Seq(Messages) /\ sent \in [ChannelIds -> [up : Nat, down : Nat]]
  <2>1. c.id \in Nat /\ c.id < channelIdSeq /\ TypeOK /\ NoGap
    BY DEF IInv, TypeOK, DataInv, BackChannel, Taken
  <2> QED BY <1>1, <2>1 DEF TypeOK
<1>3. /\ \A m \in Nat : m <= n /\ DataLane(q, c.id, m + 1 .. n) => DataLane(r, c.id, m + 1 .. n + 1)
      /\ \A j, C : j # c.id /\ DataLane(q, j, C) => DataLane(r, j, C)
      /\ \A j : ReadyFirst(q, j) /\ (j = c.id => Has(q, "ready", c.id)) => ReadyFirst(r, j)
      /\ \A j : Has(r, "ready", j) <=> Has(q, "ready", j)
      /\ \A j : Has(r, "data", j) => Has(q, "data", j) \/ j = c.id
  <2>1. r = q \o <<DataMessage(c.id, n + 1)>>
    OBVIOUS
  <2> HIDE DEF n, d, q, r
  <2>2. MoreData(q, r, c.id, n)
    BY <1>2, <2>1, DataAppended
  <2> QED BY <2>2 DEF MoreData
<1>4. /\ \A t \in Sessions : link[t] # "up" => down'[t] = down[t]
      /\ Wired /\ s = session => down'[session] = r
      /\ Wired /\ s # session => down'[session] = down[session]
  <2>1. d \in Messages
    BY <1>2, MessageTypes
  <2> HIDE DEF d
  <2>2. <<d>> \in Seq(Messages)
    BY <2>1
  <2>3. /\ \A t \in Sessions : t # s => down'[t] = down[t]
        /\ \A t \in Sessions : link[t] # "up" => down'[t] = down[t]
        /\ link[s] = "up" => down'[s] = r
    BY <1>1, <1>2, <2>2, SendDownCarries
  <2> QED BY <2>3 DEF Wired
<1>5. \A i \in ChannelIds :
        /\ sent'[i].up = sent[i].up
        /\ sent'[i].down = IF i = c.id THEN n + 1 ELSE sent[i].down
  BY <1>1, <1>2
<1>6. /\ s # session => \A b \in channels : b.id # c.id
      /\ s = session => KnownId(c.id) /\ q = down[session]
  BY DEF DataInv, OwnIds, KnownId
<1>7. sent[c.id].down = n
  OBVIOUS
<1> HIDE DEF n, d, q, r
<1>8. Lone'
  BY <1>1, <1>4 DEF DataInv, Lone
<1>9. Unused'
  <2>1. \A i \in ChannelIds : i >= channelIdSeq => i # c.id
    BY <1>2
  <2>2. \A i \in ChannelIds : i >= channelIdSeq' => sent'[i].up = 0 /\ sent'[i].down = 0
    BY <1>1, <1>5, <2>1 DEF DataInv, Unused
  <2>3. ASSUME Wired', NEW i,
               \/ Has(up'[session], "data", i)
               \/ Has(down'[session], "ready", i) \/ Has(down'[session], "data", i)
        PROVE  i \in Nat /\ i < channelIdSeq'
    BY <1>1, <1>2, <1>3, <1>4, <1>6, <2>3 DEF DataInv, Unused, Wired
  <2> QED BY <1>1, <2>2, <2>3 DEF Unused
<1>10. OwnIds' /\ UpLane'
  BY <1>1, <1>5 DEF DataInv, OwnIds, UpLane, Wired
<1>11. Opening'
  <2> SUFFICES ASSUME Wired, NEW i, Has(up[session], "open", i)
               PROVE  /\ OpenOnce(up[session], i) /\ ~Has(up[session], "data", i)
                      /\ ~Has(down'[session], "ready", i) /\ ~Has(down'[session], "data", i)
                      /\ UnknownId(i)
                      /\ \A b \in channels : b.id = i => ~b.opened
                      /\ i \in ChannelIds => sent'[i].up = 0 /\ sent'[i].down = 0
    BY <1>1 DEF Opening, UnknownId, Wired
  <2>1. /\ OpenOnce(up[session], i) /\ ~Has(up[session], "data", i)
        /\ ~Has(down[session], "ready", i) /\ ~Has(down[session], "data", i)
        /\ UnknownId(i)
        /\ \A b \in channels : b.id = i => ~b.opened
        /\ i \in ChannelIds => sent[i].up = 0 /\ sent[i].down = 0
    BY DEF DataInv, Opening
  <2>2. CASE s = session
    <3>1. i # c.id
      BY <2>1 DEF UnknownId
    <3> QED BY <1>3, <1>4, <1>5, <1>6, <2>1, <2>2, <3>1
  <2>3. CASE s # session
    <3>1. i # c.id
      BY <2>1 DEF UnknownId
    <3> QED BY <1>4, <1>5, <2>1, <2>3, <3>1
  <2> QED BY <2>2, <2>3
<1>12. Announced'
  <2> SUFFICES ASSUME Wired, NEW b \in channels, ~b.opened
               PROVE  /\ KnownId(b.id) => Has(down'[session], "ready", b.id)
                      /\ ReadyFirst(down'[session], b.id)
    BY <1>1 DEF Announced, KnownId, Wired
  <2>1. /\ KnownId(b.id) => Has(down[session], "ready", b.id)
        /\ ReadyFirst(down[session], b.id)
    BY DEF DataInv, Announced
  <2>2. CASE s = session
    BY <1>3, <1>4, <1>6, <2>1, <2>2
  <2>3. CASE s # session
    BY <1>4, <2>1, <2>3
  <2> QED BY <2>2, <2>3
<1>13. DownLane'
  <2> SUFFICES ASSUME Wired, NEW b \in channels, b.id \in ChannelIds
               PROVE  DataLane(down'[session], b.id, Len(got[b.id].down) + 1 .. sent'[b.id].down)
    BY <1>1 DEF DownLane, Wired
  <2>1. /\ DataLane(down[session], b.id, Len(got[b.id].down) + 1 .. sent[b.id].down)
        /\ Len(got[b.id].down) \in Nat /\ Len(got[b.id].down) <= sent[b.id].down
    BY <1>2, Counts DEF DataInv, DownLane
  <2>2. CASE s = session /\ b.id = c.id
    BY <1>3, <1>4, <1>5, <1>6, <1>7, <2>1, <2>2
  <2>3. CASE s = session /\ b.id # c.id
    BY <1>3, <1>4, <1>5, <1>6, <2>1, <2>3
  <2>4. CASE s # session
    BY <1>4, <1>5, <1>6, <2>1, <2>4
  <2> QED BY <2>2, <2>3, <2>4
<1>14. NoGap'
  <2>1. \A i \in ChannelIds : Len(got[i].down) <= sent'[i].down
    BY <1>2, <1>5, <1>7, Counts
  <2> QED BY <1>1, <1>2, <1>5, <2>1 DEF NoGap
<1> QED BY <1>8, <1>9, <1>10, <1>11, <1>12, <1>13, <1>14 DEF DataInv

\* The backend takes up a channel and announces it.
LEMMA OpenMoves ==
  ASSUME IInv, DataInv, TypeOK', session \in Sessions, NEW q, q = up[session], q # <<>>,
         link[session] = "up", socket[session] = "open", Head(q).kind = "open",
         up' = [up EXCEPT ![session] = Tail(@)],
         backChannels' = [backChannels EXCEPT
           ![session] = @ \cup {[id |-> Head(q).id, path |-> Head(q).path]}],
         SendDown(session, <<Message("ready", Head(q).id)>>),
         UNCHANGED <<readyState, session, channelIdSeq, channels, link, sent, got>>
  PROVE  DataInv'
<1> DEFINE m == Head(q)
           i == m.id
           ms == <<Message("ready", i)>>
           w == down[session]
<1>1. /\ TypeOK /\ NoGap /\ Wired /\ q \in Seq(Messages) /\ w \in Seq(Messages)
      /\ m \in Messages /\ Has(q, "open", i) /\ Is(m, "open", i)
  <2>1. TypeOK /\ NoGap /\ Wired /\ q \in Seq(Messages) /\ w \in Seq(Messages)
    BY DEF IInv, TypeOK, DataInv, Wired
  <2>2. m \in Messages /\ 1 \in DOMAIN q /\ q[1] = m
    BY <2>1, TailAt
  <2> QED BY <2>1, <2>2 DEF Has, Is
<1>2. i \in Nat
  BY <1>1 DEF Messages
<1>3. /\ OpenOnce(q, i) /\ ~Has(q, "data", i) /\ ~Has(w, "ready", i) /\ ~Has(w, "data", i)
      /\ UnknownId(i)
      /\ \A c \in channels : c.id = i => ~c.opened
      /\ i \in ChannelIds => sent[i].up = 0 /\ sent[i].down = 0
  BY <1>1 DEF DataInv, Opening
<1>4. /\ ms \in Seq(Messages) /\ \A s \in Sessions : link[s] # "up" => down'[s] = down[s]
      /\ down'[session] = w \o ms
  <2>1. Message("ready", i) \in Messages
    BY <1>2, MessageTypes
  <2>2. ms \in Seq(Messages) /\ SendDown(session, ms)
    BY <2>1
  <2> HIDE DEF ms
  <2> QED BY <1>1, <2>2, SendDownCarries
<1> DEFINE v == w \o ms
<1>5. /\ \A j, C : DataLane(w, j, C) => DataLane(v, j, C)
      /\ \A j : ReadyFirst(w, j) => ReadyFirst(v, j)
      /\ \A j : Has(v, "ready", j) <=> Has(w, "ready", j) \/ j = i
      /\ \A j : Has(v, "data", j) => Has(w, "data", j)
  <2>1. v = w \o <<Message("ready", i)>>
    OBVIOUS
  <2> HIDE DEF v, w, i
  <2>2. Announcing(w, v, i)
    BY <1>1, <1>2, <2>1, ReadyAppended
  <2> QED BY <2>2 DEF Announcing
<1>6. /\ \A s \in Sessions : link[s] # "up" => up'[s] = up[s]
      /\ up'[session] = Tail(q)
      /\ \A s \in Sessions : \A d \in backChannels'[s] :
           d \in backChannels[s] \/ (s = session /\ d.id = i)
  <2>1. /\ up \in [Sessions -> Seq(Messages)]
        /\ backChannels \in [Sessions -> SUBSET BackChannel]
    BY <1>1 DEF TypeOK
  <2> DEFINE new == [id |-> i, path |-> m.path]
  <2>2. /\ \A s \in Sessions : up'[s] = IF s = session THEN Tail(q) ELSE up[s]
        /\ \A s \in Sessions : backChannels'[s] =
             IF s = session THEN backChannels[s] \cup {new} ELSE backChannels[s]
    BY <2>1
  <2>3. new.id = i
    OBVIOUS
  <2> HIDE DEF new, i
  <2>4. ASSUME NEW s \in Sessions, NEW d \in backChannels'[s]
        PROVE  d \in backChannels[s] \/ (s = session /\ d.id = i)
    <3>1. CASE s = session
      <4>1. d \in backChannels[s] \cup {new}
        BY <2>2, <3>1
      <4> QED BY <2>3, <3>1, <4>1
    <3>2. CASE s # session
      BY <2>2, <3>2
    <3> QED BY <3>1, <3>2
  <2>5. up'[session] = Tail(q) /\ \A s \in Sessions : link[s] # "up" => up'[s] = up[s]
    BY <2>2
  <2> QED BY <2>4, <2>5
<1>7. /\ Calm(q, Tail(q)) /\ Opened(q, Tail(q))
      /\ ~Has(Tail(q), "open", i)
      /\ \A k, j : Has(Tail(q), k, j) => Has(q, k, j)
  BY <1>1, <1>3, CalmTail, OpenedTail
<1>8. i < channelIdSeq /\ channelIdSeq \in Nat
  BY <1>1, AskedBefore DEF TypeOK
<1>9. q = up[session] /\ w = down[session] /\ down'[session] = v
  BY <1>4
<1> HIDE DEF m, i, ms, w, v
<1>10. Lone'
  BY <1>4, <1>6 DEF DataInv, Lone
<1>11. Unused'
  BY <1>1, <1>2, <1>5, <1>6, <1>7, <1>8, <1>9 DEF DataInv, Unused
<1>12. OwnIds'
  BY <1>6 DEF DataInv, OwnIds
<1>13. Opening'
  <2> SUFFICES ASSUME NEW j, Has(Tail(q), "open", j)
               PROVE  /\ OpenOnce(Tail(q), j) /\ ~Has(Tail(q), "data", j)
                      /\ ~Has(v, "ready", j) /\ ~Has(v, "data", j) /\ UnknownId(j)'
                      /\ \A c \in channels : c.id = j => ~c.opened
                      /\ j \in ChannelIds => sent[j].up = 0 /\ sent[j].down = 0
    BY <1>6, <1>9 DEF Opening
  <2>1. j # i /\ Has(q, "open", j)
    BY <1>7
  <2>2. /\ OpenOnce(q, j) /\ ~Has(q, "data", j) /\ ~Has(w, "ready", j) /\ ~Has(w, "data", j)
        /\ UnknownId(j)
        /\ \A c \in channels : c.id = j => ~c.opened
        /\ j \in ChannelIds => sent[j].up = 0 /\ sent[j].down = 0
    BY <1>1, <1>9, <2>1 DEF DataInv, Opening
  <2>3. OpenOnce(Tail(q), j)
    <3>1. j < channelIdSeq /\ j \in Nat
      BY <1>9, <2>1, AskedBefore
    <3> QED BY <1>7, <1>8, <2>2, <3>1 DEF Opened
  <2>4. UnknownId(j)'
    BY <1>6, <2>1, <2>2 DEF UnknownId
  <2> QED BY <1>5, <1>7, <2>1, <2>2, <2>3, <2>4
<1>14. Announced'
  <2> SUFFICES ASSUME NEW c \in channels, ~c.opened
               PROVE  (KnownId(c.id)' => Has(v, "ready", c.id)) /\ ReadyFirst(v, c.id)
    BY <1>9 DEF Announced
  <2>1. (KnownId(c.id) => Has(w, "ready", c.id)) /\ ReadyFirst(w, c.id)
    BY <1>1, <1>9 DEF DataInv, Announced
  <2>2. KnownId(c.id)' => KnownId(c.id) \/ c.id = i
    BY <1>6 DEF KnownId
  <2> QED BY <1>5, <2>1, <2>2
<1>15. DownLane'
  BY <1>1, <1>5, <1>9 DEF DataInv, DownLane
<1>16. UpLane'
  <2> SUFFICES ASSUME NEW d \in backChannels'[session], d.id \in ChannelIds
               PROVE  DataLane(Tail(q), d.id, Len(got[d.id].up) + 1 .. sent[d.id].up)
    BY <1>6 DEF UpLane
  <2>1. CASE d \in backChannels[session]
    BY <1>1, <1>7, <1>9, <2>1 DEF DataInv, UpLane, Calm
  <2>2. CASE d.id = i
    <3>1. sent[i].up = 0 /\ Len(got[i].up) = 0
      BY <1>1, <1>3, <2>2, Counts
    <3>2. Len(got[i].up) + 1 .. sent[i].up = {}
      BY <3>1
    <3> QED BY <1>3, <1>7, <2>2, <3>2 DEF DataLane, Has
  <2> QED BY <1>6, <2>1, <2>2
<1>17. NoGap'
  BY <1>1 DEF NoGap
<1> QED BY <1>10, <1>11, <1>12, <1>13, <1>14, <1>15, <1>16, <1>17 DEF DataInv

\* A service of the backend is given what was sent to it.
LEMMA DataUpMoves ==
  ASSUME IInv, DataInv, TypeOK', session \in Sessions, NEW q, q = up[session], q # <<>>,
         link[session] = "up", up' = [up EXCEPT ![session] = Tail(@)], HandleDataUp(session, Head(q)),
         UNCHANGED <<readyState, session, channelIdSeq, channels, link, sent>>
  PROVE  DataInv'
<1> DEFINE m == Head(q)
           i == m.id
<1>1. /\ TypeOK /\ NoGap /\ Wired /\ q \in Seq(Messages) /\ m.kind = "data"
      /\ got' = IF \E c \in backChannels[session] : c.id = i
                THEN [got EXCEPT ![i].up = Append(@, m.content)] ELSE got
      /\ UNCHANGED <<backChannels, down>>
  BY DEF IInv, TypeOK, DataInv, Wired, HandleDataUp
<1>2. /\ \A s \in Sessions : link[s] # "up" => up'[s] = up[s]
      /\ up'[session] = Tail(q)
  BY <1>1 DEF TypeOK
<1>3. /\ Opened(q, Tail(q)) /\ \A k, j : Has(Tail(q), k, j) => Has(q, k, j)
  BY <1>1, OpenedTail
<1>4. Is(m, "data", i) /\ \A j : j # i => ~Is(m, "data", j)
  BY <1>1 DEF Is
<1>5. \A j : j # i => \A C : DataLane(q, j, C) => DataLane(Tail(q), j, C)
  BY <1>1, <1>4, TailLane
<1>6. \A k, n \in Nat : DataLane(q, i, k + 1 .. n) =>
        m.content = k + 1 /\ k + 1 <= n /\ DataLane(Tail(q), i, (k + 1) + 1 .. n)
  <2>1. PICK j : j = i
    OBVIOUS
  <2>2. \A k, n \in Nat : DataLane(q, j, k + 1 .. n) =>
          m.content = k + 1 /\ k + 1 <= n /\ DataLane(Tail(q), j, (k + 1) + 1 .. n)
    BY <1>1, <1>4, <2>1, TailLane
  <2> QED BY <2>1, <2>2
<1> HIDE DEF m, i
<1>7. Lone'
  BY <1>1, <1>2 DEF DataInv, Lone
<1>8. Unused' /\ OwnIds'
  BY <1>1, <1>2, <1>3 DEF DataInv, Unused, OwnIds
<1>9. Opening'
  <2> SUFFICES ASSUME NEW j, Has(Tail(q), "open", j)
               PROVE  /\ OpenOnce(Tail(q), j) /\ ~Has(Tail(q), "data", j)
                      /\ ~Has(down[session], "ready", j) /\ ~Has(down[session], "data", j)
                      /\ UnknownId(j)
                      /\ \A c \in channels : c.id = j => ~c.opened
                      /\ j \in ChannelIds => sent[j].up = 0 /\ sent[j].down = 0
    BY <1>1, <1>2 DEF Opening, UnknownId
  <2>1. Has(q, "open", j)
    BY <1>3
  <2>2. /\ OpenOnce(q, j) /\ ~Has(q, "data", j)
        /\ ~Has(down[session], "ready", j) /\ ~Has(down[session], "data", j)
        /\ UnknownId(j)
        /\ \A c \in channels : c.id = j => ~c.opened
        /\ j \in ChannelIds => sent[j].up = 0 /\ sent[j].down = 0
    BY <1>1, <2>1 DEF DataInv, Opening
  <2>3. j < channelIdSeq /\ j \in Nat /\ channelIdSeq \in Nat
    BY <1>1, <2>1, AskedBefore DEF TypeOK
  <2> QED BY <1>3, <2>2, <2>3 DEF Opened
<1>10. Announced'
  BY <1>1 DEF DataInv, Announced, KnownId, Wired
<1>11. ASSUME NEW c \in backChannels[session], c.id = i, i \in ChannelIds
       PROVE  LET n == Len(got[i].up)
              IN  /\ m.content = n + 1 /\ n + 1 <= sent[i].up
                  /\ DataLane(Tail(q), i, (n + 1) + 1 .. sent[i].up)
  <2>1. DataLane(q, i, Len(got[i].up) + 1 .. sent[i].up)
    BY <1>1, <1>11 DEF DataInv, UpLane
  <2> QED BY <1>1, <1>6, <1>11, <2>1, Counts
<1>12. ASSUME NEW j \in ChannelIds
       PROVE  /\ got'[j].down = got[j].down
              /\ got'[j].up = IF j = i /\ \E c \in backChannels[session] : c.id = i
                              THEN Append(got[j].up, m.content) ELSE got[j].up
  BY <1>1 DEF TypeOK
<1>13. DownLane'
  BY <1>1, <1>12 DEF DataInv, DownLane, Wired
<1>14. UpLane'
  <2> SUFFICES ASSUME NEW c \in backChannels[session], c.id \in ChannelIds
               PROVE  DataLane(Tail(q), c.id, Len(got'[c.id].up) + 1 .. sent[c.id].up)
    BY <1>1, <1>2 DEF UpLane
  <2>1. CASE c.id = i
    <3>1. got'[c.id].up = Append(got[c.id].up, m.content)
      BY <1>12, <2>1
    <3>2. Len(Append(got[c.id].up, m.content)) = Len(got[c.id].up) + 1
      BY <1>1, Counts
    <3> QED BY <1>11, <2>1, <3>1, <3>2
  <2>2. CASE c.id # i
    <3>1. got'[c.id].up = got[c.id].up
      BY <1>12, <2>2
    <3> QED BY <1>1, <1>5, <2>2, <3>1 DEF DataInv, UpLane
  <2> QED BY <2>1, <2>2
<1>15. NoGap'
  <2> SUFFICES ASSUME NEW j \in ChannelIds
               PROVE  /\ \A n \in DOMAIN got'[j].down : got'[j].down[n] = n
                      /\ \A n \in DOMAIN got'[j].up : got'[j].up[n] = n
                      /\ Len(got'[j].down) <= sent[j].down /\ Len(got'[j].up) <= sent[j].up
    BY DEF NoGap
  <2>1. CASE j = i /\ \E c \in backChannels[session] : c.id = i
    <3> DEFINE g == got[j].up
    <3>1. g \in Seq(Nat) /\ \A n \in DOMAIN g : g[n] = n
      BY <1>1, Counts DEF NoGap
    <3>2. m.content = Len(g) + 1 /\ Len(g) + 1 <= sent[j].up
      BY <1>11, <2>1
    <3>3. got'[j].up = Append(g, m.content) /\ got'[j].down = got[j].down
      BY <1>12, <2>1
    <3> HIDE DEF g
    <3>4. /\ Len(Append(g, m.content)) = Len(g) + 1
          /\ \A n \in DOMAIN Append(g, m.content) : Append(g, m.content)[n] = n
      BY <3>1, <3>2
    <3> QED BY <1>1, <3>2, <3>3, <3>4 DEF NoGap
  <2>2. CASE ~(j = i /\ \E c \in backChannels[session] : c.id = i)
    BY <1>1, <1>12, <2>2 DEF NoGap
  <2> QED BY <2>1, <2>2
<1> QED BY <1>7, <1>8, <1>9, <1>10, <1>13, <1>14, <1>15 DEF DataInv

LEMMA OnMessageUpData ==
  ASSUME IInv, DataInv, TypeOK', NEW s \in Sessions, OnMessageUp(s)
  PROVE  DataInv'
<1> DEFINE q == up[s]
           m == Head(q)
<1>1. /\ socket[s] = "open" /\ link[s] = "up" /\ q # <<>>
      /\ up' = [up EXCEPT ![s] = Tail(@)]
      /\ UNCHANGED <<readyState, session, channelIdSeq, channels, link, sent>>
      /\ HandleOpen(s, m) \/ HandleDataUp(s, m) \/ HandleCloseUp(s, m) \/ HandlePong(s, m)
  BY DEF OnMessageUp, NextUp, Carries, browserVars
<1>2. s = session /\ Wired /\ TypeOK
  BY <1>1 DEF DataInv, Lone, IInv, Wired
<1>3. /\ q \in Seq(Messages) /\ up'[session] = Tail(q)
      /\ \A t \in Sessions : link[t] # "up" => up'[t] = up[t]
  BY <1>1, <1>2 DEF TypeOK
<1>4. m.kind \notin {"ready", "data"} => Calm(q, Tail(q)) /\ Opened(q, Tail(q))
  BY <1>1, <1>3, CalmTail, OpenedTail
<1>5. ASSUME m.kind \notin {"ready", "data"}, UNCHANGED got,
             \A t \in Sessions : backChannels'[t] \subseteq backChannels[t],
             \A t \in Sessions : link[t] # "up" => down'[t] = down[t],
             Calm(down[session], down'[session])
      PROVE  DataInv'
  BY <1>1, <1>2, <1>3, <1>4, <1>5, QuietCalm
<1>6. ASSUME HandleOpen(s, m) PROVE DataInv'
  <2>1. m.kind = "open" /\ UNCHANGED got
    BY <1>6 DEF HandleOpen
  <2>2. CASE /\ backChannels' = [backChannels EXCEPT ![s] = @ \cup {[id |-> m.id, path |-> m.path]}]
             /\ SendDown(s, <<Message("ready", m.id)>>)
    <3>1. PICK r : r = up[session]
      OBVIOUS
    <3>2. /\ m = Head(r) /\ r # <<>> /\ session \in Sessions
          /\ backChannels' = [backChannels EXCEPT
               ![session] = @ \cup {[id |-> Head(r).id, path |-> Head(r).path]}]
          /\ SendDown(session, <<Message("ready", Head(r).id)>>)
      BY <1>1, <1>2, <2>2, <3>1
    <3>3. up' = [up EXCEPT ![session] = Tail(@)] /\ Head(r).kind = "open"
      BY <1>1, <1>2, <2>1, <3>2
    <3> HIDE DEF q, m
    <3> QED BY <1>1, <1>2, <2>1, <3>1, <3>2, <3>3, OpenMoves
  <2>3. CASE SendDown(s, <<Message("close", m.id)>>) /\ UNCHANGED backChannels
    <3> DEFINE ms == <<Message("close", m.id)>>
    <3>1. ms \in Seq(Messages) /\ \A j \in DOMAIN ms : ms[j].kind = "close"
      <4>1. m \in Messages
        BY <1>1, <1>3
      <4>2. m.id \in Nat
        BY <4>1 DEF Messages
      <4>3. Message("close", m.id) \in Messages /\ Message("close", m.id).kind = "close"
        BY <4>2, MessageTypes DEF Message
      <4> QED BY <4>3
    <3>2. SendDown(s, ms)
      BY <2>3
    <3> HIDE DEF ms, m, q
    <3>3. /\ \A t \in Sessions : link[t] # "up" => down'[t] = down[t]
          /\ down'[session] = down[session] \o ms
      BY <1>1, <1>2, <3>1, <3>2, SendDownCarries
    <3>4. Calm(down[session], down'[session])
      BY <1>2, <3>1, <3>3, AppendCalm
    <3> QED BY <1>5, <2>1, <2>3, <3>3, <3>4
  <2>4. CASE UNCHANGED <<backChannels, down>>
    BY <1>5, <2>1, <2>4, CalmSame
  <2> QED BY <1>6, <2>2, <2>3, <2>4 DEF HandleOpen
<1>7. ASSUME HandleDataUp(s, m) PROVE DataInv'
  <2>1. PICK r : r = up[session]
    OBVIOUS
  <2>2. HandleDataUp(session, Head(r)) /\ r # <<>> /\ session \in Sessions
    BY <1>1, <1>2, <1>7, <2>1
  <2>3. up' = [up EXCEPT ![session] = Tail(@)] /\ link[session] = "up"
    BY <1>1, <1>2
  <2> HIDE DEF q, m
  <2> QED BY <1>1, <2>1, <2>2, <2>3, DataUpMoves
<1>8. ASSUME HandleCloseUp(s, m) PROVE DataInv'
  <2>1. /\ m.kind = "close" /\ UNCHANGED <<down, got>>
        /\ backChannels' = [backChannels EXCEPT ![s] = {c \in @ : c.id # m.id}]
    BY <1>8 DEF HandleCloseUp
  <2>2. \A t \in Sessions : backChannels'[t] \subseteq backChannels[t]
    BY <1>2, <2>1 DEF TypeOK
  <2> QED BY <1>5, <2>1, <2>2, CalmSame
<1>9. ASSUME HandlePong(s, m) PROVE DataInv'
  BY <1>5, <1>9, CalmSame DEF HandlePong
<1> QED BY <1>1, <1>6, <1>7, <1>8, <1>9

LEMMA DataStep ==
  ASSUME IInv, DataInv, [Next]_vars
  PROVE  DataInv'
<1>1. TypeOK'
  BY NextKeeps DEF IInv
<1>2. ASSUME UNCHANGED vars PROVE DataInv'
  BY <1>1, <1>2, CalmSame, QuietCalm DEF vars, browserVars, network, backend, history
<1>3. ASSUME NEW c \in channels, ServiceCloses(c) \/ ServiceSends(c) PROVE DataInv'
  BY <1>1, <1>3, ServiceClosesCalm, ServiceSendsData
<1>4. ASSUME NEW s \in Sessions, NEW c \in backChannels[s],
             BackServiceCloses(s, c) \/ BackServiceSends(s, c)
      PROVE  DataInv'
  BY <1>1, <1>4, BackServiceClosesCalm, BackServiceSendsData
<1> QED
  BY <1>1, <1>2, <1>3, <1>4, ListenCalm, SocketCalm, OnMessageData, OnMessageUpData, BackSocketCalm
     DEF Next

LEMMA DataInvariance == Spec => []DataInv
<1>1. Init => DataInv
  <2> SUFFICES ASSUME Init PROVE DataInv
    OBVIOUS
  <2>1. Lone /\ Unused /\ OwnIds
    BY WsAssumption DEF Init, Lone, Unused, OwnIds, Wired
  <2>2. ~Wired
    BY DEF Init, Wired, Sessions
  <2>3. Opening /\ Announced /\ DownLane /\ UpLane
    BY <2>2 DEF Opening, Announced, DownLane, UpLane
  <2>4. NoGap
    BY DEF Init, NoGap
  <2> QED BY <2>1, <2>3, <2>4 DEF DataInv
<1>2. IInv /\ DataInv /\ [Next]_vars => DataInv'
  BY DataStep
<1> QED BY <1>1, <1>2, Invariance, PTL DEF Spec

\* What a handler receives on a channel of either direction is what was sent on it,
\* from the first message on, in order and without a gap, whatever links break and
\* whenever channels close and are opened again (WebSocketChannel, handleMessage of
\* both sides: a channel's data wait for its ready, and go with its session).
THEOREM DataArriveInOrder == Spec => []NoGap
<1>1. DataInv => NoGap
  BY DEF DataInv
<1> QED BY <1>1, DataInvariance, PTL

-----------------------------------------------------------------------------
(* What the handlers of the paths are given.                               *)

\* A path has one channel at a time.
Single == \A c, d \in channels : c.path = d.path => c = d

\* A handler was given no channel newer than the one it has, or waits for.
Latest ==
  /\ \A p \in Paths : newest[p] < channelIdSeq
  /\ \A c \in channels : IF c.opened THEN newest[c.path] = c.id ELSE newest[c.path] < c.id

LEMMA CurrentOf ==
  ASSUME Single, NEW p
  PROVE  /\ \A c \in channels : c.opened /\ c.path = p => CurrentId(p) = c.id
         /\ (\A c \in channels : c.path = p => ~c.opened) => CurrentId(p) = -1
<1>1. ASSUME NEW c \in channels, c.opened, c.path = p PROVE CurrentId(p) = c.id
  <2>1. OpenedIds(p) = {c.id}
    BY <1>1 DEF Single, OpenedIds
  <2> QED BY <2>1 DEF CurrentId
<1>2. ASSUME \A c \in channels : c.path = p => ~c.opened PROVE CurrentId(p) = -1
  <2>1. OpenedIds(p) = {}
    BY <1>2 DEF OpenedIds
  <2> QED BY <2>1 DEF CurrentId
<1> QED BY <1>1, <1>2

\* A step that gives no handler a channel takes some from theirs.
LEMMA NoneGiven ==
  ASSUME IInv, DataInv, Single, Latest, TypeOK', Single', UNCHANGED newest,
         channelIdSeq' >= channelIdSeq,
         \A c \in channels' : c \in channels \/ (c.id >= channelIdSeq /\ ~c.opened)
  PROVE  Latest' /\ [Supply!Next]_(Supply!vars)
<1>0. /\ newest \in [Paths -> Nat \cup {-1}] /\ channelIdSeq \in Nat /\ channelIdSeq' \in Nat
      /\ \A c \in channels' : c.path \in Paths /\ c.id \in Nat /\ c.opened \in BOOLEAN
      /\ \A p \in Paths : newest[p] \in Int
  BY DEF IInv, TypeOK, Channel
<1>1. Latest'
  <2>1. \A p \in Paths : newest[p] < channelIdSeq'
    BY <1>0 DEF Latest
  <2>2. ASSUME NEW c \in channels'
        PROVE  IF c.opened THEN newest[c.path] = c.id ELSE newest[c.path] < c.id
    <3>1. CASE c \in channels
      BY <3>1 DEF Latest
    <3>2. CASE c.id >= channelIdSeq /\ ~c.opened
      BY <1>0, <3>2 DEF Latest
    <3> QED BY <3>1, <3>2
  <2> QED BY <2>1, <2>2 DEF Latest
<1>2. Supply!Next
  <2> DEFINE P == {p \in Paths : \A c \in channels' : c.path = p => ~c.opened}
  <2>1. ASSUME NEW p \in Paths
        PROVE  CurrentId(p)' = IF p \in P THEN -1 ELSE CurrentId(p)
    <3>1. CASE \A c \in channels' : c.path = p => ~c.opened
      <4>1. OpenedIds(p)' = {}
        BY <3>1 DEF OpenedIds
      <4> QED BY <3>1, <4>1 DEF CurrentId
    <3>2. CASE \E c \in channels' : c.path = p /\ c.opened
      <4>1. PICK c \in channels' : c.path = p /\ c.opened
        BY <3>2
      <4>2. c \in channels
        BY <4>1
      <4>3. OpenedIds(p)' = {c.id}
        BY <4>1 DEF OpenedIds, Single
      <4>4. CurrentId(p)' = c.id
        BY <4>3 DEF CurrentId
      <4>5. CurrentId(p) = c.id
        BY <4>1, <4>2, CurrentOf
      <4> QED BY <4>1, <4>4, <4>5
    <3> QED BY <3>1, <3>2
  <2> HIDE DEF P
  <2>2. [p \in Paths |-> CurrentId(p)]' = [p \in Paths |-> IF p \in P THEN -1 ELSE CurrentId(p)]
    BY <2>1
  <2>3. P \in SUBSET Paths
    BY DEF P
  <2>4. PICK Q \in SUBSET Paths : Q = P
    BY <2>3
  <2>5. Supply!Lose(Q)
    BY <2>2, <2>4 DEF Supply!Lose
  <2> QED BY <2>5 DEF Supply!Next
<1> QED BY <1>1, <1>2

-----------------------------------------------------------------------------
(* How many ids are taken: the bound ChannelIds of the data followed.      *)

Closes(q) == {k \in DOMAIN q : q[k].kind = "close"}
ClosesDown == IF session \in Sessions THEN Cardinality(Closes(down[session])) ELSE 0

\* The sessions opened so far, each of which opens one channel for a path.
Rounds == IF readyState = "connecting" THEN session - 1 ELSE session

\* An id is taken for each path in each session, for each call of openChannel, and
\* for each close by a service, which may still be on its way.
Spent == channelIdSeq + ClosesDown
Allowed == closes + Cardinality(listened) + Cardinality(Paths) * Rounds
Counted == closes <= MaxCloses /\ Spent <= Allowed

LEMMA ClosesCounted ==
  ASSUME NEW q \in Seq(Messages)
  PROVE  /\ IsFiniteSet(Closes(q)) /\ Cardinality(Closes(q)) \in Nat
         /\ q # <<>> =>
              Cardinality(Closes(Tail(q))) + (IF Head(q).kind = "close" THEN 1 ELSE 0)
                <= Cardinality(Closes(q))
         /\ \A d \in Messages :
              Cardinality(Closes(q \o <<d>>))
                <= Cardinality(Closes(q)) + (IF d.kind = "close" THEN 1 ELSE 0)
<1>1. ASSUME NEW r \in Seq(Messages)
      PROVE  IsFiniteSet(Closes(r)) /\ Cardinality(Closes(r)) \in Nat
  <2>1. DOMAIN r = 1 .. Len(r) /\ Len(r) \in Nat /\ Closes(r) \subseteq 1 .. Len(r)
    BY DEF Closes
  <2>2. IsFiniteSet(1 .. Len(r))
    BY <2>1, FS_Interval
  <2>3. IsFiniteSet(Closes(r))
    BY <2>1, <2>2, FS_Subset
  <2> QED BY <2>3, FS_CardinalityType
<1>2. ASSUME q # <<>>
      PROVE  Cardinality(Closes(Tail(q))) + (IF Head(q).kind = "close" THEN 1 ELSE 0)
               <= Cardinality(Closes(q))
  <2> DEFINE r == Tail(q)
             T == Closes(q) \ {1}
             f == [k \in Closes(r) |-> k + 1]
  <2>1. /\ r \in Seq(Messages) /\ 1 \in DOMAIN q /\ Head(q) = q[1]
        /\ \A k \in DOMAIN r : k \in Nat /\ k >= 1 /\ k + 1 \in DOMAIN q /\ r[k] = q[k + 1]
    BY <1>2, TailAt
  <2>2. IsFiniteSet(T)
        /\ Cardinality(T) = IF 1 \in Closes(q) THEN Cardinality(Closes(q)) - 1 ELSE Cardinality(Closes(q))
    BY <1>1, FS_RemoveElement
  <2>3. 1 \in Closes(q) <=> Head(q).kind = "close"
    BY <2>1 DEF Closes
  <2>4. f \in Injection(Closes(r), T)
    <3>1. \A k \in Closes(r) : k \in Nat /\ k >= 1 /\ k + 1 \in T
      BY <2>1 DEF Closes
    <3>2. f \in [Closes(r) -> T]
      BY <3>1
    <3>3. \A a, b \in Closes(r) : f[a] = f[b] => a = b
      BY <3>1
    <3> QED BY <3>2, <3>3 DEF Injection, IsInjective
  <2>5. Cardinality(Closes(r)) <= Cardinality(T)
    BY <2>2, <2>4, FS_Injection
  <2>6. Cardinality(Closes(q)) \in Nat /\ Cardinality(Closes(r)) \in Nat
    BY <1>1, <2>1
  <2> HIDE DEF r, T, f
  <2>7. Cardinality(Closes(r)) + (IF Head(q).kind = "close" THEN 1 ELSE 0) <= Cardinality(Closes(q))
    BY <2>2, <2>3, <2>5, <2>6
  <2> QED BY <2>7 DEF r
<1>3. ASSUME NEW d \in Messages
      PROVE  Cardinality(Closes(q \o <<d>>))
               <= Cardinality(Closes(q)) + (IF d.kind = "close" THEN 1 ELSE 0)
  <2> DEFINE r == q \o <<d>>
             e == Len(q) + 1
             T == Closes(q) \cup {e}
  <2>1. /\ \A k \in DOMAIN r : (k \in DOMAIN q /\ r[k] = q[k]) \/ (k = e /\ r[k] = d)
    <3>1. Len(q) \in Nat /\ DOMAIN r = 1 .. Len(q) + 1 /\ r[Len(q) + 1] = d
          /\ DOMAIN q = 1 .. Len(q) /\ \A k \in 1 .. Len(q) : r[k] = q[k]
      OBVIOUS
    <3> QED BY <3>1
  <2>2. Closes(r) \subseteq IF d.kind = "close" THEN T ELSE Closes(q)
    BY <2>1 DEF Closes
  <2>3. IsFiniteSet(T) /\ Cardinality(T) <= Cardinality(Closes(q)) + 1
    <3>1. IsFiniteSet(Closes(q)) /\ Cardinality(Closes(q)) \in Nat
      BY <1>1
    <3>2. IsFiniteSet(T) /\ Cardinality(T) = IF e \in Closes(q) THEN Cardinality(Closes(q)) ELSE Cardinality(Closes(q)) + 1
      BY <3>1, FS_AddElement
    <3> HIDE DEF T, e
    <3> QED BY <3>1, <3>2
  <2> HIDE DEF r, T, e
  <2>4. CASE d.kind = "close"
    <3>1. Cardinality(Closes(r)) <= Cardinality(T)
      BY <2>2, <2>3, <2>4, FS_Subset
    <3>2. Cardinality(T) \in Nat /\ Cardinality(Closes(r)) \in Nat
      <4>1. IsFiniteSet(Closes(r))
        BY <2>2, <2>3, <2>4, FS_Subset
      <4> QED BY <2>3, <4>1, FS_CardinalityType
    <3>3. Cardinality(Closes(q)) \in Nat
      BY <1>1
    <3>4. Cardinality(Closes(r)) <= Cardinality(Closes(q)) + 1
      BY <2>3, <3>1, <3>2, <3>3
    <3> QED BY <2>4, <3>4 DEF r
  <2>5. CASE d.kind # "close"
    <3>1. Cardinality(Closes(r)) <= Cardinality(Closes(q))
      BY <1>1, <2>2, <2>5, FS_Subset
    <3>2. Cardinality(Closes(q)) \in Nat
      BY <1>1
    <3> QED BY <2>5, <3>1, <3>2 DEF r
  <2> QED BY <2>4, <2>5
<1> QED BY <1>1, <1>2, <1>3

LEMMA ClosesDownType ==
  TypeOK => /\ ClosesDown \in Nat
            /\ Cardinality(Paths) \in Nat /\ Cardinality(listened) \in Nat
            /\ Cardinality(listened) <= Cardinality(Paths)
<1> SUFFICES ASSUME TypeOK
             PROVE  /\ ClosesDown \in Nat
                    /\ Cardinality(Paths) \in Nat /\ Cardinality(listened) \in Nat
                    /\ Cardinality(listened) <= Cardinality(Paths)
  OBVIOUS
<1>1. ClosesDown \in Nat
  <2>1. CASE session \in Sessions
    <3>1. down[session] \in Seq(Messages)
      BY <2>1 DEF TypeOK
    <3>2. Cardinality(Closes(down[session])) \in Nat
      BY <3>1, ClosesCounted
    <3> QED BY <2>1, <3>2 DEF ClosesDown
  <2>2. CASE session \notin Sessions
    BY <2>2 DEF ClosesDown
  <2> QED BY <2>1, <2>2
<1>2. IsFiniteSet(Paths) /\ listened \subseteq Paths
  BY WsAssumption DEF TypeOK
<1>3. IsFiniteSet(listened) /\ Cardinality(listened) <= Cardinality(Paths)
  BY <1>2, FS_Subset
<1>4. Cardinality(Paths) \in Nat /\ Cardinality(listened) \in Nat
  BY <1>2, <1>3, FS_CardinalityType
<1> QED BY <1>1, <1>3, <1>4

LEMMA ClosesDownNext == TypeOK' => (ClosesDown \in Nat)'
BY ClosesDownType, PTL

\* A message sent to the browser, or none.
LEMMA DownCounted ==
  ASSUME TypeOK, TypeOK', session' = session, NEW s \in Sessions, NEW d \in Messages,
         SendDown(s, <<d>>)
  PROVE  ClosesDown' <= ClosesDown + (IF d.kind = "close" THEN 1 ELSE 0)
<1>1. ClosesDown \in Nat
  BY ClosesDownType
<1>2. CASE session \in Sessions /\ down'[session] = down[session]
  BY <1>1, <1>2 DEF ClosesDown
<1>3. CASE session \in Sessions /\ down'[session] = down[session] \o <<d>>
  <2>1. down[session] \in Seq(Messages)
    BY <1>3 DEF TypeOK
  <2> DEFINE q == down[session]
  <2> HIDE DEF q
  <2>2. q \in Seq(Messages) => Cardinality(Closes(q \o <<d>>)) <= Cardinality(Closes(q)) + (IF d.kind = "close" THEN 1 ELSE 0)
    BY ClosesCounted
  <2>3. ClosesDown' = Cardinality(Closes(q \o <<d>>)) /\ ClosesDown = Cardinality(Closes(q))
    BY <1>3 DEF ClosesDown, q
  <2> QED BY <2>1, <2>2, <2>3 DEF q
<1>4. CASE session \notin Sessions
  BY <1>4, <1>1 DEF ClosesDown
<1>5. session \in Sessions =>
        down'[session] = down[session] \/ down'[session] = down[session] \o <<d>>
  BY DEF SendDown, TypeOK
<1> QED BY <1>2, <1>3, <1>4, <1>5

LEMMA SpentType == TypeOK => Spent \in Int /\ Allowed \in Int
<1> SUFFICES ASSUME TypeOK PROVE Spent \in Int /\ Allowed \in Int
  OBVIOUS
<1>1. ClosesDown \in Nat /\ Cardinality(listened) \in Nat /\ Cardinality(Paths) \in Nat
  BY ClosesDownType
<1>2. channelIdSeq \in Nat /\ closes \in Nat /\ session \in Nat
  BY WsAssumption DEF TypeOK
<1>3. Rounds \in Int
  BY <1>2 DEF Rounds
<1>4. Cardinality(Paths) * Rounds \in Int
  BY <1>1, <1>3
<1>5. Spent \in Int
  BY <1>1, <1>2 DEF Spent
<1>6. Allowed \in Int
  BY <1>1, <1>2, <1>4 DEF Allowed
<1> QED BY <1>5, <1>6

LEMMA SpentNext == TypeOK' => (Spent \in Int)' /\ (Allowed \in Int)'
BY SpentType, PTL

\* A step that takes g ids and puts h closes on their way.
LEMMA SpentStep ==
  ASSUME TypeOK, TypeOK', NEW g \in Int, NEW h \in Int,
         channelIdSeq' = channelIdSeq + g, ClosesDown' <= ClosesDown + h
  PROVE  Spent' <= Spent + g + h
<1>1. ClosesDown \in Nat /\ ClosesDown' \in Nat
  BY ClosesDownType, ClosesDownNext
<1>2. channelIdSeq \in Nat /\ channelIdSeq' \in Nat
  BY DEF TypeOK
<1>3. PICK a \in Int, b \in Int, i \in Int, j \in Int :
        a = channelIdSeq /\ b = ClosesDown /\ i = channelIdSeq' /\ j = ClosesDown'
  BY <1>1, <1>2
<1>4. i + j <= a + b + g + h
  <2>1. i = a + g /\ j <= b + h
    BY <1>3
  <2> QED BY <2>1
<1> QED BY <1>3, <1>4 DEF Spent

\* A step in a session, with or without a close by a service.
LEMMA AllowedStep ==
  ASSUME TypeOK, NEW g \in {0, 1}, UNCHANGED <<readyState, session, listened>>,
         closes' = closes + g
  PROVE  Allowed' = Allowed + g
<1>1. Cardinality(listened) \in Nat /\ Cardinality(Paths) \in Nat
  BY ClosesDownType
<1>2. closes \in Nat /\ session \in Nat
  BY WsAssumption DEF TypeOK
<1>3. Rounds \in Int /\ Rounds' = Rounds
  BY <1>2 DEF Rounds
<1> DEFINE n == Cardinality(Paths) * Rounds
<1>4. n \in Int /\ n' = n
  BY <1>1, <1>3
<1> HIDE DEF n
<1>5. Allowed = closes + Cardinality(listened) + n
  BY DEF Allowed, n
<1>6. Allowed' = closes' + Cardinality(listened) + n
  BY <1>4 DEF Allowed, n
<1> QED BY <1>1, <1>2, <1>4, <1>5, <1>6

LEMMA CountedStep ==
  ASSUME TypeOK, TypeOK', Counted, NEW g \in Int, NEW h \in Int, NEW k \in {0, 1},
         UNCHANGED <<readyState, session, listened>>,
         closes' = closes + k, k = 1 => closes < MaxCloses,
         channelIdSeq' = channelIdSeq + g, ClosesDown' <= ClosesDown + h, g + h <= k
  PROVE  Counted'
<1>1. Spent \in Int /\ Spent' \in Int /\ Allowed \in Int /\ Allowed' \in Int
  BY SpentType, SpentNext
<1>2. Spent' <= Spent + g + h /\ Allowed' = Allowed + k
  BY SpentStep, AllowedStep
<1>3. Spent <= Allowed
  BY DEF Counted
<1>4. Spent' <= Allowed'
  BY <1>1, <1>2, <1>3
<1>5. closes' <= MaxCloses
  BY WsAssumption DEF TypeOK, Counted
<1> QED BY <1>4, <1>5 DEF Counted

LEMMA ReopensOne ==
  ASSUME NEW c, NEW b, CloseAndReopen(c, b)
  PROVE  \E g \in {0, 1} : channelIdSeq' = channelIdSeq + g
<1>1. CASE c.path \in PathsToReopen({c})
  <2>1. channelIdSeq' = channelIdSeq + Len(<<c.path>>) /\ Len(<<c.path>>) = 1
    BY <1>1 DEF CloseAndReopen
  <2> QED BY <2>1
<1>2. CASE c.path \notin PathsToReopen({c})
  <2>1. channelIdSeq' = channelIdSeq + Len(<<>>) /\ Len(<<>>) = 0
    BY <1>2 DEF CloseAndReopen
  <2> QED BY <2>1
<1> QED BY <1>1, <1>2

LEMMA ListenCounted ==
  ASSUME TypeOK, TypeOK', Counted, NEW p \in Paths, Listen(p)
  PROVE  Counted'
<1>1. /\ p \notin listened /\ listened' = listened \cup {p}
      /\ UNCHANGED <<readyState, session, down, closes>>
      /\ channelIdSeq' = channelIdSeq \/ channelIdSeq' = channelIdSeq + 1
  BY DEF Listen, history
<1>2. Spent' <= Spent + 1
  <2>1. ClosesDown \in Nat /\ channelIdSeq \in Nat /\ ClosesDown' = ClosesDown
    BY <1>1, ClosesDownType DEF ClosesDown, TypeOK
  <2> QED BY <1>1, <2>1 DEF Spent
<1>3. Allowed' = Allowed + 1
  <2>1. /\ Cardinality(listened) \in Nat /\ Cardinality(Paths) \in Nat
        /\ closes \in Nat /\ session \in Nat
    BY ClosesDownType, WsAssumption DEF TypeOK
  <2>2. Cardinality(listened') = Cardinality(listened) + 1
    <3>1. IsFiniteSet(listened)
      BY FS_Subset, WsAssumption DEF TypeOK
    <3> QED BY <1>1, <3>1, FS_AddElement
  <2>3. Rounds \in Int /\ Rounds' = Rounds
    BY <1>1, <2>1 DEF Rounds
  <2> DEFINE n == Cardinality(Paths) * Rounds
  <2>4. n \in Int /\ n' = n
    BY <2>1, <2>3
  <2> HIDE DEF n
  <2>5. Allowed = closes + Cardinality(listened) + n
    BY DEF Allowed, n
  <2>6. Allowed' = closes' + Cardinality(listened') + n
    BY <2>4 DEF Allowed, n
  <2> QED BY <1>1, <2>1, <2>2, <2>4, <2>5, <2>6
<1>4. Spent \in Int /\ Spent' \in Int /\ Allowed \in Int /\ Allowed' \in Int
  BY SpentType, SpentNext
<1>5. Spent' <= Allowed' /\ closes' <= MaxCloses
  BY <1>1, <1>2, <1>3, <1>4 DEF Counted
<1> QED BY <1>5 DEF Counted

\* The socket's steps: a session more is opened, and a channel for each path.
LEMMA RoundsStep ==
  ASSUME TypeOK, TypeOK', UNCHANGED <<listened, closes>>
  PROVE  /\ Rounds' = Rounds => Allowed' = Allowed
         /\ Rounds' = Rounds + 1 => Allowed' = Allowed + Cardinality(Paths)
<1>1. /\ Cardinality(listened) \in Nat /\ Cardinality(Paths) \in Nat
      /\ closes \in Nat /\ session \in Nat
  BY ClosesDownType, WsAssumption DEF TypeOK
<1>2. Rounds \in Int
  BY <1>1 DEF Rounds
<1>3. Rounds' = Rounds => Allowed' = Allowed
  BY DEF Allowed
<1>4. ASSUME Rounds' = Rounds + 1 PROVE Allowed' = Allowed + Cardinality(Paths)
  <2> DEFINE n == Cardinality(Paths)
             r == Rounds
  <2> HIDE DEF n, r
  <2>1. n \in Nat /\ r \in Int
    BY <1>1, <1>2 DEF n, r
  <2>2. n * (r + 1) = n * r + n /\ n * r \in Int
    BY <2>1
  <2>3. Allowed' = closes + Cardinality(listened) + n * (r + 1)
    BY <1>4 DEF Allowed, n, r
  <2>4. Allowed = closes + Cardinality(listened) + n * r
    BY DEF Allowed, n, r
  <2>5. Allowed' = Allowed + n
    BY <1>1, <2>1, <2>2, <2>3, <2>4
  <2> QED BY <2>5 DEF n
<1> QED BY <1>3, <1>4

LEMMA SocketCounted ==
  ASSUME IInv, TypeOK', Lone, Counted, Connect \/ SocketOpen \/ SocketClose
  PROVE  Counted'
<1>0. TypeOK /\ Placed /\ session \in Nat /\ channelIdSeq \in Nat
  BY WsAssumption DEF IInv, TypeOK
<1>1. UNCHANGED <<listened, closes>>
  BY DEF Connect, SocketOpen, SocketClose, history
<1>2. Spent \in Int /\ Spent' \in Int /\ Allowed \in Int /\ Allowed' \in Int
      /\ Cardinality(Paths) \in Nat
      /\ Spent <= Allowed /\ closes' <= MaxCloses /\ ClosesDown \in Nat
  BY <1>0, <1>1, SpentType, SpentNext, ClosesDownType DEF Counted
<1>3. CASE Connect
  <2>1. /\ readyState = "closed" /\ session' \in Sessions /\ readyState' = "connecting"
        /\ session' = session + 1 /\ down' = down /\ channelIdSeq' = channelIdSeq
    BY <1>3 DEF Connect
  <2>2. Rounds' = Rounds
    BY <1>0, <2>1 DEF Rounds
  <2>3. down'[session'] = <<>>
    BY <2>1 DEF Lone
  <2>4. Closes(<<>>) = {}
    BY DEF Closes
  <2>5. ClosesDown' = 0
    BY <2>1, <2>3, <2>4, FS_EmptySet DEF ClosesDown
  <2>6. Spent' <= Spent
    BY <1>0, <1>2, <2>1, <2>5 DEF Spent
  <2>7. Allowed' = Allowed
    BY <1>0, <1>1, <2>2, RoundsStep
  <2> QED BY <1>2, <2>6, <2>7 DEF Counted
<1>4. CASE SocketOpen
  <2>1. PICK ps \in Orders(openListeners) : channelIdSeq' = channelIdSeq + Len(ps)
    BY <1>4 DEF SocketOpen
  <2>2. Len(ps) = Cardinality(openListeners)
    BY <1>0, OrdersListed DEF TypeOK
  <2>3. /\ readyState = "connecting" /\ readyState' = "open" /\ session' = session /\ down' = down
    BY <1>4 DEF SocketOpen
  <2>4. Rounds' = Rounds + 1
    BY <1>0, <2>3 DEF Rounds
  <2>5. Len(ps) \in Nat /\ Len(ps) <= Cardinality(Paths)
    <3>1. openListeners \subseteq Paths /\ IsFiniteSet(Paths)
      BY <1>0, WsAssumption DEF TypeOK
    <3>2. IsFiniteSet(openListeners) /\ Cardinality(openListeners) <= Cardinality(Paths)
      BY <3>1, FS_Subset
    <3>3. Cardinality(openListeners) \in Nat
      BY <3>2, FS_CardinalityType
    <3> QED BY <2>2, <3>2, <3>3
  <2>6. ClosesDown' = ClosesDown
    BY <2>3 DEF ClosesDown
  <2>7. Spent' = Spent + Len(ps)
    BY <1>0, <1>2, <2>1, <2>5, <2>6 DEF Spent
  <2>8. Allowed' = Allowed + Cardinality(Paths)
    BY <1>0, <1>1, <2>4, RoundsStep
  <2>9. Spent' <= Allowed'
    BY <1>2, <2>5, <2>7, <2>8
  <2> QED BY <1>2, <2>9 DEF Counted
<1>5. CASE SocketClose
  <2>1. /\ readyState \in {"connecting", "open"} /\ readyState' = "closed" /\ session' = session
        /\ down' = down /\ channelIdSeq' = channelIdSeq
    BY <1>5 DEF SocketClose, network
  <2>2. Rounds' = Rounds \/ Rounds' = Rounds + 1
    BY <1>0, <2>1 DEF Rounds
  <2>3. ClosesDown' = ClosesDown
    BY <2>1 DEF ClosesDown
  <2>4. Spent' = Spent
    BY <2>1, <2>3 DEF Spent
  <2>5. Allowed' >= Allowed
    BY <1>0, <1>1, <1>2, <2>2, RoundsStep
  <2>6. Spent' <= Allowed'
    BY <1>2, <2>4, <2>5
  <2> QED BY <1>2, <2>6 DEF Counted
<1> QED BY <1>3, <1>4, <1>5

LEMMA BrowserCounted ==
  ASSUME TypeOK, TypeOK', Counted,
         OnMessage \/ \E c \in channels : ServiceCloses(c) \/ ServiceSends(c)
  PROVE  Counted'
<1>1. ASSUME NEW c \in channels, ServiceCloses(c) PROVE Counted'
  <2>1. /\ UNCHANGED <<readyState, session, listened, down>>
        /\ closes' = closes + 1 /\ closes < MaxCloses /\ CloseAndReopen(c, TRUE)
    BY <1>1 DEF ServiceCloses
  <2>2. PICK g \in {0, 1} : channelIdSeq' = channelIdSeq + g
    BY <2>1, ReopensOne
  <2>3. ClosesDown' <= ClosesDown + 0
    BY <2>1, ClosesDownType DEF ClosesDown
  <2> QED BY <2>1, <2>2, <2>3, CountedStep
<1>2. ASSUME NEW c \in channels, ServiceSends(c) PROVE Counted'
  <2>1. /\ UNCHANGED <<readyState, session, listened, down>>
        /\ closes' = closes + 0 /\ channelIdSeq' = channelIdSeq + 0
    BY <1>2 DEF ServiceSends, browserVars, TypeOK
  <2>2. ClosesDown' <= ClosesDown + 0
    BY <2>1, ClosesDownType DEF ClosesDown
  <2> QED BY <2>1, <2>2, CountedStep
<1>3. ASSUME OnMessage PROVE Counted'
  <2> DEFINE q == down[session]
             m == Head(q)
  <2>1. /\ session \in Sessions /\ q # <<>> /\ NextDown(m)
        /\ AnswerPing(m) \/ HandleReady(m) \/ HandleData(m) \/ HandleClose(m)
    BY <1>3 DEF OnMessage
  <2>2. /\ UNCHANGED <<readyState, session, listened>> /\ closes' = closes + 0
        /\ down'[session] = Tail(q)
    BY <2>1 DEF NextDown, TypeOK
  <2>3. q \in Seq(Messages)
    BY <2>1 DEF TypeOK
  <2>4. PICK h \in {0, -1} : /\ ClosesDown' <= ClosesDown + h
                             /\ m.kind = "close" => h = -1
    <3> HIDE DEF q
    <3>1. /\ Cardinality(Closes(Tail(q))) + (IF Head(q).kind = "close" THEN 1 ELSE 0)
               <= Cardinality(Closes(q))
          /\ Cardinality(Closes(q)) \in Nat
      BY <2>1, <2>3, ClosesCounted
    <3>2. ClosesDown = Cardinality(Closes(q)) /\ ClosesDown' = Cardinality(Closes(Tail(q)))
      BY <2>1, <2>2 DEF ClosesDown, q
    <3>3. ClosesDown \in Nat /\ ClosesDown' \in Nat
      BY ClosesDownType, ClosesDownNext
    <3>4. CASE m.kind = "close"
      <4>1. ClosesDown' <= ClosesDown + (-1)
        BY <3>1, <3>2, <3>3, <3>4
      <4> QED BY <3>4, <4>1
    <3>5. CASE m.kind # "close"
      <4>1. ClosesDown' <= ClosesDown + 0
        BY <3>1, <3>2, <3>3, <3>5
      <4> QED BY <3>5, <4>1
    <3> QED BY <3>4, <3>5
  <2>5. PICK g \in {0, 1} : channelIdSeq' = channelIdSeq + g /\ (m.kind # "close" => g = 0)
    <3>1. CASE HandleClose(m) /\ ChannelsFor(m) # {}
      <4>1. PICK c \in ChannelsFor(m) : CloseAndReopen(c, FALSE)
        BY <3>1 DEF HandleClose
      <4>2. m.kind = "close"
        BY <3>1 DEF HandleClose
      <4> QED BY <4>1, <4>2, ReopensOne
    <3>2. CASE channelIdSeq' = channelIdSeq
      BY <3>2 DEF TypeOK
    <3> QED BY <2>1, <3>1, <3>2 DEF AnswerPing, HandleReady, HandleData, HandleClose
  <2>6. g + h <= 0
    BY <2>4, <2>5
  <2>7. g \in Int /\ h \in Int /\ 0 \in {0, 1}
    OBVIOUS
  <2> HIDE DEF q, m
  <2> QED BY <2>2, <2>4, <2>5, <2>6, <2>7, CountedStep
<1> QED BY <1>1, <1>2, <1>3

LEMMA BackendCounted ==
  ASSUME TypeOK, TypeOK', Counted, NEW s \in Sessions,
         \/ OnMessageUp(s) \/ BackSocketClose(s) \/ CheckAlive(s) \/ LinkBreaks(s)
         \/ \E c \in backChannels[s] : BackServiceCloses(s, c) \/ BackServiceSends(s, c)
  PROVE  Counted'
<1>0. channelIdSeq \in Nat /\ closes \in Nat /\ ClosesDown \in Nat
  BY ClosesDownType DEF TypeOK
\* Nothing is sent, or another message than a close.
<1>1. ASSUME UNCHANGED <<readyState, session, listened, channelIdSeq, closes>>,
             \/ down' = down \/ CutLink(s)
             \/ \E d \in Messages : d.kind # "close" /\ SendDown(s, <<d>>)
      PROVE  Counted'
  <2>1. ClosesDown' <= ClosesDown + 0
    <3>1. CASE down' = down
      BY <1>0, <1>1, <3>1 DEF ClosesDown
    <3>2. CASE CutLink(s)
      <4>1. session \in Sessions => down'[session] = down[session] \/ down'[session] = <<>>
        BY <3>2 DEF CutLink, TypeOK
      <4>2. Closes(<<>>) = {}
        BY DEF Closes
      <4>3. ClosesDown' = ClosesDown \/ ClosesDown' = 0
        BY <1>1, <4>1, <4>2, FS_EmptySet DEF ClosesDown
      <4> QED BY <1>0, <4>3
    <3>3. CASE \E d \in Messages : d.kind # "close" /\ SendDown(s, <<d>>)
      BY <1>1, <3>3, DownCounted
    <3> QED BY <1>1, <3>1, <3>2, <3>3
  <2>2. channelIdSeq' = channelIdSeq + 0 /\ closes' = closes + 0
    BY <1>0, <1>1
  <2> QED BY <1>1, <2>1, <2>2, CountedStep
\* A service closes.
<1>2. ASSUME UNCHANGED <<readyState, session, listened, channelIdSeq>>,
             closes' = closes + 1, closes < MaxCloses, NEW i \in Nat,
             SendDown(s, <<Message("close", i)>>)
      PROVE  Counted'
  <2>1. Message("close", i) \in Messages /\ Message("close", i).kind = "close"
    BY MessageTypes DEF Message
  <2>2. ClosesDown' <= ClosesDown + 1
    BY <1>2, <2>1, DownCounted
  <2>3. channelIdSeq' = channelIdSeq + 0
    BY <1>0, <1>2
  <2> QED BY <1>2, <2>2, <2>3, CountedStep
<1>3. ASSUME OnMessageUp(s) PROVE Counted'
  <2> DEFINE m == Head(up[s])
  <2>1. /\ up[s] # <<>> /\ NextUp(s, m)
        /\ HandleOpen(s, m) \/ HandleDataUp(s, m) \/ HandleCloseUp(s, m) \/ HandlePong(s, m)
    BY <1>3 DEF OnMessageUp
  <2>2. UNCHANGED <<readyState, session, listened, channelIdSeq>> /\ m \in Messages
    BY <2>1 DEF NextUp, browserVars, TypeOK
  <2> HIDE DEF m
  <2>3. CASE HandleOpen(s, m)
    <3>1. m.id \in Nat
      BY <2>2, <2>3 DEF HandleOpen, Messages
    <3>2. Message("ready", m.id) \in Messages /\ Message("ready", m.id).kind # "close"
      BY <3>1, MessageTypes DEF Message
    <3> QED BY <1>1, <1>2, <2>2, <2>3, <3>1, <3>2 DEF HandleOpen
  <2>4. CASE HandleDataUp(s, m) \/ HandleCloseUp(s, m) \/ HandlePong(s, m)
    BY <1>1, <2>2, <2>4 DEF HandleDataUp, HandleCloseUp, HandlePong
  <2> QED BY <2>1, <2>3, <2>4
<1>4. ASSUME BackSocketClose(s) PROVE Counted'
  BY <1>1, <1>4 DEF BackSocketClose, browserVars, network, history
<1>5. ASSUME CheckAlive(s) PROVE Counted'
  <2>1. Message("ping", 0) \in Messages /\ Message("ping", 0).kind # "close"
    BY MessageTypes DEF Message
  <2> QED BY <1>1, <1>5, <2>1 DEF CheckAlive, browserVars, history
<1>6. ASSUME LinkBreaks(s) PROVE Counted'
  BY <1>1, <1>6 DEF LinkBreaks, browserVars, history
<1>7. ASSUME NEW c \in backChannels[s], BackServiceCloses(s, c) PROVE Counted'
  <2>1. c.id \in Nat
    BY DEF TypeOK, BackChannel
  <2> QED BY <1>2, <1>7, <2>1 DEF BackServiceCloses, browserVars
<1>8. ASSUME NEW c \in backChannels[s], BackServiceSends(s, c) PROVE Counted'
  <2> DEFINE d == DataMessage(c.id, sent[c.id].down + 1)
  <2>1. d \in Messages /\ d.kind # "close"
    <3>1. c.id \in Nat /\ sent[c.id].down + 1 \in Nat
      BY <1>8 DEF BackServiceSends, TypeOK, BackChannel
    <3> QED BY <3>1, MessageTypes DEF DataMessage
  <2>2. SendDown(s, <<d>>) /\ UNCHANGED <<readyState, session, listened, channelIdSeq, closes>>
    BY <1>8 DEF BackServiceSends, browserVars
  <2> QED BY <1>1, <2>1, <2>2
<1> QED BY <1>3, <1>4, <1>5, <1>6, <1>7, <1>8

-----------------------------------------------------------------------------
(* The steps that give the handlers channels.                              *)

SupplyInv == Single /\ Latest /\ Counted
SupplyStep == Single' /\ Latest' /\ [Supply!Next]_(Supply!vars)

\* Every id taken is one of those followed.
LEMMA IdsFollowed ==
  ASSUME TypeOK, Counted, NEW i \in Nat, i < channelIdSeq
  PROVE  i \in ChannelIds
<1> DEFINE n == Cardinality(Paths)
           r == Rounds
           l == Cardinality(listened)
<1>1. n \in Nat /\ l \in Nat /\ l <= n /\ ClosesDown \in Nat
  BY ClosesDownType
<1>2. /\ session \in Nat /\ session <= MaxSessions /\ MaxSessions \in Nat /\ MaxCloses \in Nat
      /\ channelIdSeq \in Nat /\ closes \in Nat
  BY WsAssumption DEF TypeOK
<1>3. r \in Int /\ r <= MaxSessions
  BY <1>2 DEF Rounds
<1>4. channelIdSeq + ClosesDown <= closes + l + n * r /\ closes <= MaxCloses
  BY DEF Counted, Spent, Allowed
<1>5. n * r <= n * MaxSessions /\ n * r \in Int /\ n * MaxSessions \in Int
  <2> HIDE DEF n, r
  <2>1. PICK k \in Nat : MaxSessions = r + k
    <3>1. MaxSessions - r \in Nat /\ MaxSessions = r + (MaxSessions - r)
      BY <1>2, <1>3
    <3> QED BY <3>1
  <2>2. n * (r + k) = n * r + n * k /\ n * k \in Nat /\ n * r \in Int
    BY <1>1, <1>3
  <2> QED BY <2>1, <2>2
<1> HIDE DEF n, r, l
<1>6. n * (MaxSessions + 1) = n * MaxSessions + n
  BY <1>1, <1>2
<1>7. channelIdSeq <= n * (MaxSessions + 1) + MaxCloses
  BY <1>1, <1>2, <1>4, <1>5, <1>6
<1>8. n * (MaxSessions + 1) + MaxCloses \in Int
  BY <1>1, <1>2
<1>9. i \in 0 .. n * (MaxSessions + 1) + MaxCloses
  BY <1>2, <1>7, <1>8
<1> QED BY <1>9 DEF ChannelIds, n

\* What a step that gives no handler a channel leaves.
Withdraws ==
  /\ UNCHANGED newest /\ channelIdSeq' >= channelIdSeq
  /\ \A c \in channels' : c \in channels \/ (c.id >= channelIdSeq /\ ~c.opened)

LEMMA WithdrawSupplies ==
  ASSUME IInv, DataInv, SupplyInv, TypeOK', Single', Withdraws
  PROVE  SupplyStep
BY NoneGiven DEF SupplyInv, SupplyStep, Withdraws

LEMMA SameSupplies ==
  ASSUME IInv, DataInv, SupplyInv, TypeOK', UNCHANGED <<newest, channelIdSeq, channels>>
  PROVE  SupplyStep
<1>1. channelIdSeq' >= channelIdSeq
  BY DEF TypeOK
<1>2. Single'
  BY DEF SupplyInv, Single
<1> QED BY <1>1, <1>2, WithdrawSupplies DEF Withdraws

LEMMA ReopenSupplies ==
  ASSUME IInv, DataInv, SupplyInv, TypeOK', NEW c \in channels, NEW b, CloseAndReopen(c, b),
         UNCHANGED newest
  PROVE  SupplyStep
<1>0. channelIdSeq \in Nat /\ c.path \in Paths /\ Single
  BY DEF IInv, TypeOK, Channel, SupplyInv
<1>1. PICK g \in {0, 1} : channelIdSeq' = channelIdSeq + g
  BY ReopensOne
<1> DEFINE d == [id |-> channelIdSeq, path |-> c.path, opened |-> FALSE]
<1>2. channels' \subseteq (channels \ {c}) \cup {d}
  <2>1. CASE c.path \in PathsToReopen({c})
    <3>1. channels' = Remaining({c}) \cup NewChannels(<<c.path>>)
      BY <2>1 DEF CloseAndReopen
    <3> QED BY <1>0, <3>1, NewOne DEF Remaining
  <2>2. CASE c.path \notin PathsToReopen({c})
    <3>1. channels' = Remaining({c}) \cup NewChannels(<<>>)
      BY <2>2 DEF CloseAndReopen
    <3>2. NewChannels(<<>>) = {}
      BY DEF NewChannels
    <3> QED BY <3>1, <3>2 DEF Remaining
  <2> QED BY <2>1, <2>2
<1>3. Single'
  <2>1. \A x \in channels \ {c} : x.path # d.path
    BY <1>0 DEF Single
  <2> HIDE DEF d
  <2>2. \A x, y \in channels' : x.path = y.path => x = y
    BY <1>0, <1>2, <2>1 DEF Single
  <2> QED BY <2>2 DEF Single
<1>4. Withdraws
  BY <1>0, <1>1, <1>2 DEF Withdraws
<1> QED BY <1>3, <1>4, WithdrawSupplies

LEMMA ListenSupplies ==
  ASSUME IInv, DataInv, SupplyInv, TypeOK', NEW p \in Paths, Listen(p)
  PROVE  SupplyStep
<1>0. channelIdSeq \in Nat /\ Single /\ UNCHANGED newest /\ p \notin listened
      /\ \A c \in channels : c.path \in listened
  BY DEF IInv, TypeOK, SupplyInv, Listen, history, Placed
<1>1. CASE readyState = "open"
  <2> DEFINE d == [id |-> channelIdSeq, path |-> p, opened |-> FALSE]
  <2>1. channels' = channels \cup {d} /\ channelIdSeq' = channelIdSeq + 1
    BY <1>0, <1>1, NewOne DEF Listen
  <2>2. Single'
    <3>1. \A x \in channels : x.path # d.path
      BY <1>0
    <3> HIDE DEF d
    <3>2. \A x, y \in channels' : x.path = y.path => x = y
      BY <1>0, <2>1, <3>1 DEF Single
    <3> QED BY <3>2 DEF Single
  <2>3. Withdraws
    BY <1>0, <2>1 DEF Withdraws
  <2> QED BY <2>2, <2>3, WithdrawSupplies
<1>2. CASE readyState # "open"
  BY <1>0, <1>2, SameSupplies DEF Listen
<1> QED BY <1>1, <1>2

LEMMA SocketSupplies ==
  ASSUME IInv, DataInv, SupplyInv, TypeOK', Connect \/ SocketOpen \/ SocketClose
  PROVE  SupplyStep
<1>0. TypeOK /\ Placed /\ channelIdSeq \in Nat
  BY DEF IInv, TypeOK
<1>1. CASE Connect
  BY <1>1, SameSupplies DEF Connect, history
<1>2. CASE SocketOpen
  <2>1. PICK ps \in Orders(openListeners) :
          channels' = channels \cup NewChannels(ps) /\ channelIdSeq' = channelIdSeq + Len(ps)
    BY <1>2 DEF SocketOpen
  <2>2. /\ ps \in Seq(Paths) /\ \A i \in DOMAIN ps : ps[i] \in openListeners
        /\ \A x \in openListeners : \E i \in DOMAIN ps : \A j \in DOMAIN ps : ps[j] = x <=> j = i
    BY <1>0, OrdersListed DEF TypeOK
  <2>3. channels = {} /\ UNCHANGED newest
    BY <1>0, <1>2 DEF SocketOpen, Placed, history
  <2>4. \A c \in NewChannels(ps) :
          \E i \in DOMAIN ps : c.id = NewId(i) /\ c.path = ps[i] /\ ~c.opened
    BY <1>0, <2>2, NewOnes
  <2>5. \A i \in DOMAIN ps : NewId(i) \in Nat /\ channelIdSeq <= NewId(i)
    BY <1>0, <2>2, NewOnes
  <2>6. \A i, j \in DOMAIN ps : ps[i] = ps[j] => i = j
    BY <2>2
  <2>7. Single'
    <3>1. NewChannels(ps) = {[id |-> NewId(i), path |-> ps[i], opened |-> FALSE] : i \in DOMAIN ps}
      BY DEF NewChannels
    <3>2. ASSUME NEW x \in channels', NEW y \in channels', x.path = y.path PROVE x = y
      <4>1. PICK i \in DOMAIN ps : x = [id |-> NewId(i), path |-> ps[i], opened |-> FALSE]
        BY <2>1, <2>3, <3>1
      <4>2. PICK j \in DOMAIN ps : y = [id |-> NewId(j), path |-> ps[j], opened |-> FALSE]
        BY <2>1, <2>3, <3>1
      <4>3. i = j
        BY <2>6, <3>2, <4>1, <4>2
      <4> QED BY <4>1, <4>2, <4>3
    <3> QED BY <3>2 DEF Single
  <2>8. Withdraws
    <3>1. channelIdSeq' >= channelIdSeq
      BY <1>0, <2>1, <2>2
    <3>2. \A c \in channels' : c.id >= channelIdSeq /\ ~c.opened
      BY <1>0, <2>1, <2>3, <2>4, <2>5
    <3> QED BY <2>3, <3>1, <3>2 DEF Withdraws
  <2> QED BY <2>7, <2>8, WithdrawSupplies
<1>3. CASE SocketClose
  <2>1. channels' = {} /\ UNCHANGED <<newest, channelIdSeq>>
    BY <1>3 DEF SocketClose, Remaining, history
  <2>2. Single' /\ Withdraws
    BY <1>0, <2>1 DEF Single, Withdraws
  <2> QED BY <2>2, WithdrawSupplies
<1> QED BY <1>1, <1>2, <1>3

\* The one step that gives a handler its channel.
LEMMA ReadySupplies ==
  ASSUME IInv, DataInv, SupplyInv, TypeOK', NEW m \in Messages, HandleReady(m)
  PROVE  SupplyStep
<1>0. /\ newest \in [Paths -> Nat \cup {-1}] /\ channelIdSeq \in Nat
      /\ \A c \in channels : c \in Channel /\ c.id < channelIdSeq
      /\ \A c, d \in channels : c.id = d.id => c = d
      /\ Single /\ Latest /\ channelIdSeq' = channelIdSeq
  BY DEF IInv, TypeOK, DataInv, OwnIds, SupplyInv, HandleReady
<1>1. /\ channels' = {IF c \in ChannelsFor(m) THEN [c EXCEPT !.opened = TRUE] ELSE c : c \in channels}
      /\ newest' = [p \in Paths |-> IF \E c \in ChannelsFor(m) : c.path = p THEN m.id ELSE newest[p]]
  BY DEF HandleReady
<1>2. CASE ChannelsFor(m) = {}
  <2>1. channels' = channels /\ newest' = newest
    BY <1>0, <1>1, <1>2
  <2> QED BY <1>0, <2>1, SameSupplies
<1>3. ASSUME NEW e \in channels, e.id = m.id, e.opened PROVE SupplyStep
  <2>1. ChannelsFor(m) = {e} /\ newest[e.path] = m.id
    BY <1>0, <1>3 DEF ChannelsFor, Latest
  <2>2. [e EXCEPT !.opened = TRUE] = e
    BY <1>0, <1>3 DEF Channel
  <2>3. channels' = channels
    BY <1>1, <2>1, <2>2
  <2>4. newest' = newest
    BY <1>0, <1>1, <2>1
  <2> QED BY <1>0, <2>3, <2>4, SameSupplies
<1>4. ASSUME NEW e \in channels, e.id = m.id, ~e.opened PROVE SupplyStep
  <2> DEFINE f == [e EXCEPT !.opened = TRUE]
             p == e.path
  <2>1. ChannelsFor(m) = {e} /\ newest[p] < m.id
    BY <1>0, <1>4 DEF ChannelsFor, Latest
  <2>2. f.id = m.id /\ f.path = p /\ f.opened /\ p \in Paths /\ m.id \in Nat
    BY <1>0, <1>4 DEF Channel
  <2>3. channels' = (channels \ {e}) \cup {f}
    BY <1>1, <2>1
  <2>4. newest' = [newest EXCEPT ![p] = m.id]
    BY <1>0, <1>1, <2>1
  <2>5. \A d \in channels \ {e} : d.path # p
    BY <1>0 DEF Single
  <2> HIDE DEF f, p
  <2>6. Single'
    <3>1. \A x, y \in channels' : x.path = y.path => x = y
      BY <1>0, <2>2, <2>3, <2>5 DEF Single
    <3> QED BY <3>1 DEF Single
  <2>7. Latest'
    <3>1. \A x \in Paths : newest'[x] < channelIdSeq'
      <4>1. m.id < channelIdSeq
        BY <1>0, <1>4
      <4> QED BY <1>0, <2>4, <4>1 DEF Latest
    <3>2. ASSUME NEW d \in channels'
          PROVE  IF d.opened THEN newest'[d.path] = d.id ELSE newest'[d.path] < d.id
      <4>1. CASE d = f
        BY <1>0, <2>2, <2>4, <4>1
      <4>2. CASE d \in channels \ {e}
        <5>1. d.path # p /\ d.path \in Paths
          BY <1>0, <2>5, <4>2 DEF Channel
        <5>2. newest'[d.path] = newest[d.path]
          BY <1>0, <2>4, <5>1
        <5> QED BY <1>0, <4>2, <5>2 DEF Latest
      <4> QED BY <2>3, <4>1, <4>2
    <3> QED BY <3>1, <3>2 DEF Latest
  <2>8. Supply!Provide(p)
    <3>1. CurrentId(p) = -1
      <4>1. \A d \in channels : d.path = p => ~d.opened
        BY <1>4, <2>5
      <4> QED BY <1>0, <4>1, CurrentOf
    <3>2. m.id \in ChannelIds
      BY <1>0, <1>4, <2>2, IdsFollowed DEF IInv, SupplyInv
    <3>3. ASSUME NEW x \in Paths
          PROVE  CurrentId(x)' = IF x = p THEN m.id ELSE CurrentId(x)
      <4>1. CASE x = p
        <5>1. OpenedIds(x)' = {m.id}
          BY <2>2, <2>3, <2>5, <4>1 DEF OpenedIds
        <5> QED BY <4>1, <5>1 DEF CurrentId
      <4>2. CASE x # p
        <5>1. OpenedIds(x)' = OpenedIds(x)
          BY <1>4, <2>2, <2>3, <2>5, <4>2 DEF OpenedIds, p
        <5> QED BY <4>2, <5>1 DEF CurrentId
      <4> QED BY <4>1, <4>2
    <3>4. [x \in Paths |-> CurrentId(x)]' = [[x \in Paths |-> CurrentId(x)] EXCEPT ![p] = m.id]
      BY <2>2, <3>3
    <3> QED BY <2>1, <2>2, <2>4, <3>1, <3>2, <3>4 DEF Supply!Provide
  <2>9. Supply!Next
    <3>1. PICK x \in Paths : x = p
      BY <2>2
    <3> QED BY <2>8, <3>1 DEF Supply!Next
  <2> QED BY <2>6, <2>7, <2>9 DEF SupplyStep
<1> QED BY <1>2, <1>3, <1>4 DEF ChannelsFor

LEMMA NextSupplies ==
  ASSUME IInv, DataInv, SupplyInv, TypeOK', Next
  PROVE  SupplyInv' /\ SupplyStep
<1>0. TypeOK /\ Lone /\ Counted
  BY DEF IInv, DataInv, SupplyInv
<1>1. ASSUME NEW p \in Paths, Listen(p) PROVE Counted' /\ SupplyStep
  BY <1>0, <1>1, ListenCounted, ListenSupplies
<1>2. ASSUME Connect \/ SocketOpen \/ SocketClose PROVE Counted' /\ SupplyStep
  BY <1>0, <1>2, SocketCounted, SocketSupplies
<1>3. ASSUME OnMessage PROVE SupplyStep
  <2> DEFINE m == Head(down[session])
  <2>1. /\ session \in Sessions /\ down[session] # <<>> /\ NextDown(m)
        /\ AnswerPing(m) \/ HandleReady(m) \/ HandleData(m) \/ HandleClose(m)
    BY <1>3 DEF OnMessage
  <2>2. m \in Messages
    BY <1>0, <2>1 DEF TypeOK
  <2>3. CASE HandleReady(m)
    BY <2>2, <2>3, ReadySupplies
  <2>4. CASE AnswerPing(m) \/ HandleData(m)
    BY <2>4, SameSupplies DEF AnswerPing, HandleData
  <2>5. CASE HandleClose(m)
    <3>1. CASE ChannelsFor(m) = {}
      BY <2>5, <3>1, SameSupplies DEF HandleClose
    <3>2. CASE ChannelsFor(m) # {}
      <4>1. PICK c \in ChannelsFor(m) : CloseAndReopen(c, FALSE)
        BY <2>5, <3>2 DEF HandleClose
      <4>2. c \in channels /\ UNCHANGED newest
        BY <2>5 DEF HandleClose, ChannelsFor
      <4> QED BY <4>1, <4>2, ReopenSupplies
    <3> QED BY <3>1, <3>2
  <2> HIDE DEF m
  <2> QED BY <2>1, <2>3, <2>4, <2>5
<1>4. ASSUME NEW c \in channels, ServiceCloses(c) \/ ServiceSends(c) PROVE SupplyStep
  <2>1. CASE ServiceCloses(c)
    BY <2>1, ReopenSupplies DEF ServiceCloses
  <2>2. CASE ServiceSends(c)
    BY <2>2, SameSupplies DEF ServiceSends, browserVars
  <2> QED BY <1>4, <2>1, <2>2
<1>5. ASSUME NEW s \in Sessions,
             \/ OnMessageUp(s) \/ BackSocketClose(s) \/ CheckAlive(s) \/ LinkBreaks(s)
             \/ \E c \in backChannels[s] : BackServiceCloses(s, c) \/ BackServiceSends(s, c)
      PROVE  Counted' /\ SupplyStep
  <2>1. UNCHANGED <<newest, channelIdSeq, channels>>
    BY <1>5 DEF OnMessageUp, NextUp, BackSocketClose, CheckAlive, LinkBreaks,
                BackServiceCloses, BackServiceSends, browserVars, history
  <2>2. SupplyStep
    BY <2>1, SameSupplies
  <2>3. Counted'
    BY <1>0, <1>5, BackendCounted
  <2> QED BY <2>2, <2>3
<1>6. ASSUME OnMessage \/ \E c \in channels : ServiceCloses(c) \/ ServiceSends(c)
      PROVE  Counted' /\ SupplyStep
  <2>1. Counted'
    BY <1>0, <1>6, BrowserCounted
  <2> QED BY <1>3, <1>4, <1>6, <2>1
<1>7. Counted' /\ SupplyStep
  BY <1>1, <1>2, <1>5, <1>6 DEF Next
<1> QED BY <1>7 DEF SupplyInv, SupplyStep

\* The browser's provider, over any sequence of sessions and closes on both sides,
\* gives the handler of a path one channel after the other: none while it has one,
\* and never one it was given before.
THEOREM SuppliesOneByOne == Spec => SuppliesChannels
<1>1. Init => SupplyInv /\ Supply!Init
  <2> SUFFICES ASSUME Init PROVE SupplyInv /\ Supply!Init
    OBVIOUS
  <2>1. /\ channels = {} /\ channelIdSeq = 0 /\ session = 0 /\ readyState = "closed" /\ closes = 0
        /\ listened = {} /\ newest = [p \in Paths |-> -1]
    BY DEF Init
  <2>2. Single /\ Latest
    BY <2>1 DEF Single, Latest
  <2>3. Counted
    <3>1. Rounds = 0 /\ ClosesDown = 0 /\ Cardinality(listened) = 0
      BY <2>1, FS_EmptySet DEF Rounds, ClosesDown, Sessions
    <3>2. Cardinality(Paths) \in Nat
      BY WsAssumption, FS_CardinalityType
    <3>3. Spent = 0
      BY <2>1, <3>1 DEF Spent
    <3>4. Allowed = 0
      BY <2>1, <3>1, <3>2 DEF Allowed
    <3>5. closes <= MaxCloses
      BY <2>1, WsAssumption
    <3> QED BY <3>3, <3>4, <3>5 DEF Counted
  <2>4. \A p : CurrentId(p) = -1
    BY <2>1 DEF CurrentId, OpenedIds
  <2>5. Supply!Init
    BY <2>1, <2>4 DEF Supply!Init
  <2> QED BY <2>2, <2>3, <2>5 DEF SupplyInv
<1>2. IInv /\ DataInv /\ SupplyInv /\ TypeOK' /\ [Next]_vars
        => SupplyInv' /\ [Supply!Next]_(Supply!vars)
  <2> SUFFICES ASSUME IInv, DataInv, SupplyInv, TypeOK', [Next]_vars
               PROVE  SupplyInv' /\ [Supply!Next]_(Supply!vars)
    OBVIOUS
  <2>1. CASE Next
    BY <2>1, NextSupplies DEF SupplyStep
  <2>2. CASE UNCHANGED vars
    <3>1. UNCHANGED <<newest, channelIdSeq, channels>> /\ UNCHANGED <<closes, listened, session, readyState, down>>
      BY <2>2 DEF vars, browserVars, network, history
    <3>2. SupplyStep
      BY <3>1, SameSupplies
    <3>3. Counted'
      BY <3>1 DEF SupplyInv, Counted, Spent, Allowed, Rounds, ClosesDown
    <3> QED BY <3>2, <3>3 DEF SupplyStep, SupplyInv
  <2> QED BY <2>1, <2>2
<1>3. IInv => TypeOK
  BY DEF IInv
<1> QED BY <1>1, <1>2, <1>3, Invariance, DataInvariance, PTL DEF Spec, SuppliesChannels, Supply!Spec
=============================================================================
