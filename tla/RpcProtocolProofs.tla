------------------------- MODULE RpcProtocolProofs --------------------------
(***************************************************************************)
(* Proofs about RpcProtocol, for any number of hosts and of calls.         *)
(***************************************************************************)
EXTENDS RpcProtocol, SequenceTheorems, TLAPS

USE DEF queues, receiver, caller, vars, CapturedCallId

\* Appending to a sequence that is not empty keeps its head.
LEMMA AppendKeepsHead ==
  ASSUME NEW S, NEW s \in Seq(S), NEW e \in S
  PROVE  /\ Append(s, e) \in Seq(S) /\ Append(s, e) # <<>>
         /\ s # <<>> => Head(Append(s, e)) = Head(s)
<1>1. Append(s, e) \in Seq(S) /\ Len(Append(s, e)) = Len(s) + 1 /\ Append(s, e) # <<>>
  BY AppendProperties
<1>2. ASSUME s # <<>> PROVE Head(Append(s, e)) = Head(s)
  <2>1. Len(s) \in Nat \ {0} BY <1>2, EmptySeq
  <2>2. Append(s, e)[1] = s[1] BY <2>1, AppendProperties
  <2> QED BY <1>1, <1>2, <2>2
<1> QED BY <1>1, <1>2

\* The process and the peer of a protocol object are what their names say.
LEMMA ObjectFacts ==
  ASSUME NEW p \in Protocols
  PROVE  /\ Other(p) \in Protocols /\ Other(Other(p)) = p /\ Other(p) # p
         /\ ProcessOf(p) \in Processes
         /\ p[1] \in {"main", "ext"} /\ p[2] \in Hosts /\ p = <<p[1], p[2]>>
BY RpcAssumption DEF Protocols, Other, ProcessOf, Processes

\* Which pairs are calls.
LEMMA CallFacts ==
  \A p, i : <<p, i>> \in Calls <=> p \in Protocols /\ i \in 1 .. MaxCalls[p]
BY DEF Calls

\* Queueing a well-formed message leaves the queues well formed.
LEMMA SendType ==
  ASSUME TypeOK, NEW p \in Protocols, NEW m \in Message, Send(p, m)
  PROVE  /\ messagesToSend' \in [Protocols -> Seq(Message)]
         /\ flushScheduled' \in [Protocols -> BOOLEAN]
BY DEF TypeOK, Send

\* MessageFactory builds messages.
LEMMA MsgType ==
  ASSUME TypeOK, NEW p \in Protocols, NEW t \in MessageTypes, NEW i \in Nat,
         NEW k \in Kinds \cup {"none"}, NEW c \in Protocols \X Nat
  PROVE  Msg(p, t, i, k, c) \in Message
BY DEF TypeOK, Msg, Message

LEMMA InitType == Init => TypeOK
<1> SUFFICES ASSUME Init PROVE TypeOK OBVIOUS
<1>1. \A p \in Protocols : SetHostID(p) \in Message
  BY ObjectFacts DEF SetHostID, Message, MessageTypes
<1>2. messagesToSend \in [Protocols -> Seq(Message)]
  BY <1>1 DEF Init
<1>3. lastMessageId \in [Protocols -> Nat] /\ \A p \in Protocols : lastMessageId[p] <= MaxCalls[p]
  BY RpcAssumption DEF Init
<1>4. outcome \in [Calls -> Outcome]
  BY DEF Init, Calls, Outcome
<1> QED BY <1>2, <1>3, <1>4 DEF Init, TypeOK

LEMMA RemoteCallType ==
  ASSUME TypeOK, NEW p \in Protocols, NEW k \in Kinds, RemoteCall(p, k)
  PROVE  TypeOK'
<1> DEFINE id == NextCallId(p)
<1>1. id \in Nat /\ id \in 1 .. MaxCalls[p] /\ id = lastMessageId[p] + 1
  <2>1. lastMessageId[p] \in Nat BY DEF TypeOK
  <2>2. MaxCalls[p] \in Nat BY RpcAssumption
  <2>3. lastMessageId[p] < MaxCalls[p] BY DEF RemoteCall
  <2> QED BY <2>1, <2>2, <2>3 DEF NextCallId
<1>2. Msg(p, "request", id, k, <<p, id>>) \in Message
  BY <1>1, MsgType DEF MessageTypes
<1>3. /\ messagesToSend' \in [Protocols -> Seq(Message)]
      /\ flushScheduled' \in [Protocols -> BOOLEAN]
  BY <1>2, SendType DEF RemoteCall
<1>4. /\ lastMessageId' \in [Protocols -> Nat]
      /\ pendingRPCReplies' \in [Protocols -> SUBSET Nat]
      /\ tokens' \in [Protocols -> SUBSET Nat]
  BY <1>1 DEF TypeOK, RemoteCall
<1>5. \A q \in Protocols : /\ lastMessageId'[q] <= MaxCalls[q]
                           /\ pendingRPCReplies'[q] \subseteq 1 .. lastMessageId'[q]
                           /\ tokens'[q] \subseteq 1 .. lastMessageId'[q]
  BY <1>1 DEF TypeOK, RemoteCall
<1>6. outcome' \in [Calls -> Outcome]
  <2>1. outcome \in [Calls -> Outcome] BY DEF TypeOK
  <2>2. outcome' = [outcome EXCEPT ![<<p, id>>] = [@ EXCEPT !.status = "pending"]]
    BY DEF RemoteCall
  <2>3. \A r \in Outcome : [r EXCEPT !.status = "pending"] \in Outcome BY DEF Outcome
  <2> QED BY <2>1, <2>2, <2>3
<1> QED BY <1>3, <1>4, <1>5, <1>6 DEF TypeOK, RemoteCall

LEMMA CancelCallType ==
  ASSUME TypeOK, NEW p \in Protocols, NEW id \in tokens[p], CancelCall(p, id)
  PROVE  TypeOK'
<1>1. id \in Nat BY DEF TypeOK
<1>2. Msg(p, "cancel", id, "none", <<p, id>>) \in Message
  BY <1>1, MsgType DEF MessageTypes
<1>3. /\ messagesToSend' \in [Protocols -> Seq(Message)]
      /\ flushScheduled' \in [Protocols -> BOOLEAN]
  BY <1>2, SendType DEF CancelCall
<1>4. tokens' \in [Protocols -> SUBSET Nat] /\ \A q \in Protocols : tokens'[q] \subseteq tokens[q]
  BY DEF TypeOK, CancelCall
<1> QED BY <1>3, <1>4 DEF TypeOK, CancelCall

LEMMA SendAccumulatedType ==
  ASSUME TypeOK, NEW p \in Protocols, SendAccumulated(p)
  PROVE  TypeOK'
<1>1. Destination(p) \in Processes BY ObjectFacts DEF Destination
<1>2. wire' \in [Processes -> Seq(Seq(Message))]
  BY <1>1 DEF TypeOK, SendAccumulated
<1> QED BY <1>2 DEF TypeOK, SendAccumulated

LEMMA ReceiveBatchType ==
  ASSUME TypeOK, NEW e \in Processes, ReceiveBatch(e)
  PROVE  TypeOK'
<1>1. Head(wire[e]) \in Seq(Message) /\ Tail(wire[e]) \in Seq(Seq(Message))
  BY DEF TypeOK, ReceiveBatch
<1> QED BY <1>1 DEF TypeOK, ReceiveBatch

\* What the handlers of the message types share.
LEMMA NextMessageType ==
  ASSUME TypeOK, NEW p \in Protocols, NEW m, NextMessage(p, m)
  PROVE  /\ m \in Message /\ inbox' \in [Protocols -> Seq(Message)]
         /\ UNCHANGED <<lastMessageId, tokens, messagesToSend, flushScheduled, wire, alive>>
BY DEF TypeOK, NextMessage

LEMMA ReceiveOneMessageType ==
  ASSUME TypeOK, NEW p \in Protocols, ReceiveOneMessage(p)
  PROVE  TypeOK'
<1> PICK m : /\ NextMessage(p, m)
             /\ \/ ReceiveSetHostID(p, m) \/ SkipMessage(p, m) \/ ReceiveRequest(p, m)
                \/ ReceiveCancel(p, m) \/ ReceiveReply(p, m)
  BY DEF ReceiveOneMessage
<1>1. /\ m \in Message /\ inbox' \in [Protocols -> Seq(Message)]
      /\ UNCHANGED <<lastMessageId, tokens, messagesToSend, flushScheduled, wire, alive>>
  BY NextMessageType
<1>2. CASE ReceiveSetHostID(p, m)
  <2>1. messageToSendHostId' \in [Protocols -> Hosts \cup {NoHost}]
    BY <1>1, <1>2 DEF ReceiveSetHostID, TypeOK, Message
  <2> QED BY <1>1, <1>2, <2>1 DEF ReceiveSetHostID, TypeOK
<1>3. CASE SkipMessage(p, m)
  BY <1>1, <1>3 DEF SkipMessage, TypeOK
<1>4. CASE ReceiveRequest(p, m)
  <2>1. [id |-> m.id, kind |-> m.kind, call |-> m.call] \in Handler
    BY <1>1 DEF Message, Handler
  <2>2. invokedHandlers' \in [Protocols -> SUBSET Handler]
    BY <1>4, <2>1 DEF ReceiveRequest, TypeOK
  <2>3. <<m.id, m.call>> \in Nat \X (Protocols \X Nat)
    BY <1>1 DEF Message
  <2>4. cancellationTokenSources' \in [Protocols -> SUBSET (Nat \X (Protocols \X Nat))]
    BY <1>4, <2>3 DEF ReceiveRequest, TypeOK
  <2>5. exec' \in [Calls -> {"none", "running", "ok", "err"}]
    BY <1>4 DEF ReceiveRequest, TypeOK
  <2> QED BY <1>1, <1>4, <2>2, <2>4, <2>5 DEF ReceiveRequest, TypeOK
<1>5. CASE ReceiveCancel(p, m)
  <2>1. signalled' \subseteq Protocols \X Nat
    BY <1>5 DEF ReceiveCancel, SourcesOf, TypeOK
  <2> QED BY <1>1, <1>5, <2>1 DEF ReceiveCancel, TypeOK
<1>6. CASE ReceiveReply(p, m)
  <2>1. [status |-> SettledStatus(m), from |-> m.call] \in Outcome
    BY <1>1 DEF SettledStatus, Message, Outcome
  <2>2. outcome' \in [Calls -> Outcome]
    BY <1>6, <2>1 DEF ReceiveReply, TypeOK
  <2>3. /\ pendingRPCReplies' \in [Protocols -> SUBSET Nat]
        /\ \A q \in Protocols : pendingRPCReplies'[q] \subseteq 1 .. lastMessageId[q]
    <3>1. CASE m.id \in pendingRPCReplies[p]
      <4>1. pendingRPCReplies' = [pendingRPCReplies EXCEPT ![p] = @ \ {m.id}]
        BY <1>6, <3>1 DEF ReceiveReply
      <4> QED BY <4>1 DEF TypeOK
    <3>2. CASE m.id \notin pendingRPCReplies[p]
      BY <1>6, <3>2 DEF ReceiveReply, TypeOK
    <3> QED BY <3>1, <3>2
  <2> QED BY <1>1, <1>6, <2>2, <2>3 DEF ReceiveReply, TypeOK
<1> QED BY <1>2, <1>3, <1>4, <1>5, <1>6

LEMMA HandlerSettledType ==
  ASSUME TypeOK, NEW p \in Protocols, NEW h \in invokedHandlers[p], NEW o \in {"ok", "err"},
         HandlerSettled(p, h, o)
  PROVE  TypeOK'
<1>1. h \in Handler BY DEF TypeOK
<1>2. Msg(p, ReplyType(o), h.id, "none", h.call) \in Message
  BY <1>1, MsgType DEF Handler, ReplyType, MessageTypes
<1>3. /\ messagesToSend' \in [Protocols -> Seq(Message)]
      /\ flushScheduled' \in [Protocols -> BOOLEAN]
  BY <1>2, SendType DEF HandlerSettled
<1>4. /\ invokedHandlers' \in [Protocols -> SUBSET Handler]
      /\ cancellationTokenSources' \in [Protocols -> SUBSET (Nat \X (Protocols \X Nat))]
  BY DEF TypeOK, HandlerSettled
<1>5. exec' \in [Calls -> {"none", "running", "ok", "err"}]
  BY DEF TypeOK, HandlerSettled
<1> QED BY <1>3, <1>4, <1>5 DEF TypeOK, HandlerSettled

LEMMA HostExitsType ==
  ASSUME TypeOK, NEW h \in Mortal, HostExits(h)
  PROVE  TypeOK'
<1>1. h \in Processes BY RpcAssumption DEF Processes
<1>2. alive' \in [Processes -> BOOLEAN] BY <1>1 DEF TypeOK, HostExits
<1>3. wire' \in [Processes -> Seq(Seq(Message))] BY <1>1 DEF TypeOK, HostExits
<1> QED BY <1>2, <1>3 DEF TypeOK, HostExits

\* Every reachable state is well typed.
THEOREM TypeCorrect == Spec => []TypeOK
<1>1. Init => TypeOK BY InitType
<1>2. TypeOK /\ [Next]_vars => TypeOK'
  <2> SUFFICES ASSUME TypeOK, [Next]_vars PROVE TypeOK' OBVIOUS
  <2>1. ASSUME NEW p \in Protocols, NEW k \in Kinds, RemoteCall(p, k) PROVE TypeOK'
    BY <2>1, RemoteCallType
  <2>2. ASSUME NEW p \in Protocols, NEW id \in tokens[p], CancelCall(p, id) PROVE TypeOK'
    BY <2>2, CancelCallType
  <2>3. ASSUME NEW p \in Protocols, SendAccumulated(p) PROVE TypeOK'
    BY <2>3, SendAccumulatedType
  <2>4. ASSUME NEW p \in Protocols, ReceiveOneMessage(p) PROVE TypeOK'
    BY <2>4, ReceiveOneMessageType
  <2>5. ASSUME NEW p \in Protocols, NEW h \in invokedHandlers[p], NEW o \in {"ok", "err"},
               HandlerSettled(p, h, o)
        PROVE  TypeOK'
    BY <2>5, HandlerSettledType
  <2>6. ASSUME NEW e \in Processes, ReceiveBatch(e) PROVE TypeOK'
    BY <2>6, ReceiveBatchType
  <2>7. ASSUME NEW h \in Mortal, HostExits(h) PROVE TypeOK'
    BY <2>7, HostExitsType
  <2>8. CASE UNCHANGED vars BY <2>8 DEF TypeOK
  <2> QED BY <2>1, <2>2, <2>3, <2>4, <2>5, <2>6, <2>7, <2>8 DEF Next
<1> QED BY <1>1, <1>2, PTL DEF Spec

-----------------------------------------------------------------------------
(* An answer settles the promise of its own call.  Every message names, by *)
(* its sender, its number and its direction, the one call it belongs to;   *)
(* in the stream the hosts share this takes the host ID, so the invariant  *)
(* also says that a host sends nothing before it knows its ID.             *)

\* Messages of p carry the ID of its host.
Labelled(p, m) == p[1] = "ext" /\ UsesHostId => m.hostID = p[2]

\* What p sends.
Traffic(p) ==
  {m \in Message :
     \/ p[1] = "main" /\ m = SetHostID(p)
     \/ m.type \in {"request", "cancel"} /\ m.call = <<p, m.id>> /\ Labelled(p, m)
     \/ m.type \in {"reply", "replyErr"} /\ m.call = <<Other(p), m.id>> /\ Labelled(p, m)}

\* What comes to a process.
Incoming(e) ==
  IF e = Browser THEN UNION {Traffic(<<"ext", h>>) : h \in Hosts} ELSE Traffic(<<"main", e>>)

TrafficInv ==
  /\ \A p \in Protocols : messagesToSend[p] \in Seq(Traffic(p))
  /\ \A e \in Processes : wire[e] \in Seq(Seq(Incoming(e)))
  /\ \A p \in Protocols : inbox[p] \in Seq(Incoming(ProcessOf(p)))

HandlerInv ==
  \A p \in Protocols :
    /\ \A h \in invokedHandlers[p] : h.call = <<Other(p), h.id>>
    /\ \A s \in cancellationTokenSources[p] : s[2] = <<Other(p), s[1]>>

OutcomeInv == \A c \in Calls : outcome[c].from = c

\* The object x of a host has done nothing yet.
Silent(x) ==
  /\ invokedHandlers[x] = {} /\ tokens[x] = {}
  /\ \A c \in Calls : c[1] = Other(x) => exec[c] = "none"

\* The next message for host h is its ID.
HostIdFirst(h) ==
  LET x == <<"ext", h>> IN
  \/ inbox[x] # <<>> /\ Head(inbox[x]).type = "setHostID"
  \/ /\ inbox[x] = <<>> /\ wire[h] # <<>>
     /\ Head(wire[h]) # <<>> /\ Head(Head(wire[h])).type = "setHostID"
  \/ /\ inbox[x] = <<>> /\ wire[h] = <<>>
     /\ messagesToSend[Other(x)] # <<>> /\ Head(messagesToSend[Other(x)]).type = "setHostID"

HostIdInv ==
  UsesHostId => \A h \in Hosts : alive[h] =>
    \/ messageToSendHostId[<<"ext", h>>] = h
    \/ Silent(<<"ext", h>>) /\ HostIdFirst(h)

IdentityInv == TrafficInv /\ HandlerInv /\ OutcomeInv /\ HostIdInv

LEMMA ProcessFacts ==
  /\ \A h \in Hosts : h \in Processes /\ h # Browser /\ <<"ext", h>> \in Protocols
                      /\ Other(<<"ext", h>>) = <<"main", h>> /\ <<"main", h>> \in Protocols
                      /\ Other(<<"main", h>>) = <<"ext", h>>
                      /\ ProcessOf(<<"ext", h>>) = h /\ ProcessOf(<<"main", h>>) = Browser
  /\ \A p \in Protocols : \/ p = <<"main", p[2]>> /\ p[1] = "main" /\ p[2] \in Hosts
                          \/ p = <<"ext", p[2]>> /\ p[1] = "ext" /\ p[2] \in Hosts
BY RpcAssumption DEF Protocols, Processes, Other, ProcessOf

\* What p sends is what comes to its peer's process.
LEMMA TrafficArrives ==
  ASSUME NEW p \in Protocols
  PROVE  /\ Destination(p) \in Processes
         /\ Traffic(p) \subseteq Incoming(Destination(p))
<1>1. CASE p[1] = "main"
  <2>1. PICK h \in Hosts : p = <<"main", h>> BY <1>1, ProcessFacts
  <2>2. Destination(p) = h /\ h # Browser /\ h \in Processes
    BY <2>1, ProcessFacts DEF Destination
  <2> QED BY <2>1, <2>2 DEF Incoming
<1>2. CASE p[1] = "ext"
  <2>1. PICK h \in Hosts : p = <<"ext", h>> BY <1>2, ProcessFacts
  <2>2. Destination(p) = Browser BY <2>1, ProcessFacts DEF Destination
  <2> QED BY <2>1, <2>2 DEF Incoming, Processes
<1> QED BY <1>1, <1>2, ProcessFacts

\* A message that passes the filter of p comes from the peer of p.
LEMMA AcceptedFromPeer ==
  ASSUME NEW p \in Protocols, NEW m \in Incoming(ProcessOf(p)), Accepts(p, m)
  PROVE  m \in Traffic(Other(p))
<1>1. CASE p[1] = "ext"
  <2>1. ProcessOf(p) = p[2] /\ p[2] # Browser /\ Other(p) = <<"main", p[2]>>
    BY <1>1, ProcessFacts
  <2> QED BY <2>1 DEF Incoming
<1>2. CASE p[1] = "main"
  <2>1. PICK h \in Hosts : m \in Traffic(<<"ext", h>>)
    BY <1>2, ProcessFacts DEF Incoming
  <2>2. UsesHostId => m.hostID = h
    BY <2>1, <1>2 DEF Traffic, Labelled, Accepts
  <2>3. h = p[2]
    BY <1>2, <2>2, RpcAssumption, ProcessFacts DEF Accepts
  <2> QED BY <1>2, <2>1, <2>3, ProcessFacts
<1> QED BY <1>1, <1>2, ProcessFacts

\* An object that sends knows its host ID.
LEMMA SendsLabelled ==
  ASSUME TypeOK, HostIdInv, NEW p \in Protocols, alive[ProcessOf(p)],
         p[1] = "ext" => ~Silent(p),
         NEW t \in {"request", "cancel", "reply", "replyErr"}, NEW i \in Nat,
         NEW k \in Kinds \cup {"none"}, NEW c \in Protocols \X Nat,
         c = <<IF t \in {"request", "cancel"} THEN p ELSE Other(p), i>>
  PROVE  Msg(p, t, i, k, c) \in Traffic(p)
<1> PICK m : m = Msg(p, t, i, k, c) OBVIOUS
<1>1. m \in Message BY MsgType DEF MessageTypes
<1>2. m.type = t /\ m.id = i /\ m.call = c /\ m.hostID = messageToSendHostId[p]
  BY DEF Msg
<1>3. Labelled(p, m)
  <2>1. SUFFICES ASSUME p[1] = "ext", UsesHostId PROVE messageToSendHostId[p] = p[2]
    BY <1>2 DEF Labelled
  <2>2. p = <<"ext", p[2]>> /\ p[2] \in Hosts /\ ProcessOf(p) = p[2]
    BY <2>1, ProcessFacts
  <2> QED BY <2>1, <2>2 DEF HostIdInv
<1>4. CASE t \in {"request", "cancel"} BY <1>1, <1>2, <1>3, <1>4 DEF Traffic
<1>5. CASE t \in {"reply", "replyErr"} BY <1>1, <1>2, <1>3, <1>5 DEF Traffic
<1>6. m \in Traffic(p) BY <1>4, <1>5
<1> QED BY <1>6

\* Queueing what p may send keeps the queues as they should be.
LEMMA SendTraffic ==
  ASSUME TypeOK, TrafficInv, NEW p \in Protocols, NEW m \in Traffic(p), Send(p, m)
  PROVE  /\ \A q \in Protocols : messagesToSend'[q] \in Seq(Traffic(q))
         /\ \A q \in Protocols : messagesToSend[q] # <<>> =>
              messagesToSend'[q] # <<>> /\ Head(messagesToSend'[q]) = Head(messagesToSend[q])
<1>1. \A q \in Protocols :
        messagesToSend'[q] = IF q = p THEN Append(messagesToSend[q], m) ELSE messagesToSend[q]
  BY DEF Send, TypeOK
<1>2. \A q \in Protocols : messagesToSend[q] \in Seq(Traffic(q)) BY DEF TrafficInv
<1>3. /\ Append(messagesToSend[p], m) \in Seq(Traffic(p))
      /\ messagesToSend[p] # <<>> =>
           /\ Append(messagesToSend[p], m) # <<>>
           /\ Head(Append(messagesToSend[p], m)) = Head(messagesToSend[p])
  BY <1>2
<1> QED BY <1>1, <1>2, <1>3

\* HostIdInv survives a step that only appends to queues and does not wake a
\* silent object.
LEMMA HostIdKept ==
  ASSUME HostIdInv,
         UNCHANGED <<inbox, wire, alive, messageToSendHostId>>,
         \A q \in Protocols : messagesToSend[q] # <<>> =>
           messagesToSend'[q] # <<>> /\ Head(messagesToSend'[q]) = Head(messagesToSend[q]),
         \A h \in Hosts : alive[h] /\ Silent(<<"ext", h>>) => Silent(<<"ext", h>>)'
  PROVE  HostIdInv'
<1> SUFFICES ASSUME UsesHostId', NEW h \in Hosts, alive'[h], messageToSendHostId'[<<"ext", h>>] # h
             PROVE  Silent(<<"ext", h>>)' /\ HostIdFirst(h)'
  BY DEF HostIdInv
<1>1. Silent(<<"ext", h>>) /\ HostIdFirst(h) /\ alive[h] BY DEF HostIdInv
<1>2. Other(<<"ext", h>>) \in Protocols BY ProcessFacts
<1>3. HostIdFirst(h)' BY <1>1, <1>2 DEF HostIdFirst
<1> QED BY <1>1, <1>3

LEMMA InitIdentity == Init => IdentityInv
<1> SUFFICES ASSUME Init PROVE IdentityInv OBVIOUS
<1>1. \A p \in Protocols : messagesToSend[p] \in Seq(Traffic(p))
  <2> SUFFICES ASSUME NEW p \in Protocols PROVE messagesToSend[p] \in Seq(Traffic(p)) OBVIOUS
  <2>1. CASE p[1] = "main" /\ UsesHostId
    <3>1. SetHostID(p) \in Message BY ObjectFacts DEF SetHostID, Message, MessageTypes
    <3>2. SetHostID(p) \in Traffic(p) BY <2>1, <3>1 DEF Traffic
    <3> QED BY <2>1, <3>2 DEF Init
  <2>2. CASE ~(p[1] = "main" /\ UsesHostId)
    BY <2>2 DEF Init
  <2> QED BY <2>1, <2>2
<1>2. /\ \A e \in Processes : wire[e] \in Seq(Seq(Incoming(e)))
      /\ \A p \in Protocols : inbox[p] \in Seq(Incoming(ProcessOf(p)))
  BY DEF Init
<1>3. HandlerInv /\ OutcomeInv BY DEF Init, HandlerInv, OutcomeInv
<1>4. HostIdInv
  <2> SUFFICES ASSUME UsesHostId, NEW h \in Hosts
               PROVE  Silent(<<"ext", h>>) /\ HostIdFirst(h)
    BY DEF HostIdInv
  <2>1. <<"ext", h>> \in Protocols /\ Other(<<"ext", h>>) = <<"main", h>> /\ h \in Processes
        /\ <<"main", h>> \in Protocols
    BY ProcessFacts
  <2>2. Silent(<<"ext", h>>) BY <2>1 DEF Init, Silent
  <2>3. messagesToSend[<<"main", h>>] = <<SetHostID(<<"main", h>>)>> BY <2>1 DEF Init
  <2>4. inbox[<<"ext", h>>] = <<>> /\ wire[h] = <<>> BY <2>1 DEF Init
  <2>5. HostIdFirst(h) BY <2>1, <2>3, <2>4 DEF HostIdFirst, SetHostID
  <2> QED BY <2>2, <2>5
<1> QED BY <1>1, <1>2, <1>3, <1>4 DEF IdentityInv, TrafficInv

LEMMA RemoteCallIdentity ==
  ASSUME TypeOK, IdentityInv, NEW p \in Protocols, NEW k \in Kinds, RemoteCall(p, k)
  PROVE  IdentityInv'
<1>1. NextCallId(p) \in Nat BY DEF TypeOK, NextCallId
<1>2. p[1] = "ext" => ~Silent(p)
  BY DEF RemoteCall, Started, Silent
<1>3. alive[ProcessOf(p)] BY DEF RemoteCall, Idle
<1>4. Msg(p, "request", NextCallId(p), k, <<p, NextCallId(p)>>) \in Traffic(p)
  BY <1>1, <1>2, <1>3, SendsLabelled DEF IdentityInv
<1>5. /\ \A q \in Protocols : messagesToSend'[q] \in Seq(Traffic(q))
      /\ \A q \in Protocols : messagesToSend[q] # <<>> =>
           messagesToSend'[q] # <<>> /\ Head(messagesToSend'[q]) = Head(messagesToSend[q])
  BY <1>4, SendTraffic DEF RemoteCall, IdentityInv
<1>6. TrafficInv' BY <1>5 DEF IdentityInv, TrafficInv, RemoteCall
<1>7. HandlerInv' BY DEF IdentityInv, HandlerInv, RemoteCall
<1>8. OutcomeInv'
  <2>1. \A c \in Calls : outcome'[c].from = outcome[c].from
    BY DEF RemoteCall, TypeOK, Outcome
  <2> QED BY <2>1 DEF IdentityInv, OutcomeInv
<1>9. \A h \in Hosts : alive[h] /\ Silent(<<"ext", h>>) => Silent(<<"ext", h>>)'
  <2> SUFFICES ASSUME NEW h \in Hosts, Silent(<<"ext", h>>) PROVE Silent(<<"ext", h>>)' OBVIOUS
  <2>1. <<"ext", h>> # p BY <1>2
  <2>2. tokens'[<<"ext", h>>] = tokens[<<"ext", h>>] BY <2>1 DEF RemoteCall, TypeOK
  <2> QED BY <2>2 DEF Silent, RemoteCall
<1>10. HostIdInv' BY <1>5, <1>9, HostIdKept DEF IdentityInv, RemoteCall
<1> QED BY <1>6, <1>7, <1>8, <1>10 DEF IdentityInv

LEMMA CancelCallIdentity ==
  ASSUME TypeOK, IdentityInv, NEW p \in Protocols, NEW id \in tokens[p], CancelCall(p, id)
  PROVE  IdentityInv'
<1>1. id \in Nat BY DEF TypeOK
<1>2. ~Silent(p) BY DEF Silent
<1>3. alive[ProcessOf(p)] BY DEF CancelCall, Idle
<1>4. Msg(p, "cancel", id, "none", <<p, id>>) \in Traffic(p)
  BY <1>1, <1>2, <1>3, SendsLabelled DEF IdentityInv
<1>5. /\ \A q \in Protocols : messagesToSend'[q] \in Seq(Traffic(q))
      /\ \A q \in Protocols : messagesToSend[q] # <<>> =>
           messagesToSend'[q] # <<>> /\ Head(messagesToSend'[q]) = Head(messagesToSend[q])
  BY <1>4, SendTraffic DEF CancelCall, IdentityInv
<1>6. TrafficInv' BY <1>5 DEF IdentityInv, TrafficInv, CancelCall
<1>7. HandlerInv' /\ OutcomeInv' BY DEF IdentityInv, HandlerInv, OutcomeInv, CancelCall
<1>8. \A h \in Hosts : alive[h] /\ Silent(<<"ext", h>>) => Silent(<<"ext", h>>)'
  <2> SUFFICES ASSUME NEW h \in Hosts, Silent(<<"ext", h>>) PROVE Silent(<<"ext", h>>)' OBVIOUS
  <2>1. <<"ext", h>> # p BY <1>2
  <2>2. tokens'[<<"ext", h>>] = tokens[<<"ext", h>>] BY <2>1 DEF CancelCall, TypeOK
  <2> QED BY <2>2 DEF Silent, CancelCall
<1>9. HostIdInv' BY <1>5, <1>8, HostIdKept DEF IdentityInv, CancelCall
<1> QED BY <1>6, <1>7, <1>9 DEF IdentityInv

LEMMA SendAccumulatedIdentity ==
  ASSUME TypeOK, IdentityInv, NEW p \in Protocols, SendAccumulated(p)
  PROVE  IdentityInv'
<1>1. \A q \in Protocols : messagesToSend'[q] = IF q = p THEN <<>> ELSE messagesToSend[q]
  BY DEF SendAccumulated, TypeOK
<1>2. \A q \in Protocols : messagesToSend[q] \in Seq(Traffic(q)) /\ messagesToSend'[q] \in Seq(Traffic(q))
  <2>1. \A q \in Protocols : messagesToSend[q] \in Seq(Traffic(q)) /\ <<>> \in Seq(Traffic(q))
    BY DEF IdentityInv, TrafficInv
  <2> QED BY <1>1, <2>1
<1>3. /\ Destination(p) \in Processes
      /\ messagesToSend[p] \in Seq(Incoming(Destination(p)))
  BY <1>2, TrafficArrives, SeqMonotonic
<1>4. \A e \in Processes : \/ wire'[e] = wire[e]
                           \/ e = Destination(p) /\ wire'[e] = Append(wire[e], messagesToSend[p])
  BY <1>3 DEF SendAccumulated, TypeOK
<1>5. \A e \in Processes : wire[e] \in Seq(Seq(Incoming(e))) BY DEF IdentityInv, TrafficInv
<1>6. \A e \in Processes : wire'[e] \in Seq(Seq(Incoming(e)))
  <2>1. wire[Destination(p)] \in Seq(Seq(Incoming(Destination(p)))) BY <1>3, <1>5
  <2>2. Append(wire[Destination(p)], messagesToSend[p]) \in Seq(Seq(Incoming(Destination(p))))
    BY <1>3, <2>1, AppendProperties
  <2> QED BY <1>4, <1>5, <2>2
<1>7. TrafficInv' BY <1>2, <1>6 DEF IdentityInv, TrafficInv, SendAccumulated
<1>8. HandlerInv' /\ OutcomeInv' BY DEF IdentityInv, HandlerInv, OutcomeInv, SendAccumulated
<1>9. HostIdInv'
  <2> SUFFICES ASSUME UsesHostId, NEW h \in Hosts, alive[h],
                      messageToSendHostId[<<"ext", h>>] # h
               PROVE  Silent(<<"ext", h>>)' /\ HostIdFirst(h)'
    BY DEF HostIdInv, SendAccumulated
  <2>1. Silent(<<"ext", h>>) /\ HostIdFirst(h) BY DEF IdentityInv, HostIdInv
  <2>2. Silent(<<"ext", h>>)' BY <2>1 DEF Silent, SendAccumulated
  <2>3. /\ <<"ext", h>> \in Protocols /\ <<"main", h>> \in Protocols /\ h \in Processes
        /\ Other(<<"ext", h>>) = <<"main", h>> /\ ProcessOf(<<"ext", h>>) = h
    BY ProcessFacts
  <2>4. inbox' = inbox BY DEF SendAccumulated
  <2>5. CASE inbox[<<"ext", h>>] # <<>>
    BY <2>1, <2>2, <2>4, <2>5 DEF HostIdFirst
  <2>6. CASE wire[h] # <<>>
    <3>1. wire'[h] # <<>> /\ Head(wire'[h]) = Head(wire[h])
      <4>1. wire[h] \in Seq(Seq(Incoming(h))) BY <1>5, <2>3
      <4>2. CASE wire'[h] = wire[h] BY <2>6, <4>2
      <4>3. CASE h = Destination(p) /\ wire'[h] = Append(wire[h], messagesToSend[p])
        <5>1. messagesToSend[p] \in Seq(Incoming(h)) BY <1>3, <4>3
        <5>2. /\ Append(wire[h], messagesToSend[p]) # <<>>
              /\ Head(Append(wire[h], messagesToSend[p])) = Head(wire[h])
          BY <2>6, <4>1, <5>1, AppendKeepsHead
        <5> QED BY <4>3, <5>2
      <4> QED BY <1>4, <2>3, <4>2, <4>3
    <3> QED BY <2>1, <2>2, <2>4, <2>6, <3>1 DEF HostIdFirst
  <2>7. CASE inbox[<<"ext", h>>] = <<>> /\ wire[h] = <<>>
    <3>1. messagesToSend[<<"main", h>>] # <<>> /\ Head(messagesToSend[<<"main", h>>]).type = "setHostID"
      BY <2>1, <2>3, <2>7 DEF HostIdFirst
    <3>2. CASE p = <<"main", h>>
      <4>1. Destination(p) = h BY <2>3, <3>2, ProcessFacts DEF Destination
      <4>2. wire'[h] = <<messagesToSend[p]>>
        BY <2>3, <2>7, <4>1 DEF SendAccumulated, TypeOK
      <4>3. wire'[h] # <<>> /\ Head(wire'[h]) = messagesToSend[p] BY <4>2
      <4> QED BY <2>2, <2>4, <2>7, <3>1, <3>2, <4>3 DEF HostIdFirst
    <3>3. CASE p # <<"main", h>>
      <4>1. Destination(p) # h
        <5>1. CASE p[1] = "ext"
          <6>1. PICK g \in Hosts : p = <<"ext", g>> BY <5>1, ProcessFacts
          <6>2. Destination(p) = Browser BY <6>1, ProcessFacts DEF Destination
          <6> QED BY <6>2, ProcessFacts
        <5>2. CASE p[1] = "main"
          <6>1. PICK g \in Hosts : p = <<"main", g>> BY <5>2, ProcessFacts
          <6>2. Destination(p) = g BY <6>1, ProcessFacts DEF Destination
          <6> QED BY <3>3, <6>1, <6>2
        <5> QED BY <5>1, <5>2, ProcessFacts
      <4>2. wire'[h] = <<>> /\ messagesToSend'[<<"main", h>>] = messagesToSend[<<"main", h>>]
        BY <1>1, <1>4, <2>3, <2>7, <3>3, <4>1
      <4> QED BY <2>2, <2>3, <2>4, <2>7, <3>1, <4>2 DEF HostIdFirst
    <3> QED BY <3>2, <3>3
  <2> QED BY <2>2, <2>5, <2>6, <2>7
<1> QED BY <1>7, <1>8, <1>9 DEF IdentityInv

LEMMA ReceiveBatchIdentity ==
  ASSUME TypeOK, IdentityInv, NEW e \in Processes, ReceiveBatch(e)
  PROVE  IdentityInv'
<1>1. wire[e] \in Seq(Seq(Incoming(e))) /\ wire[e] # <<>>
  BY DEF IdentityInv, TrafficInv, ReceiveBatch
<1>2. Head(wire[e]) \in Seq(Incoming(e)) /\ Tail(wire[e]) \in Seq(Seq(Incoming(e)))
  BY <1>1, HeadTailProperties
<1>3. \A q \in Processes : wire'[q] = IF q = e THEN Tail(wire[e]) ELSE wire[q]
  BY DEF ReceiveBatch, TypeOK
<1>4. \A p \in Protocols : inbox'[p] = IF ProcessOf(p) = e THEN Head(wire[e]) ELSE inbox[p]
  BY DEF ReceiveBatch, ObjectsOf
<1>5. \A q \in Processes : wire'[q] \in Seq(Seq(Incoming(q)))
  BY <1>2, <1>3 DEF IdentityInv, TrafficInv
<1>6. \A p \in Protocols : inbox'[p] \in Seq(Incoming(ProcessOf(p)))
  BY <1>2, <1>4 DEF IdentityInv, TrafficInv
<1>7. TrafficInv' BY <1>5, <1>6 DEF IdentityInv, TrafficInv, ReceiveBatch
<1>8. HandlerInv' /\ OutcomeInv' BY DEF IdentityInv, HandlerInv, OutcomeInv, ReceiveBatch
<1>9. HostIdInv'
  <2> SUFFICES ASSUME UsesHostId, NEW h \in Hosts, alive[h],
                      messageToSendHostId[<<"ext", h>>] # h
               PROVE  Silent(<<"ext", h>>)' /\ HostIdFirst(h)'
    BY DEF HostIdInv, ReceiveBatch
  <2>1. Silent(<<"ext", h>>) /\ HostIdFirst(h) BY DEF IdentityInv, HostIdInv
  <2>2. Silent(<<"ext", h>>)' BY <2>1 DEF Silent, ReceiveBatch
  <2>3. /\ <<"ext", h>> \in Protocols /\ h \in Processes /\ ProcessOf(<<"ext", h>>) = h
    BY ProcessFacts
  <2>4. CASE e = h
    <3>1. inbox[<<"ext", h>>] = <<>>
      BY <2>3, <2>4 DEF ReceiveBatch, Idle, ObjectsOf
    <3>2. Head(wire[h]) # <<>> /\ Head(Head(wire[h])).type = "setHostID"
      BY <1>1, <2>1, <2>4, <3>1 DEF HostIdFirst
    <3>3. inbox'[<<"ext", h>>] = Head(wire[h]) BY <1>4, <2>3, <2>4
    <3> QED BY <2>2, <3>2, <3>3 DEF HostIdFirst
  <2>5. CASE e # h
    <3>1. wire'[h] = wire[h] /\ inbox'[<<"ext", h>>] = inbox[<<"ext", h>>]
          /\ messagesToSend' = messagesToSend
      BY <1>3, <1>4, <2>3, <2>5 DEF ReceiveBatch
    <3> QED BY <2>1, <2>2, <3>1 DEF HostIdFirst
  <2> QED BY <2>4, <2>5
<1> QED BY <1>7, <1>8, <1>9 DEF IdentityInv

\* A reply or request that is handled belongs to the call it is taken for.
LEMMA HandledCall ==
  ASSUME TypeOK, IdentityInv, NEW p \in Protocols, NEW m, NextMessage(p, m)
  PROVE  /\ m \in Incoming(ProcessOf(p)) /\ m = Head(inbox[p])
         /\ Accepts(p, m) /\ m.type = "request" => m.call = <<Other(p), m.id>>
         /\ Accepts(p, m) /\ m.type \in {"reply", "replyErr"} => m.call = <<p, m.id>>
<1>1. inbox[p] \in Seq(Incoming(ProcessOf(p))) /\ inbox[p] # <<>> /\ m = Head(inbox[p])
  BY DEF IdentityInv, TrafficInv, NextMessage
<1>2. m \in Incoming(ProcessOf(p)) BY <1>1, HeadTailProperties
<1>3. ASSUME Accepts(p, m)
      PROVE  /\ m.type = "request" => m.call = <<Other(p), m.id>>
             /\ m.type \in {"reply", "replyErr"} => m.call = <<p, m.id>>
  <2>1. m \in Traffic(Other(p)) BY <1>2, <1>3, AcceptedFromPeer
  <2>2. Other(Other(p)) = p BY ObjectFacts
  <2>3. m.type # "setHostID" BY <1>3 DEF Accepts
  <2> QED BY <2>1, <2>2, <2>3 DEF Traffic, SetHostID
<1> QED BY <1>1, <1>2, <1>3

LEMMA ReceiveOneMessageIdentity ==
  ASSUME TypeOK, IdentityInv, NEW p \in Protocols, ReceiveOneMessage(p)
  PROVE  IdentityInv'
<1> PICK m : /\ NextMessage(p, m)
             /\ \/ ReceiveSetHostID(p, m) \/ SkipMessage(p, m) \/ ReceiveRequest(p, m)
                \/ ReceiveCancel(p, m) \/ ReceiveReply(p, m)
  BY DEF ReceiveOneMessage
<1>1. /\ m \in Incoming(ProcessOf(p)) /\ m = Head(inbox[p])
      /\ Accepts(p, m) /\ m.type = "request" => m.call = <<Other(p), m.id>>
      /\ Accepts(p, m) /\ m.type \in {"reply", "replyErr"} => m.call = <<p, m.id>>
  BY HandledCall
<1>2. \A q \in Protocols : inbox'[q] = IF q = p THEN Tail(inbox[p]) ELSE inbox[q]
  BY DEF NextMessage, TypeOK
<1>3. Tail(inbox[p]) \in Seq(Incoming(ProcessOf(p)))
  BY HeadTailProperties DEF IdentityInv, TrafficInv, NextMessage
<1>4. TrafficInv'
  BY <1>2, <1>3 DEF IdentityInv, TrafficInv, NextMessage
<1>5. HandlerInv'
  <2>1. CASE ReceiveRequest(p, m)
    <3>1. m.call = <<Other(p), m.id>> BY <1>1, <2>1 DEF ReceiveRequest
    <3>2. \A q \in Protocols : invokedHandlers'[q] \subseteq
            invokedHandlers[q] \cup
              IF q = p THEN {[id |-> m.id, kind |-> m.kind, call |-> m.call]} ELSE {}
      BY <2>1 DEF ReceiveRequest, TypeOK
    <3>3. \A q \in Protocols : cancellationTokenSources'[q] \subseteq
            cancellationTokenSources[q] \cup IF q = p THEN {<<m.id, m.call>>} ELSE {}
      BY <2>1 DEF ReceiveRequest, TypeOK
    <3> QED BY <3>1, <3>2, <3>3 DEF IdentityInv, HandlerInv
  <2>2. CASE ~ReceiveRequest(p, m)
    BY <2>2 DEF IdentityInv, HandlerInv, ReceiveSetHostID, SkipMessage, ReceiveCancel, ReceiveReply
  <2> QED BY <2>1, <2>2
<1>6. OutcomeInv'
  <2>1. CASE ReceiveReply(p, m) /\ m.id \in pendingRPCReplies[p]
    <3>1. m.call = <<p, m.id>> BY <1>1, <2>1 DEF ReceiveReply
    <3>2. outcome' = [outcome EXCEPT ![<<p, m.id>>] = [status |-> SettledStatus(m), from |-> m.call]]
      BY <2>1 DEF ReceiveReply
    <3>3. \A c \in Calls : \/ outcome'[c] = outcome[c]
                           \/ c = <<p, m.id>> /\ outcome'[c].from = m.call
      BY <3>2 DEF TypeOK
    <3> QED BY <3>1, <3>3 DEF IdentityInv, OutcomeInv
  <2>2. CASE ~(ReceiveReply(p, m) /\ m.id \in pendingRPCReplies[p])
    <3>1. outcome' = outcome
      BY <2>2 DEF ReceiveRequest, ReceiveSetHostID, SkipMessage, ReceiveCancel, ReceiveReply
    <3> QED BY <3>1 DEF IdentityInv, OutcomeInv
  <2> QED BY <2>1, <2>2
<1>7. HostIdInv'
  <2> SUFFICES ASSUME UsesHostId, NEW h \in Hosts, alive[h],
                      messageToSendHostId'[<<"ext", h>>] # h
               PROVE  Silent(<<"ext", h>>)' /\ HostIdFirst(h)'
    BY DEF HostIdInv, NextMessage
  <2>1. /\ <<"ext", h>> \in Protocols /\ ProcessOf(<<"ext", h>>) = h /\ h # Browser
        /\ Other(<<"ext", h>>) = <<"main", h>> /\ Other(<<"main", h>>) = <<"ext", h>>
    BY ProcessFacts
  <2>2. messageToSendHostId[<<"ext", h>>] # h
    <3>1. CASE ReceiveSetHostID(p, m)
      <4>1. CASE p = <<"ext", h>>
        <5>1. m \in Traffic(<<"main", h>>) BY <1>1, <2>1, <4>1 DEF Incoming
        <5>2. m = SetHostID(<<"main", h>>) BY <3>1, <5>1 DEF Traffic, ReceiveSetHostID
        <5>3. m.hostID = h BY <5>2 DEF SetHostID
        <5>4. messageToSendHostId'[<<"ext", h>>] = h
          BY <2>1, <3>1, <4>1, <5>3 DEF ReceiveSetHostID, TypeOK
        <5> QED BY <5>4
      <4>2. CASE p # <<"ext", h>>
        BY <2>1, <3>1, <4>2 DEF ReceiveSetHostID, TypeOK
      <4> QED BY <4>1, <4>2
    <3>2. CASE ~ReceiveSetHostID(p, m)
      BY <3>2 DEF ReceiveRequest, SkipMessage, ReceiveCancel, ReceiveReply
    <3> QED BY <3>1, <3>2
  <2>3. Silent(<<"ext", h>>) /\ HostIdFirst(h) BY <2>2 DEF IdentityInv, HostIdInv
  <2>4. p # <<"ext", h>>
    <3> SUFFICES ASSUME p = <<"ext", h>> PROVE FALSE OBVIOUS
    <3>1. m.type = "setHostID"
      BY <1>1, <2>3 DEF HostIdFirst, NextMessage
    <3>2. ReceiveSetHostID(p, m)
      BY <3>1 DEF ReceiveRequest, SkipMessage, ReceiveCancel, ReceiveReply
    <3>3. m \in Traffic(<<"main", h>>) BY <1>1, <2>1 DEF Incoming
    <3>4. m.hostID = h BY <3>1, <3>3 DEF Traffic, SetHostID
    <3> QED BY <2>1, <3>2, <3>4 DEF ReceiveSetHostID, TypeOK
  <2>5. HostIdFirst(h)'
    <3>1. inbox'[<<"ext", h>>] = inbox[<<"ext", h>>] BY <1>2, <2>1, <2>4
    <3>2. wire' = wire /\ messagesToSend' = messagesToSend BY DEF NextMessage
    <3> QED BY <2>3, <3>1, <3>2 DEF HostIdFirst
  <2>6. Silent(<<"ext", h>>)'
    <3>1. CASE ReceiveRequest(p, m)
      <4>1. m.call[1] = Other(p) BY <1>1, <3>1 DEF ReceiveRequest
      <4>2. Other(p) # Other(<<"ext", h>>) BY <2>1, <2>4, ObjectFacts
      <4>3. invokedHandlers'[<<"ext", h>>] = invokedHandlers[<<"ext", h>>]
        BY <2>1, <2>4, <3>1 DEF ReceiveRequest, TypeOK
      <4>4. \A c \in Calls : c[1] = Other(<<"ext", h>>) => exec'[c] = exec[c]
        BY <3>1, <4>1, <4>2 DEF ReceiveRequest, TypeOK
      <4> QED BY <2>3, <4>3, <4>4 DEF Silent, NextMessage
    <3>2. CASE ~ReceiveRequest(p, m)
      BY <2>3, <3>2 DEF Silent, NextMessage, ReceiveSetHostID, SkipMessage, ReceiveCancel, ReceiveReply
    <3> QED BY <3>1, <3>2
  <2> QED BY <2>5, <2>6
<1> QED BY <1>4, <1>5, <1>6, <1>7 DEF IdentityInv

LEMMA HandlerSettledIdentity ==
  ASSUME TypeOK, IdentityInv, NEW p \in Protocols, NEW h \in invokedHandlers[p],
         NEW o \in {"ok", "err"}, HandlerSettled(p, h, o)
  PROVE  IdentityInv'
<1>1. h.id \in Nat /\ h.call = <<Other(p), h.id>> /\ h.call \in Protocols \X Nat
  BY DEF TypeOK, Handler, IdentityInv, HandlerInv
<1>2. ~Silent(p) BY DEF Silent
<1>3. alive[ProcessOf(p)] BY DEF HandlerSettled, Idle
<1>4. Msg(p, ReplyType(o), h.id, "none", h.call) \in Traffic(p)
  <2>1. ReplyType(o) \in {"reply", "replyErr"} BY DEF ReplyType
  <2> QED BY <1>1, <1>2, <1>3, <2>1, SendsLabelled DEF IdentityInv
<1>5. /\ \A q \in Protocols : messagesToSend'[q] \in Seq(Traffic(q))
      /\ \A q \in Protocols : messagesToSend[q] # <<>> =>
           messagesToSend'[q] # <<>> /\ Head(messagesToSend'[q]) = Head(messagesToSend[q])
  BY <1>4, SendTraffic DEF HandlerSettled, IdentityInv
<1>6. TrafficInv' BY <1>5 DEF IdentityInv, TrafficInv, HandlerSettled
<1>7. \A q \in Protocols : /\ invokedHandlers'[q] \subseteq invokedHandlers[q]
                           /\ cancellationTokenSources'[q] \subseteq cancellationTokenSources[q]
  BY DEF HandlerSettled, TypeOK
<1>8. HandlerInv' BY <1>7 DEF IdentityInv, HandlerInv
<1>9. OutcomeInv' BY DEF IdentityInv, OutcomeInv, HandlerSettled
<1>10. \A g \in Hosts : alive[g] /\ Silent(<<"ext", g>>) => Silent(<<"ext", g>>)'
  <2> SUFFICES ASSUME NEW g \in Hosts, Silent(<<"ext", g>>) PROVE Silent(<<"ext", g>>)' OBVIOUS
  <2>1. <<"ext", g>> # p /\ <<"ext", g>> \in Protocols BY <1>2, ProcessFacts
  <2>2. invokedHandlers'[<<"ext", g>>] = {} BY <1>7, <2>1 DEF Silent
  <2>3. Other(p) # Other(<<"ext", g>>) BY <2>1, ObjectFacts
  <2>4. \A c \in Calls : c[1] = Other(<<"ext", g>>) => exec'[c] = exec[c]
    BY <1>1, <2>3 DEF HandlerSettled, TypeOK
  <2> QED BY <2>2, <2>4 DEF Silent, HandlerSettled
<1>11. HostIdInv' BY <1>5, <1>10, HostIdKept DEF IdentityInv, HandlerSettled
<1> QED BY <1>6, <1>8, <1>9, <1>11 DEF IdentityInv

LEMMA HostExitsIdentity ==
  ASSUME TypeOK, IdentityInv, NEW h \in Mortal, HostExits(h)
  PROVE  IdentityInv'
<1>1. h \in Processes /\ h \in Hosts BY RpcAssumption DEF Processes
<1>2. \A e \in Processes : wire'[e] = IF e = h THEN <<>> ELSE wire[e]
  BY DEF HostExits, TypeOK
<1>3. \A e \in Processes : wire[e] \in Seq(Seq(Incoming(e))) /\ <<>> \in Seq(Seq(Incoming(e)))
  BY DEF IdentityInv, TrafficInv
<1>4. TrafficInv' BY <1>2, <1>3 DEF IdentityInv, TrafficInv, HostExits
<1>5. HandlerInv' /\ OutcomeInv' BY DEF IdentityInv, HandlerInv, OutcomeInv, HostExits
<1>6. HostIdInv'
  <2> SUFFICES ASSUME UsesHostId, NEW g \in Hosts, alive'[g],
                      messageToSendHostId[<<"ext", g>>] # g
               PROVE  Silent(<<"ext", g>>)' /\ HostIdFirst(g)'
    BY DEF HostIdInv, HostExits
  <2>1. g # h /\ alive[g] /\ g \in Processes BY <1>1, ProcessFacts DEF HostExits, TypeOK
  <2>2. Silent(<<"ext", g>>) /\ HostIdFirst(g) BY <2>1 DEF IdentityInv, HostIdInv
  <2>3. wire'[g] = wire[g] BY <1>2, <2>1
  <2>4. Silent(<<"ext", g>>)' BY <2>2 DEF Silent, HostExits
  <2>5. HostIdFirst(g)' BY <2>2, <2>3 DEF HostIdFirst, HostExits
  <2> QED BY <2>4, <2>5
<1> QED BY <1>4, <1>5, <1>6 DEF IdentityInv

LEMMA IdentityCorrect == Spec => []IdentityInv
<1>1. Init => IdentityInv BY InitIdentity
<1>2. TypeOK /\ IdentityInv /\ [Next]_vars => IdentityInv'
  <2> SUFFICES ASSUME TypeOK, IdentityInv, [Next]_vars PROVE IdentityInv' OBVIOUS
  <2>1. ASSUME NEW p \in Protocols, NEW k \in Kinds, RemoteCall(p, k) PROVE IdentityInv'
    BY <2>1, RemoteCallIdentity
  <2>2. ASSUME NEW p \in Protocols, NEW id \in tokens[p], CancelCall(p, id) PROVE IdentityInv'
    BY <2>2, CancelCallIdentity
  <2>3. ASSUME NEW p \in Protocols, SendAccumulated(p) PROVE IdentityInv'
    BY <2>3, SendAccumulatedIdentity
  <2>4. ASSUME NEW p \in Protocols, ReceiveOneMessage(p) PROVE IdentityInv'
    BY <2>4, ReceiveOneMessageIdentity
  <2>5. ASSUME NEW p \in Protocols, NEW h \in invokedHandlers[p], NEW o \in {"ok", "err"},
               HandlerSettled(p, h, o)
        PROVE  IdentityInv'
    BY <2>5, HandlerSettledIdentity
  <2>6. ASSUME NEW e \in Processes, ReceiveBatch(e) PROVE IdentityInv'
    BY <2>6, ReceiveBatchIdentity
  <2>7. ASSUME NEW h \in Mortal, HostExits(h) PROVE IdentityInv'
    BY <2>7, HostExitsIdentity
  <2>8. CASE UNCHANGED vars
    BY <2>8 DEF IdentityInv, TrafficInv, HandlerInv, OutcomeInv, HostIdInv, Silent, HostIdFirst
  <2> QED BY <2>1, <2>2, <2>3, <2>4, <2>5, <2>6, <2>7, <2>8 DEF Next
<1> QED BY <1>1, <1>2, TypeCorrect, PTL DEF Spec

\* A promise is settled by the answer to its own call.
THEOREM AnswersOwnCall == Spec => []SettledByOwnCall
<1>1. IdentityInv => SettledByOwnCall BY DEF IdentityInv, OutcomeInv, SettledByOwnCall
<1> QED BY <1>1, IdentityCorrect, PTL
-----------------------------------------------------------------------------
(* What is under way between two objects, and in which order.              *)

\* A message of X is in s, or in a batch of w.
Has(s, X) == \E i \in DOMAIN s : s[i] \in X
HasBatch(w, X) == \E b \in DOMAIN w : Has(w[b], X)

\* In s, none of X stands behind one of Y.
OrderedIn(s, X, Y) == \A i, j \in DOMAIN s : s[i] \in Y /\ s[j] \in X => j <= i

\* A lane is what a receiver has still to handle: the rest of its batch, the
\* batches on the wire, the queue of its peer.
Lane(s, w, u) == Elements(s) \cup (UNION {Elements(b) : b \in Elements(w)}) \cup Elements(u)

\* On a lane, none of X comes after one of Y; with X = Y, there is at most one
\* of X.
LaneOrdered(s, w, u, X, Y) ==
  /\ OrderedIn(s, X, Y) /\ OrderedIn(u, X, Y)
  /\ \A b \in DOMAIN w : OrderedIn(w[b], X, Y)
  /\ \A a, b \in DOMAIN w : Has(w[a], Y) /\ Has(w[b], X) => b <= a
  /\ Has(s, Y) => ~HasBatch(w, X) /\ ~Has(u, X)
  /\ HasBatch(w, Y) => ~Has(u, X)

Ordered(p, X, Y) == LaneOrdered(inbox[p], wire[ProcessOf(p)], messagesToSend[Other(p)], X, Y)

LEMMA LaneHas ==
  ASSUME NEW s, NEW w, NEW u, NEW X
  PROVE  Lane(s, w, u) \cap X # {} <=> Has(s, X) \/ HasBatch(w, X) \/ Has(u, X)
BY DEF Lane, Elements, Has, HasBatch

\* The elements of the sequences the steps build.
LEMMA AppendElements ==
  ASSUME NEW S, NEW s \in Seq(S), NEW e \in S
  PROVE  /\ Elements(Append(s, e)) = Elements(s) \cup {e}
         /\ DOMAIN Append(s, e) = 1 .. (Len(s) + 1) /\ DOMAIN s = 1 .. Len(s) /\ Len(s) \in Nat
         /\ \A i \in 1 .. Len(s) : Append(s, e)[i] = s[i]
         /\ Append(s, e)[Len(s) + 1] = e
<1> DEFINE t == Append(s, e)
<1>1. /\ t \in Seq(S) /\ Len(t) = Len(s) + 1 /\ t[Len(s) + 1] = e
      /\ \A i \in 1 .. Len(s) : t[i] = s[i]
  BY AppendProperties
<1>2. DOMAIN t = 1 .. (Len(s) + 1) /\ DOMAIN s = 1 .. Len(s) /\ Len(s) \in Nat
  BY <1>1, LenProperties
<1>3. ASSUME NEW x \in Elements(t) PROVE x \in Elements(s) \cup {e}
  <2>1. PICK i \in 1 .. (Len(s) + 1) : x = t[i] BY <1>2, <1>3 DEF Elements
  <2>2. i = Len(s) + 1 \/ i \in 1 .. Len(s) BY <1>2, <2>1
  <2> QED BY <1>1, <1>2, <2>1, <2>2 DEF Elements
<1>4. Len(s) + 1 \in DOMAIN t /\ \A i \in DOMAIN s : i \in DOMAIN t BY <1>2
<1>5. e \in Elements(t) BY <1>1, <1>4 DEF Elements
<1>6. ASSUME NEW x \in Elements(s) PROVE x \in Elements(t)
  BY <1>1, <1>2, <1>4 DEF Elements
<1> QED BY <1>1, <1>2, <1>3, <1>5, <1>6

LEMMA TailElements ==
  ASSUME NEW S, NEW s \in Seq(S), s # <<>>
  PROVE  /\ Elements(s) = {Head(s)} \cup Elements(Tail(s))
         /\ Len(s) \in Nat \ {0} /\ DOMAIN s = 1 .. Len(s) /\ DOMAIN Tail(s) = 1 .. (Len(s) - 1)
         /\ Head(s) = s[1] /\ \A i \in 1 .. (Len(s) - 1) : Tail(s)[i] = s[i + 1]
<1> DEFINE t == Tail(s)
<1>1. /\ t \in Seq(S) /\ Len(t) = Len(s) - 1 /\ Len(s) \in Nat \ {0} /\ Head(s) = s[1]
      /\ \A i \in 1 .. Len(t) : t[i] = s[i + 1]
  BY HeadTailProperties, EmptySeq, LenProperties
<1>2. DOMAIN s = 1 .. Len(s) /\ DOMAIN t = 1 .. (Len(s) - 1) BY <1>1, LenProperties
<1>3. ASSUME NEW x \in Elements(s) PROVE x \in {Head(s)} \cup Elements(t)
  <2>1. PICK i \in 1 .. Len(s) : x = s[i] BY <1>2, <1>3 DEF Elements
  <2>2. CASE i = 1 BY <1>1, <2>1, <2>2
  <2>3. CASE i # 1
    <3>1. i - 1 \in 1 .. (Len(s) - 1) /\ (i - 1) + 1 = i BY <1>1, <2>1, <2>3
    <3>2. t[i - 1] = x BY <1>1, <2>1, <3>1
    <3> QED BY <1>2, <3>1, <3>2 DEF Elements
  <2> QED BY <2>2, <2>3
<1>4. Head(s) \in Elements(s) BY <1>1, <1>2 DEF Elements
<1>5. ASSUME NEW x \in Elements(t) PROVE x \in Elements(s)
  <2>1. PICK i \in 1 .. (Len(s) - 1) : x = t[i] BY <1>2, <1>5 DEF Elements
  <2>2. i + 1 \in 1 .. Len(s) /\ t[i] = s[i + 1] BY <1>1, <2>1
  <2> QED BY <1>2, <2>1, <2>2 DEF Elements
<1> QED BY <1>1, <1>2, <1>3, <1>4, <1>5

\* A message is queued.
LEMMA LaneAppend ==
  ASSUME NEW S, NEW s \in Seq(S), NEW w \in Seq(Seq(S)), NEW u \in Seq(S), NEW m \in S
  PROVE  /\ Lane(s, w, Append(u, m)) = Lane(s, w, u) \cup {m}
         /\ \A X, Y :
              LaneOrdered(s, w, u, X, Y) /\ (m \notin X \/ Lane(s, w, u) \cap Y = {})
                => LaneOrdered(s, w, Append(u, m), X, Y)
<1> DEFINE v == Append(u, m)
<1>1. /\ Elements(v) = Elements(u) \cup {m}
      /\ DOMAIN v = 1 .. (Len(u) + 1) /\ DOMAIN u = 1 .. Len(u) /\ Len(u) \in Nat
      /\ \A i \in 1 .. Len(u) : v[i] = u[i]
      /\ v[Len(u) + 1] = m
  BY AppendElements
<1> HIDE DEF v
<1>2. Lane(s, w, v) = Lane(s, w, u) \cup {m} BY <1>1 DEF Lane
<1>3. ASSUME NEW X, NEW Y, LaneOrdered(s, w, u, X, Y), m \notin X \/ Lane(s, w, u) \cap Y = {}
      PROVE  LaneOrdered(s, w, v, X, Y)
  <2>1. Lane(s, w, u) \cap Y = {} => ~Has(s, Y) /\ ~HasBatch(w, Y) /\ ~Has(u, Y) BY LaneHas
  <2>2. Has(v, X) => Has(u, X) \/ m \in X
    BY <1>1 DEF Has, Elements
  <2>3. OrderedIn(v, X, Y)
    <3> SUFFICES ASSUME NEW i \in DOMAIN v, NEW j \in DOMAIN v, v[i] \in Y, v[j] \in X
                 PROVE  j <= i
      BY DEF OrderedIn
    <3>1. CASE i = Len(u) + 1 BY <1>1, <3>1
    <3>2. CASE i \in 1 .. Len(u)
      <4>1. Has(u, Y) BY <1>1, <3>2 DEF Has
      <4>2. m \notin X BY <1>3, <2>1, <4>1
      <4>3. j # Len(u) + 1 BY <1>1, <4>2
      <4>4. Len(u) \in Nat /\ j \in 1 .. (Len(u) + 1) BY <1>1
      <4>5. j \in 1 .. Len(u) BY <4>3, <4>4
      <4> QED BY <1>1, <1>3, <3>2, <4>5 DEF LaneOrdered, OrderedIn
    <3> QED BY <1>1, <3>1, <3>2
  <2> QED BY <1>3, <2>1, <2>2, <2>3 DEF LaneOrdered
<1> QED BY <1>2, <1>3 DEF v

\* The queue becomes the last batch on the wire, and so does a queue that holds
\* nothing of X and Y.
LEMMA LaneFlush ==
  ASSUME NEW S, NEW s \in Seq(S), NEW w \in Seq(Seq(S)), NEW u \in Seq(S), NEW v \in Seq(S)
  PROVE  /\ Lane(s, Append(w, u), <<>>) = Lane(s, w, u)
         /\ \A X, Y : LaneOrdered(s, w, u, X, Y) => LaneOrdered(s, Append(w, u), <<>>, X, Y)
         /\ Lane(s, Append(w, v), u) = Lane(s, w, u) \cup Elements(v)
         /\ \A X, Y : LaneOrdered(s, w, u, X, Y) /\ ~Has(v, X) /\ ~Has(v, Y)
              => LaneOrdered(s, Append(w, v), u, X, Y)
<1>1. ASSUME NEW b \in Seq(S)
      PROVE  /\ Elements(Append(w, b)) = Elements(w) \cup {b}
             /\ DOMAIN Append(w, b) = 1 .. (Len(w) + 1) /\ DOMAIN w = 1 .. Len(w) /\ Len(w) \in Nat
             /\ \A i \in 1 .. Len(w) : Append(w, b)[i] = w[i]
             /\ Append(w, b)[Len(w) + 1] = b
             /\ \A Z : HasBatch(Append(w, b), Z) <=> HasBatch(w, Z) \/ Has(b, Z)
  <2> DEFINE x == Append(w, b)
  <2>1. /\ Elements(x) = Elements(w) \cup {b}
        /\ DOMAIN x = 1 .. (Len(w) + 1) /\ DOMAIN w = 1 .. Len(w) /\ Len(w) \in Nat
        /\ \A i \in 1 .. Len(w) : x[i] = w[i]
        /\ x[Len(w) + 1] = b
    BY AppendElements
  <2> HIDE DEF x
  <2>2. ASSUME NEW Z, HasBatch(x, Z) PROVE HasBatch(w, Z) \/ Has(b, Z)
    <3>1. PICK i \in 1 .. (Len(w) + 1) : Has(x[i], Z) BY <2>1, <2>2 DEF HasBatch
    <3>2. i = Len(w) + 1 \/ i \in 1 .. Len(w) BY <2>1, <3>1
    <3> QED BY <2>1, <3>1, <3>2 DEF HasBatch
  <2>3. ASSUME NEW Z, HasBatch(w, Z) PROVE HasBatch(x, Z)
    <3>1. PICK i \in 1 .. Len(w) : Has(w[i], Z) BY <2>1, <2>3 DEF HasBatch
    <3>2. i \in DOMAIN x BY <2>1, <3>1
    <3> QED BY <2>1, <3>1, <3>2 DEF HasBatch
  <2>4. ASSUME NEW Z, Has(b, Z) PROVE HasBatch(x, Z)
    <3>1. Len(w) + 1 \in DOMAIN x BY <2>1
    <3> QED BY <2>1, <2>4, <3>1 DEF HasBatch
  <2> QED BY <2>1, <2>2, <2>3, <2>4 DEF x
<1>2. Elements(<<>>) = {} /\ \A X, Y : ~Has(<<>>, X) /\ OrderedIn(<<>>, X, Y)
  BY DEF Elements, Has, OrderedIn
<1>3. Lane(s, Append(w, u), <<>>) = Lane(s, w, u) BY <1>1, <1>2 DEF Lane
<1>4. Lane(s, Append(w, v), u) = Lane(s, w, u) \cup Elements(v) BY <1>1 DEF Lane
<1>5. ASSUME NEW X, NEW Y, LaneOrdered(s, w, u, X, Y)
      PROVE  LaneOrdered(s, Append(w, u), <<>>, X, Y)
  <2> DEFINE x == Append(w, u)
  <2>1. /\ DOMAIN x = 1 .. (Len(w) + 1) /\ DOMAIN w = 1 .. Len(w) /\ Len(w) \in Nat
        /\ \A i \in 1 .. Len(w) : x[i] = w[i]
        /\ x[Len(w) + 1] = u
        /\ \A Z : HasBatch(x, Z) <=> HasBatch(w, Z) \/ Has(u, Z)
    BY <1>1
  <2> HIDE DEF x
  <2>2. \A b \in DOMAIN x : OrderedIn(x[b], X, Y)
    <3> SUFFICES ASSUME NEW b \in 1 .. (Len(w) + 1) PROVE OrderedIn(x[b], X, Y) BY <2>1
    <3>1. b = Len(w) + 1 \/ b \in 1 .. Len(w) BY <2>1
    <3> QED BY <1>5, <2>1, <3>1 DEF LaneOrdered
  <2>3. \A a, b \in DOMAIN x : Has(x[a], Y) /\ Has(x[b], X) => b <= a
    <3> SUFFICES ASSUME NEW a \in 1 .. (Len(w) + 1), NEW b \in 1 .. (Len(w) + 1),
                        Has(x[a], Y), Has(x[b], X)
                 PROVE  b <= a
      BY <2>1
    <3>1. CASE a = Len(w) + 1 BY <2>1, <3>1
    <3>2. CASE a \in 1 .. Len(w)
      <4>1. HasBatch(w, Y) BY <2>1, <3>2 DEF HasBatch
      <4>2. ~Has(u, X) BY <1>5, <4>1 DEF LaneOrdered
      <4>3. b # Len(w) + 1 BY <2>1, <4>2
      <4>4. b \in 1 .. Len(w) BY <2>1, <4>3
      <4> QED BY <1>5, <2>1, <3>2, <4>4 DEF LaneOrdered
    <3> QED BY <2>1, <3>1, <3>2
  <2>4. Has(s, Y) => ~HasBatch(x, X) BY <1>5, <2>1 DEF LaneOrdered
  <2>5. LaneOrdered(s, x, <<>>, X, Y) BY <1>2, <1>5, <2>2, <2>3, <2>4 DEF LaneOrdered
  <2> QED BY <2>5 DEF x
<1>6. ASSUME NEW X, NEW Y, LaneOrdered(s, w, u, X, Y), ~Has(v, X), ~Has(v, Y)
      PROVE  LaneOrdered(s, Append(w, v), u, X, Y)
  <2> DEFINE x == Append(w, v)
  <2>1. /\ DOMAIN x = 1 .. (Len(w) + 1) /\ DOMAIN w = 1 .. Len(w) /\ Len(w) \in Nat
        /\ \A i \in 1 .. Len(w) : x[i] = w[i]
        /\ x[Len(w) + 1] = v
        /\ \A Z : HasBatch(x, Z) <=> HasBatch(w, Z) \/ Has(v, Z)
    BY <1>1
  <2> HIDE DEF x
  <2>2. OrderedIn(v, X, Y) BY <1>6 DEF OrderedIn, Has
  <2>3. \A b \in DOMAIN x : OrderedIn(x[b], X, Y)
    <3> SUFFICES ASSUME NEW b \in 1 .. (Len(w) + 1) PROVE OrderedIn(x[b], X, Y) BY <2>1
    <3>1. b = Len(w) + 1 \/ b \in 1 .. Len(w) BY <2>1
    <3> QED BY <1>6, <2>1, <2>2, <3>1 DEF LaneOrdered
  <2>4. \A a, b \in DOMAIN x : Has(x[a], Y) /\ Has(x[b], X) => b <= a
    <3> SUFFICES ASSUME NEW a \in 1 .. (Len(w) + 1), NEW b \in 1 .. (Len(w) + 1),
                        Has(x[a], Y), Has(x[b], X)
                 PROVE  b <= a
      BY <2>1
    <3>1. a # Len(w) + 1 /\ b # Len(w) + 1 BY <1>6, <2>1
    <3>2. a \in 1 .. Len(w) /\ b \in 1 .. Len(w) BY <2>1, <3>1
    <3> QED BY <1>6, <2>1, <3>2 DEF LaneOrdered
  <2>5. LaneOrdered(s, x, u, X, Y) BY <1>6, <2>1, <2>3, <2>4 DEF LaneOrdered
  <2> QED BY <2>5 DEF x
<1> QED BY <1>3, <1>4, <1>5, <1>6

\* The receiver takes the first batch.
LEMMA LaneBatch ==
  ASSUME NEW S, NEW w \in Seq(Seq(S)), w # <<>>, NEW u
  PROVE  /\ Lane(Head(w), Tail(w), u) = Lane(<<>>, w, u)
         /\ \A X, Y : LaneOrdered(<<>>, w, u, X, Y) => LaneOrdered(Head(w), Tail(w), u, X, Y)
<1> DEFINE x == Tail(w)
<1>1. /\ Elements(w) = {Head(w)} \cup Elements(x)
      /\ Len(w) \in Nat \ {0} /\ DOMAIN w = 1 .. Len(w) /\ DOMAIN x = 1 .. (Len(w) - 1)
      /\ Head(w) = w[1] /\ \A i \in 1 .. (Len(w) - 1) : x[i] = w[i + 1]
  BY TailElements
<1> HIDE DEF x
<1>2. Elements(<<>>) = {} BY DEF Elements
<1>3. Lane(Head(w), x, u) = Lane(<<>>, w, u) BY <1>1, <1>2 DEF Lane
<1>4. ASSUME NEW X, NEW Y, LaneOrdered(<<>>, w, u, X, Y) PROVE LaneOrdered(Head(w), x, u, X, Y)
  <2>1. 1 \in DOMAIN w /\ \A i \in DOMAIN x : i \in Nat /\ i + 1 \in DOMAIN w /\ x[i] = w[i + 1]
                                              /\ ~(i + 1 <= 1)
    BY <1>1
  <2>2. OrderedIn(Head(w), X, Y) /\ \A b \in DOMAIN x : OrderedIn(x[b], X, Y)
    BY <1>1, <1>4, <2>1 DEF LaneOrdered
  <2>3. \A a, b \in DOMAIN x : Has(x[a], Y) /\ Has(x[b], X) => b <= a
    <3> SUFFICES ASSUME NEW a \in DOMAIN x, NEW b \in DOMAIN x, Has(x[a], Y), Has(x[b], X)
                 PROVE  b <= a
      OBVIOUS
    <3>1. b + 1 <= a + 1 BY <1>4, <2>1 DEF LaneOrdered
    <3> QED BY <2>1, <3>1
  <2>4. Has(Head(w), Y) => ~HasBatch(x, X) BY <1>1, <1>4, <2>1 DEF LaneOrdered, HasBatch
  <2>5. \A Z : HasBatch(x, Z) => HasBatch(w, Z) BY <2>1 DEF HasBatch
  <2>6. \A Z : Has(Head(w), Z) => HasBatch(w, Z) BY <1>1, <2>1 DEF HasBatch
  <2> QED BY <1>4, <2>2, <2>3, <2>4, <2>5, <2>6 DEF LaneOrdered
<1> QED BY <1>3, <1>4 DEF x

\* The receiver takes a message.
LEMMA LaneNext ==
  ASSUME NEW S, NEW s \in Seq(S), s # <<>>, NEW w, NEW u
  PROVE  /\ Lane(s, w, u) = {Head(s)} \cup Lane(Tail(s), w, u)
         /\ \A X, Y : LaneOrdered(s, w, u, X, Y) =>
              /\ LaneOrdered(Tail(s), w, u, X, Y)
              /\ Head(s) \in Y => Lane(Tail(s), w, u) \cap X = {}
<1> DEFINE t == Tail(s)
<1>1. /\ Elements(s) = {Head(s)} \cup Elements(t)
      /\ Len(s) \in Nat \ {0} /\ DOMAIN s = 1 .. Len(s) /\ DOMAIN t = 1 .. (Len(s) - 1)
      /\ Head(s) = s[1] /\ \A i \in 1 .. (Len(s) - 1) : t[i] = s[i + 1]
  BY TailElements
<1> HIDE DEF t
<1>2. Lane(s, w, u) = {Head(s)} \cup Lane(t, w, u) BY <1>1 DEF Lane
<1>3. 1 \in DOMAIN s /\ \A i \in DOMAIN t : i \in Nat /\ i + 1 \in DOMAIN s /\ t[i] = s[i + 1]
                                            /\ ~(i + 1 <= 1)
  BY <1>1
<1>4. ASSUME NEW X, NEW Y, LaneOrdered(s, w, u, X, Y)
      PROVE  LaneOrdered(t, w, u, X, Y) /\ (Head(s) \in Y => Lane(t, w, u) \cap X = {})
  <2>1. OrderedIn(t, X, Y)
    <3> SUFFICES ASSUME NEW i \in DOMAIN t, NEW j \in DOMAIN t, t[i] \in Y, t[j] \in X
                 PROVE  j <= i
      BY DEF OrderedIn
    <3>1. j + 1 <= i + 1 BY <1>3, <1>4 DEF LaneOrdered, OrderedIn
    <3> QED BY <1>3, <3>1
  <2>2. \A Z : Has(t, Z) => Has(s, Z) BY <1>3 DEF Has
  <2>3. LaneOrdered(t, w, u, X, Y) BY <1>4, <2>1, <2>2 DEF LaneOrdered
  <2>4. ASSUME Head(s) \in Y PROVE Lane(t, w, u) \cap X = {}
    <3>1. Has(s, Y) BY <1>1, <1>3, <2>4 DEF Has
    <3>2. ~HasBatch(w, X) /\ ~Has(u, X) BY <1>4, <3>1 DEF LaneOrdered
    <3>3. ~Has(t, X)
      BY <1>1, <1>3, <1>4, <2>4 DEF LaneOrdered, OrderedIn, Has
    <3> QED BY <3>2, <3>3, LaneHas
  <2> QED BY <2>3, <2>4
<1> QED BY <1>2, <1>4 DEF t

\* The batches on the wire, or the queue, are dropped.
LEMMA LaneDrop ==
  ASSUME NEW s, NEW w, NEW u
  PROVE  /\ Lane(s, <<>>, u) \subseteq Lane(s, w, u) /\ Lane(s, w, <<>>) \subseteq Lane(s, w, u)
         /\ \A X, Y : LaneOrdered(s, w, u, X, Y) =>
              LaneOrdered(s, <<>>, u, X, Y) /\ LaneOrdered(s, w, <<>>, X, Y)
<1>1. Elements(<<>>) = {} /\ DOMAIN <<>> = {} BY DEF Elements
<1>2. \A X, Y : OrderedIn(<<>>, X, Y) /\ ~Has(<<>>, X) /\ ~HasBatch(<<>>, X)
  BY <1>1 DEF OrderedIn, Has, HasBatch
<1>3. Lane(s, <<>>, u) \subseteq Lane(s, w, u) /\ Lane(s, w, <<>>) \subseteq Lane(s, w, u)
  BY <1>1 DEF Lane
<1> QED BY <1>1, <1>2, <1>3 DEF LaneOrdered

-----------------------------------------------------------------------------
(* How each step changes what is under way.                                *)

\* The messages q's filter lets pass, by the call they name.
MeantFor(q) ==
  {m \in Message : \/ m.type \in {"request", "cancel"} /\ m.call[1] = Other(q)
                   \/ m.type \in {"reply", "replyErr"} /\ m.call[1] = q}

LEMMA InTransitLane ==
  ASSUME NEW q \in Protocols
  PROVE  InTransit(q) = Lane(inbox[q], wire[ProcessOf(q)], messagesToSend[Other(q)])
BY DEF InTransit, Lane

LEMMA LaneTypes ==
  ASSUME TypeOK, NEW q \in Protocols
  PROVE  /\ inbox[q] \in Seq(Message) /\ wire[ProcessOf(q)] \in Seq(Seq(Message))
         /\ messagesToSend[Other(q)] \in Seq(Message)
BY ObjectFacts DEF TypeOK

LEMMA InTransitTyped ==
  ASSUME TypeOK, NEW q \in Protocols
  PROVE  InTransit(q) \subseteq Message
<1>1. \A s \in Seq(Message) : Elements(s) \subseteq Message BY DEF Elements
<1>2. \A w \in Seq(Seq(Message)) : Elements(w) \subseteq Seq(Message) BY DEF Elements
<1>3. UNION {Elements(b) : b \in Elements(wire[ProcessOf(q)])} \subseteq Message
  BY <1>1, <1>2, LaneTypes
<1> QED BY <1>1, <1>3, LaneTypes DEF InTransit

\* Two objects have each other for peers, no third one.
LEMMA OnlyPeer ==
  ASSUME NEW p \in Protocols, NEW q \in Protocols, q # Other(p)
  PROVE  p # Other(q) /\ Traffic(p) \cap MeantFor(q) = {}
<1>1. p # Other(q) /\ Other(p) # q BY ObjectFacts
<1>2. ASSUME NEW m \in Traffic(p), m \in MeantFor(q) PROVE FALSE
  <2>1. m.type # "setHostID" BY <1>2 DEF MeantFor
  <2>2. m # SetHostID(p) BY <2>1 DEF SetHostID
  <2>3. CASE m.type \in {"request", "cancel"}
    BY <1>1, <1>2, <2>2, <2>3 DEF Traffic, MeantFor
  <2>4. CASE m.type \notin {"request", "cancel"}
    BY <1>1, <1>2, <2>2, <2>4 DEF Traffic, MeantFor
  <2> QED BY <2>3, <2>4
<1> QED BY <1>1, <1>2

LEMMA SendLane ==
  ASSUME TypeOK, NEW p \in Protocols, NEW m \in Message, Send(p, m), UNCHANGED <<wire, inbox>>,
         NEW q \in Protocols, NEW X, NEW Y
  PROVE  /\ InTransit(q)' = InTransit(q) \cup (IF q = Other(p) THEN {m} ELSE {})
         /\ /\ Ordered(q, X, Y)
            /\ q = Other(p) => m \notin X \/ InTransit(q) \cap Y = {}
            => Ordered(q, X, Y)'
<1>1. \A r \in Protocols :
        messagesToSend'[r] = IF r = p THEN Append(messagesToSend[p], m) ELSE messagesToSend[r]
  BY DEF Send, TypeOK
<1>2. Other(q) \in Protocols /\ (Other(q) = p <=> q = Other(p)) BY ObjectFacts
<1>3. CASE q = Other(p)
  <2>1. messagesToSend'[Other(q)] = Append(messagesToSend[Other(q)], m) BY <1>1, <1>2, <1>3
  <2> QED BY <1>3, <2>1, LaneTypes, LaneAppend, InTransitLane DEF Ordered, InTransit, Lane
<1>4. CASE q # Other(p)
  <2>1. messagesToSend'[Other(q)] = messagesToSend[Other(q)] BY <1>1, <1>2, <1>4
  <2> QED BY <1>4, <2>1 DEF Ordered, InTransit
<1> QED BY <1>3, <1>4

\* A step that only carries messages: those under way for q are the same, in the
\* same order, or the host is gone and there are fewer.
Carries(q) ==
  /\ InTransit(q)' \cap MeantFor(q) \subseteq InTransit(q)
  /\ alive[q[2]]' => InTransit(q) \cap MeantFor(q) \subseteq InTransit(q)'
  /\ \A X, Y \in SUBSET MeantFor(q) : Ordered(q, X, Y) => Ordered(q, X, Y)'

LEMMA FlushCarries ==
  ASSUME TypeOK, TrafficInv, alive[Browser], NEW p \in Protocols, SendAccumulated(p),
         NEW q \in Protocols
  PROVE  Carries(q)
<1> DEFINE e == ProcessOf(q)
           s == inbox[q]
           w == wire[e]
           u == messagesToSend[Other(q)]
           v == messagesToSend[p]
<1>1. s \in Seq(Message) /\ w \in Seq(Seq(Message)) /\ u \in Seq(Message) /\ v \in Seq(Message)
  BY LaneTypes DEF TypeOK
<1>2. inbox'[q] = s /\ alive' = alive BY DEF SendAccumulated
<1>3. messagesToSend'[Other(q)] = IF Other(q) = p THEN <<>> ELSE u
  BY ObjectFacts DEF SendAccumulated, TypeOK
<1>4. e \in Processes /\ Destination(p) \in Processes /\ (Other(q) = p <=> q = Other(p))
  BY ObjectFacts, TrafficArrives
<1>5. wire'[e] = IF e = Destination(p) /\ alive[Destination(p)] THEN Append(w, v) ELSE w
  BY <1>4 DEF SendAccumulated, TypeOK
<1>6. CASE q = Other(p)
  <2>1. e = Destination(p) /\ v = u /\ Other(q) = p BY <1>4, <1>6 DEF Destination
  <2>2. CASE alive[e]
    <3>1. wire'[e] = Append(w, u) /\ messagesToSend'[Other(q)] = <<>>
      BY <1>3, <1>5, <2>1, <2>2
    <3>2. InTransit(q)' = InTransit(q)
      <4>1. Lane(s, Append(w, u), <<>>) = Lane(s, w, u) BY <1>1, LaneFlush
      <4>2. InTransit(q)' = Lane(s, Append(w, u), <<>>) BY <1>2, <3>1 DEF InTransit, Lane
      <4>3. InTransit(q) = Lane(s, w, u) BY DEF InTransit, Lane
      <4> QED BY <4>1, <4>2, <4>3
    <3>3. \A X, Y : Ordered(q, X, Y) => Ordered(q, X, Y)'
      BY <1>1, <1>2, <3>1, LaneFlush DEF Ordered
    <3> QED BY <3>2, <3>3 DEF Carries
  <2>3. CASE ~alive[e]
    <3>1. wire'[e] = w /\ messagesToSend'[Other(q)] = <<>>
      BY <1>3, <1>5, <2>1, <2>3
    <3>2. InTransit(q)' \subseteq InTransit(q)
      BY <1>2, <3>1, LaneDrop DEF InTransit, Lane
    <3>3. \A X, Y : Ordered(q, X, Y) => Ordered(q, X, Y)'
      <4>1. \A X, Y : LaneOrdered(s, w, u, X, Y) => LaneOrdered(s, w, <<>>, X, Y) BY LaneDrop
      <4> QED BY <1>2, <3>1, <4>1 DEF Ordered
    <3>4. e = q[2] BY <2>3 DEF ProcessOf
    <3> QED BY <1>2, <2>3, <3>2, <3>3, <3>4 DEF Carries
  <2> QED BY <2>2, <2>3
<1>7. CASE q # Other(p)
  <2>1. messagesToSend'[Other(q)] = u BY <1>3, <1>4, <1>7
  <2>2. CASE wire'[e] = w
    BY <1>2, <2>1, <2>2 DEF Carries, InTransit, Ordered
  <2>3. CASE wire'[e] = Append(w, v)
    <3>1. v \in Seq(Traffic(p)) BY DEF TrafficInv
    <3>2. Elements(v) \subseteq Traffic(p) BY <3>1 DEF Elements
    <3>3. Elements(v) \cap MeantFor(q) = {} BY <1>7, <3>2, OnlyPeer
    <3>4. InTransit(q)' = InTransit(q) \cup Elements(v)
      BY <1>1, <1>2, <2>1, <2>3, LaneFlush DEF InTransit, Lane
    <3>5. ASSUME NEW X \in SUBSET MeantFor(q), NEW Y \in SUBSET MeantFor(q), Ordered(q, X, Y)
          PROVE  Ordered(q, X, Y)'
      <4>1. ~Has(v, X) /\ ~Has(v, Y) BY <3>3 DEF Has, Elements
      <4> QED BY <1>1, <1>2, <2>1, <2>3, <3>5, <4>1, LaneFlush DEF Ordered
    <3> QED BY <3>3, <3>4, <3>5 DEF Carries
  <2> QED BY <1>5, <2>2, <2>3
<1> QED BY <1>6, <1>7

LEMMA BatchCarries ==
  ASSUME TypeOK, NEW e \in Processes, ReceiveBatch(e), NEW q \in Protocols
  PROVE  Carries(q)
<1> DEFINE u == messagesToSend[Other(q)]
<1>1. messagesToSend'[Other(q)] = u /\ alive' = alive BY DEF ReceiveBatch
<1>2. CASE ProcessOf(q) = e
  <2>1. inbox[q] = <<>> /\ wire[e] # <<>> /\ wire[e] \in Seq(Seq(Message))
    BY <1>2 DEF ReceiveBatch, Idle, ObjectsOf, TypeOK
  <2>2. inbox'[q] = Head(wire[e]) /\ wire'[e] = Tail(wire[e])
    BY <1>2 DEF ReceiveBatch, ObjectsOf, TypeOK
  <2>3. InTransit(q)' = InTransit(q)
    BY <1>1, <1>2, <2>1, <2>2, LaneBatch DEF InTransit, Lane
  <2>4. \A X, Y : Ordered(q, X, Y) => Ordered(q, X, Y)'
    BY <1>1, <1>2, <2>1, <2>2, LaneBatch DEF Ordered
  <2> QED BY <2>3, <2>4 DEF Carries
<1>3. CASE ProcessOf(q) # e
  <2>1. inbox'[q] = inbox[q] /\ wire'[ProcessOf(q)] = wire[ProcessOf(q)]
    BY <1>3, ObjectFacts DEF ReceiveBatch, ObjectsOf, TypeOK
  <2> QED BY <1>1, <2>1 DEF Carries, InTransit, Ordered
<1> QED BY <1>2, <1>3

LEMMA ExitCarries ==
  ASSUME TypeOK, NEW h \in Mortal, HostExits(h), NEW q \in Protocols
  PROVE  Carries(q)
<1> DEFINE e == ProcessOf(q)
<1>1. h \in Processes /\ h \in Hosts /\ h # Browser BY RpcAssumption DEF Processes
<1>2. inbox' = inbox /\ messagesToSend' = messagesToSend BY DEF HostExits
<1>3. e \in Processes /\ wire'[e] = IF e = h THEN <<>> ELSE wire[e]
  BY ObjectFacts DEF HostExits, TypeOK
<1>4. CASE e = h
  <2>1. h = q[2] BY <1>1, <1>4 DEF ProcessOf
  <2>2. ~alive[q[2]]' BY <1>1, <2>1 DEF HostExits, TypeOK
  <2>3. wire'[e] = <<>> BY <1>3, <1>4
  <2>4. InTransit(q)' \subseteq InTransit(q)
    <3>1. Lane(inbox[q], <<>>, messagesToSend[Other(q)]) \subseteq
            Lane(inbox[q], wire[e], messagesToSend[Other(q)])
      BY LaneDrop
    <3> QED BY <1>2, <2>3, <3>1 DEF InTransit, Lane
  <2>5. \A X, Y : Ordered(q, X, Y) => Ordered(q, X, Y)'
    BY <1>2, <2>3, LaneDrop DEF Ordered
  <2> QED BY <2>2, <2>4, <2>5 DEF Carries
<1>5. CASE e # h
  BY <1>2, <1>3, <1>5 DEF Carries, InTransit, Ordered
<1> QED BY <1>4, <1>5

\* A message that is meant for p and comes up is handled, and is no longer under
\* way; nothing else changes.
LEMMA NextLane ==
  ASSUME TypeOK, IdentityInv, NEW p \in Protocols, NEW m, NextMessage(p, m), NEW q \in Protocols
  PROVE  /\ InTransit(q)' \subseteq InTransit(q)
         /\ InTransit(q) \subseteq InTransit(q)' \cup {m}
         /\ q # p => InTransit(q)' = InTransit(q)
         /\ m \in InTransit(p)
         /\ m \in MeantFor(p) => Accepts(p, m)
         /\ \A X, Y : Ordered(q, X, Y) =>
              Ordered(q, X, Y)' /\ (q = p /\ m \in Y => InTransit(q)' \cap X = {})
<1>1. /\ inbox[p] # <<>> /\ m = Head(inbox[p]) /\ wire' = wire /\ messagesToSend' = messagesToSend
  BY DEF NextMessage
<1>2. \A r \in Protocols : inbox'[r] = IF r = p THEN Tail(inbox[p]) ELSE inbox[r]
  BY DEF NextMessage, TypeOK
<1>3. m \in MeantFor(p) => Accepts(p, m)
  <2> SUFFICES ASSUME m \in MeantFor(p), p[1] = "main", UsesHostId PROVE m.hostID = p[2]
    BY DEF MeantFor, Accepts
  <2>1. m \in Incoming(ProcessOf(p)) BY HandledCall
  <2>2. PICK h \in Hosts : m \in Traffic(<<"ext", h>>)
    BY <2>1, ProcessFacts DEF Incoming
  <2>3. p = Other(<<"ext", h>>) BY <2>2, OnlyPeer, ProcessFacts
  <2>4. p[2] = h BY <2>3, ProcessFacts DEF Other
  <2>5. m.type # "setHostID" BY DEF MeantFor
  <2> QED BY <2>2, <2>4, <2>5 DEF Traffic, Labelled
<1>4. m \in InTransit(p)
  BY <1>1, LaneTypes, LaneNext, InTransitLane
<1>5. CASE q = p
  <2>1. inbox'[q] = Tail(inbox[q]) BY <1>2, <1>5
  <2>2. inbox[q] \in Seq(Message) /\ inbox[q] # <<>> /\ m = Head(inbox[q])
    BY <1>1, <1>5, LaneTypes
  <2>3. InTransit(q) = {m} \cup InTransit(q)'
    BY <1>1, <2>1, <2>2, LaneNext DEF InTransit, Lane
  <2>4. \A X, Y : Ordered(q, X, Y) => Ordered(q, X, Y)' /\ (m \in Y => InTransit(q)' \cap X = {})
    <3> DEFINE w == wire[ProcessOf(q)]
               u == messagesToSend[Other(q)]
    <3>1. \A X, Y : LaneOrdered(inbox[q], w, u, X, Y) =>
            /\ LaneOrdered(Tail(inbox[q]), w, u, X, Y)
            /\ m \in Y => Lane(Tail(inbox[q]), w, u) \cap X = {}
      BY <2>2, LaneNext
    <3>2. InTransit(q)' = Lane(Tail(inbox[q]), w, u) BY <1>1, <2>1 DEF InTransit, Lane
    <3>3. \A X, Y : /\ Ordered(q, X, Y) = LaneOrdered(inbox[q], w, u, X, Y)
                    /\ Ordered(q, X, Y)' = LaneOrdered(Tail(inbox[q]), w, u, X, Y)
      BY <1>1, <2>1 DEF Ordered
    <3> QED BY <3>1, <3>2, <3>3
  <2> QED BY <1>3, <1>4, <1>5, <2>3, <2>4
<1>6. CASE q # p
  BY <1>1, <1>2, <1>3, <1>4, <1>6 DEF InTransit, Ordered
<1> QED BY <1>5, <1>6

-----------------------------------------------------------------------------
(* How far a call has come, and where it is.                               *)

Requests(c) == {m \in Message : m.type = "request" /\ m.call = c}
Cancels(c) == {m \in Message : m.type = "cancel" /\ m.call = c}
Answers(c) == {m \in Message : m.type \in {"reply", "replyErr"} /\ m.call = c}

Status(c) == outcome[c].status
Callee(c) == Other(c[1])
RunningOf(c) == {h \in invokedHandlers[Callee(c)] : h.call = c}

\* A call that has not been made leaves no trace; its number is pending as long
\* as its promise is.
NumbersInv ==
  \A c \in Calls :
    /\ Status(c) = "idle" <=> c[2] > lastMessageId[c[1]]
    /\ Status(c) = "idle" => exec[c] = "none"
    /\ Status(c) = "pending" <=> c[2] \in pendingRPCReplies[c[1]]

\* What is under way for a call, or runs for it, says how far it has come.
StageInv ==
  \A c \in Calls :
    /\ \A m \in InTransit(Callee(c)) \cap Requests(c) : Status(c) = "pending" /\ exec[c] = "none"
    /\ \A h \in RunningOf(c) : Status(c) = "pending" /\ exec[c] = "running"
    /\ \A m \in InTransit(c[1]) \cap Answers(c) :
         Status(c) = "pending" /\ exec[c] = IF m.type = "reply" THEN "ok" ELSE "err"

\* There is one of each.
OnceInv ==
  \A c \in Calls :
    /\ Ordered(Callee(c), Requests(c), Requests(c))
    /\ Ordered(c[1], Answers(c), Answers(c))
    /\ \A g, h \in RunningOf(c) : g = h

\* None is lost, as long as the host lives.
KeptInv ==
  \A c \in Calls : Status(c) = "pending" /\ alive[c[1][2]] =>
    /\ exec[c] = "none" => InTransit(Callee(c)) \cap Requests(c) # {}
    /\ exec[c] = "running" => RunningOf(c) # {}
    /\ exec[c] \in {"ok", "err"} => InTransit(c[1]) \cap Answers(c) # {}

\* The cancel of a call follows its request, and finds the token source of its
\* handler.
Cancelled(c) == c[2] \notin tokens[c[1]]
CancelInv ==
  \A c \in Calls :
    /\ Ordered(Callee(c), Requests(c), Cancels(c))
    /\ InTransit(Callee(c)) \cap Cancels(c) # {} => Cancelled(c) /\ Status(c) # "idle"
    /\ \A h \in RunningOf(c) : <<h.id, c>> \in cancellationTokenSources[Callee(c)]
    /\ alive[c[1][2]] /\ Cancelled(c) =>
         /\ \A m \in InTransit(Callee(c)) \cap Requests(c) :
              m.kind # "unknown" => InTransit(Callee(c)) \cap Cancels(c) # {}
         /\ \A h \in RunningOf(c) :
              h.kind # "unknown" => c \in signalled \/ InTransit(Callee(c)) \cap Cancels(c) # {}

CallInv == alive[Browser] /\ NumbersInv /\ StageInv /\ OnceInv /\ KeptInv /\ CancelInv

LEMMA CallSets ==
  ASSUME NEW c \in Calls
  PROVE  /\ c[1] \in Protocols /\ c[2] \in Nat \ {0} /\ c = <<c[1], c[2]>>
         /\ c[2] \in 1 .. MaxCalls[c[1]]
         /\ Callee(c) \in Protocols /\ Callee(c) # c[1] /\ Other(Callee(c)) = c[1]
         /\ Callee(c)[2] = c[1][2] /\ c[1][2] \in Hosts
         /\ Requests(c) \subseteq MeantFor(Callee(c)) /\ Cancels(c) \subseteq MeantFor(Callee(c))
         /\ Answers(c) \subseteq MeantFor(c[1])
<1>1. c[1] \in Protocols /\ c[2] \in 1 .. MaxCalls[c[1]] /\ c = <<c[1], c[2]>>
  BY DEF Calls
<1>2. MaxCalls[c[1]] \in Nat BY <1>1, RpcAssumption
<1>3. /\ Callee(c) \in Protocols /\ Callee(c) # c[1] /\ Other(Callee(c)) = c[1]
      /\ c[1][2] \in Hosts /\ Callee(c)[2] = c[1][2]
  BY <1>1, ObjectFacts DEF Callee, Other
<1>4. /\ Requests(c) \subseteq MeantFor(Callee(c)) /\ Cancels(c) \subseteq MeantFor(Callee(c))
      /\ Answers(c) \subseteq MeantFor(c[1])
  BY <1>3 DEF Requests, Cancels, Answers, MeantFor
<1>5. c[2] \in Nat \ {0} BY <1>1, <1>2
<1> QED BY <1>1, <1>3, <1>4, <1>5

LEMMA InitCalls == Init => CallInv
<1> SUFFICES ASSUME Init PROVE CallInv OBVIOUS
<1>1. \A q \in Protocols : Elements(inbox[q]) = {} /\ Elements(wire[ProcessOf(q)]) = {}
  BY ObjectFacts DEF Init, Elements
<1>2. \A q \in Protocols : \A m \in Elements(messagesToSend[q]) : m.type = "setHostID"
  BY DEF Init, Elements, SetHostID
<1>3. \A q \in Protocols : \A m \in InTransit(q) : m.type = "setHostID"
  BY <1>1, <1>2, ObjectFacts DEF InTransit
<1>4. ASSUME NEW c \in Calls
      PROVE  /\ InTransit(Callee(c)) \cap Requests(c) = {} /\ InTransit(Callee(c)) \cap Cancels(c) = {}
             /\ InTransit(c[1]) \cap Answers(c) = {}
  BY <1>3, CallSets DEF Requests, Cancels, Answers
<1>5. ASSUME NEW q \in Protocols, NEW X, NEW Y, InTransit(q) \cap Y = {}
      PROVE  Ordered(q, X, Y)
  <2> DEFINE s == inbox[q]
             w == wire[ProcessOf(q)]
             u == messagesToSend[Other(q)]
  <2>1. ~Has(s, Y) /\ ~HasBatch(w, Y) /\ ~Has(u, Y) BY <1>5, LaneHas, InTransitLane
  <2>2. \A b \in DOMAIN w : ~Has(w[b], Y) BY <2>1 DEF HasBatch
  <2> QED BY <2>1, <2>2 DEF Ordered, LaneOrdered, OrderedIn, Has
<1>6. \A c \in Calls : RunningOf(c) = {} BY CallSets DEF RunningOf, Init
<1>7. \A c \in Calls : Status(c) = "idle" /\ exec[c] = "none" BY DEF Init, Status
<1>8. alive[Browser] BY DEF Init, Processes
<1>9. NumbersInv BY <1>7, CallSets DEF NumbersInv, Init
<1>10. StageInv /\ KeptInv BY <1>4, <1>6, <1>7 DEF StageInv, KeptInv
<1>11. OnceInv BY <1>4, <1>5, <1>6, CallSets DEF OnceInv
<1>12. CancelInv BY <1>4, <1>5, <1>6, CallSets DEF CancelInv
<1> QED BY <1>8, <1>9, <1>10, <1>11, <1>12 DEF CallInv

\* A step that only carries messages leaves the calls where they are.
LEMMA CarryKeepsCalls ==
  ASSUME CallInv, \A q \in Protocols : Carries(q), UNCHANGED <<caller, receiver>>,
         alive[Browser]', \A h \in Hosts : alive[h]' => alive[h]
  PROVE  CallInv'
<1>1. ASSUME NEW c \in Calls
      PROVE  /\ Status(c)' = Status(c) /\ RunningOf(c)' = RunningOf(c)
             /\ Cancelled(c)' = Cancelled(c)
             /\ alive[c[1][2]]' => alive[c[1][2]]
  BY <1>1, CallSets DEF Status, RunningOf, Cancelled
<1>2. ASSUME NEW c \in Calls
      PROVE  /\ InTransit(Callee(c))' \cap Requests(c) \subseteq InTransit(Callee(c)) \cap Requests(c)
             /\ InTransit(Callee(c))' \cap Cancels(c) \subseteq InTransit(Callee(c)) \cap Cancels(c)
             /\ InTransit(c[1])' \cap Answers(c) \subseteq InTransit(c[1]) \cap Answers(c)
             /\ alive[c[1][2]]' =>
                  /\ InTransit(Callee(c)) \cap Requests(c) \subseteq InTransit(Callee(c))'
                  /\ InTransit(Callee(c)) \cap Cancels(c) \subseteq InTransit(Callee(c))'
                  /\ InTransit(c[1]) \cap Answers(c) \subseteq InTransit(c[1])'
             /\ Ordered(Callee(c), Requests(c), Requests(c))'
             /\ Ordered(Callee(c), Requests(c), Cancels(c))'
             /\ Ordered(c[1], Answers(c), Answers(c))'
  <2>1. Carries(c[1]) /\ Carries(Callee(c)) BY CallSets
  <2>2. /\ Requests(c) \in SUBSET MeantFor(Callee(c)) /\ Cancels(c) \in SUBSET MeantFor(Callee(c))
        /\ Answers(c) \in SUBSET MeantFor(c[1]) /\ Callee(c)[2] = c[1][2]
    BY CallSets
  <2>3. /\ Ordered(Callee(c), Requests(c), Requests(c)) /\ Ordered(c[1], Answers(c), Answers(c))
        /\ Ordered(Callee(c), Requests(c), Cancels(c))
    BY DEF CallInv, OnceInv, CancelInv
  <2>4. /\ Ordered(Callee(c), Requests(c), Requests(c))'
        /\ Ordered(Callee(c), Requests(c), Cancels(c))'
        /\ Ordered(c[1], Answers(c), Answers(c))'
    BY <2>1, <2>2, <2>3 DEF Carries
  <2> QED BY <2>1, <2>2, <2>4 DEF Carries
<1>3. NumbersInv' BY <1>1 DEF CallInv, NumbersInv
<1>4. StageInv' BY <1>1, <1>2 DEF CallInv, StageInv
<1>5. OnceInv' BY <1>1, <1>2 DEF CallInv, OnceInv
<1>6. KeptInv' BY <1>1, <1>2 DEF CallInv, KeptInv
<1>7. CancelInv'
  <2> SUFFICES ASSUME NEW c \in Calls
               PROVE  /\ Ordered(Callee(c), Requests(c), Cancels(c))'
                      /\ InTransit(Callee(c))' \cap Cancels(c) # {} => Cancelled(c)' /\ Status(c)' # "idle"
                      /\ \A h \in RunningOf(c)' : <<h.id, c>> \in cancellationTokenSources'[Callee(c)]
                      /\ alive[c[1][2]]' /\ Cancelled(c)' =>
                           /\ \A m \in InTransit(Callee(c))' \cap Requests(c) :
                                m.kind # "unknown" => InTransit(Callee(c))' \cap Cancels(c) # {}
                           /\ \A h \in RunningOf(c)' : h.kind # "unknown" =>
                                c \in signalled' \/ InTransit(Callee(c))' \cap Cancels(c) # {}
    BY DEF CancelInv
  <2> QED BY <1>1, <1>2 DEF CallInv, CancelInv
<1> QED BY <1>3, <1>4, <1>5, <1>6, <1>7 DEF CallInv

\* What a message that is queued adds for each call.
LEMMA SentForCall ==
  ASSUME TypeOK, CallInv, NEW p \in Protocols, NEW m \in Message, Send(p, m),
         UNCHANGED <<wire, inbox, alive>>, NEW c \in Calls
  PROVE  LET here == p = c[1] there == p = Callee(c) IN
         /\ InTransit(Callee(c))' = InTransit(Callee(c)) \cup (IF here THEN {m} ELSE {})
         /\ InTransit(c[1])' = InTransit(c[1]) \cup (IF there THEN {m} ELSE {})
         /\ here => (m \notin Requests(c) \/ InTransit(Callee(c)) \cap Requests(c) = {}
               => Ordered(Callee(c), Requests(c), Requests(c))')
         /\ here => (m \notin Requests(c) \/ InTransit(Callee(c)) \cap Cancels(c) = {}
               => Ordered(Callee(c), Requests(c), Cancels(c))')
         /\ ~here => Ordered(Callee(c), Requests(c), Requests(c))'
         /\ ~here => Ordered(Callee(c), Requests(c), Cancels(c))'
         /\ there => (m \notin Answers(c) \/ InTransit(c[1]) \cap Answers(c) = {}
               => Ordered(c[1], Answers(c), Answers(c))')
         /\ ~there => Ordered(c[1], Answers(c), Answers(c))'
<1> DEFINE q == Callee(c)
<1>1. /\ c[1] \in Protocols /\ q \in Protocols /\ Other(q) = c[1]
      /\ (q = Other(p) <=> p = c[1]) /\ (c[1] = Other(p) <=> p = q)
  BY CallSets, ObjectFacts DEF Callee
<1>2. /\ Ordered(q, Requests(c), Requests(c)) /\ Ordered(c[1], Answers(c), Answers(c))
      /\ Ordered(q, Requests(c), Cancels(c))
  BY DEF CallInv, OnceInv, CancelInv
<1> HIDE DEF q
<1>3. InTransit(q)' = InTransit(q) \cup (IF p = c[1] THEN {m} ELSE {})
  BY <1>1, SendLane
<1>4. InTransit(c[1])' = InTransit(c[1]) \cup (IF p = q THEN {m} ELSE {})
  BY <1>1, SendLane
<1>5. (p = c[1] => m \notin Requests(c) \/ InTransit(q) \cap Requests(c) = {})
        => Ordered(q, Requests(c), Requests(c))'
  BY <1>1, <1>2, SendLane
<1>6. (p = c[1] => m \notin Requests(c) \/ InTransit(q) \cap Cancels(c) = {})
        => Ordered(q, Requests(c), Cancels(c))'
  BY <1>1, <1>2, SendLane
<1>7. (p = q => m \notin Answers(c) \/ InTransit(c[1]) \cap Answers(c) = {})
        => Ordered(c[1], Answers(c), Answers(c))'
  BY <1>1, <1>2, SendLane
<1> QED BY <1>3, <1>4, <1>5, <1>6, <1>7 DEF q

LEMMA RemoteCallCalls ==
  ASSUME TypeOK, CallInv, NEW p \in Protocols, NEW k \in Kinds, RemoteCall(p, k)
  PROVE  CallInv'
<1> DEFINE id == NextCallId(p)
           c0 == <<p, id>>
           m == Msg(p, "request", id, k, c0)
<1>1. /\ lastMessageId[p] \in Nat /\ id = lastMessageId[p] + 1 /\ id \in 1 .. MaxCalls[p]
      /\ MaxCalls[p] \in Nat
  <2>1. lastMessageId[p] \in Nat BY DEF TypeOK
  <2>2. MaxCalls[p] \in Nat BY RpcAssumption
  <2>3. lastMessageId[p] < MaxCalls[p] BY DEF RemoteCall
  <2> QED BY <2>1, <2>2, <2>3 DEF NextCallId
<1>2. c0 \in Calls BY <1>1, CallFacts
<1>3. m \in Message /\ m.type = "request" /\ m.call = c0 /\ m.kind = k
  BY <1>1, MsgType DEF MessageTypes, Msg
<1>4. Send(p, m) /\ UNCHANGED <<receiver, wire, inbox, alive>> BY DEF RemoteCall
<1>5. /\ \A q \in Protocols : lastMessageId'[q] = IF q = p THEN id ELSE lastMessageId[q]
      /\ \A q \in Protocols : pendingRPCReplies'[q] =
           IF q = p THEN pendingRPCReplies[p] \cup {id} ELSE pendingRPCReplies[q]
      /\ \A q \in Protocols : tokens'[q] =
           IF q = p /\ k # "unknown" THEN tokens[p] \cup {id} ELSE tokens[q]
      /\ \A c \in Calls : Status(c)' = IF c = c0 THEN "pending" ELSE Status(c)
  <2>1. \A c \in Calls : Status(c)' = IF c = c0 THEN "pending" ELSE Status(c)
    BY <1>2 DEF RemoteCall, TypeOK, Status
  <2> QED BY <2>1 DEF RemoteCall, TypeOK
<1> HIDE DEF id, c0, m
<1>6. Status(c0) = "idle" /\ c0[1] = p /\ c0[2] = id /\ exec[c0] = "none"
  <2>1. c0[1] = p /\ c0[2] = id BY DEF c0
  <2>2. id > lastMessageId[p] BY <1>1
  <2> QED BY <1>2, <2>1, <2>2 DEF CallInv, NumbersInv
<1>7. /\ InTransit(Callee(c0)) \cap Requests(c0) = {} /\ RunningOf(c0) = {}
      /\ InTransit(p) \cap Answers(c0) = {} /\ InTransit(Callee(c0)) \cap Cancels(c0) = {}
  BY <1>2, <1>6 DEF CallInv, StageInv, CancelInv
<1>8. \A c \in Calls : RunningOf(c)' = RunningOf(c) BY <1>4 DEF RunningOf
<1>9. \A c \in Calls : /\ m \in Requests(c) <=> c = c0
                       /\ m \notin Answers(c) /\ m \notin Cancels(c)
  BY <1>3 DEF Requests, Answers, Cancels
<1>10. ASSUME NEW c \in Calls
       PROVE  /\ InTransit(Callee(c))' = InTransit(Callee(c)) \cup (IF p = c[1] THEN {m} ELSE {})
              /\ InTransit(c[1])' = InTransit(c[1]) \cup (IF p = Callee(c) THEN {m} ELSE {})
              /\ Ordered(Callee(c), Requests(c), Requests(c))'
              /\ Ordered(Callee(c), Requests(c), Cancels(c))'
              /\ Ordered(c[1], Answers(c), Answers(c))'
  BY <1>3, <1>4, <1>7, <1>9, SentForCall
<1>11. NumbersInv'
  <2> SUFFICES ASSUME NEW c \in Calls
               PROVE  /\ Status(c)' = "idle" <=> c[2] > lastMessageId'[c[1]]
                      /\ Status(c)' = "idle" => exec'[c] = "none"
                      /\ Status(c)' = "pending" <=> c[2] \in pendingRPCReplies'[c[1]]
    BY DEF NumbersInv
  <2>1. exec' = exec BY <1>4
  <2>2. CASE c = c0 BY <1>1, <1>5, <1>6, <2>1, <2>2
  <2>3. CASE c # c0
    <3>1. c[1] \in Protocols /\ c[2] \in Nat /\ c = <<c[1], c[2]>> BY CallSets
    <3>2. c[1] = p => c[2] # id BY <2>3, <3>1 DEF c0
    <3> QED BY <1>1, <1>5, <2>1, <2>3, <3>1, <3>2 DEF CallInv, NumbersInv
  <2> QED BY <2>2, <2>3
<1>12. StageInv'
  <2> SUFFICES ASSUME NEW c \in Calls
               PROVE  /\ \A x \in InTransit(Callee(c))' \cap Requests(c) :
                           Status(c)' = "pending" /\ exec[c] = "none"
                      /\ \A h \in RunningOf(c) : Status(c)' = "pending" /\ exec[c] = "running"
                      /\ \A x \in InTransit(c[1])' \cap Answers(c) : Status(c)' = "pending" /\
                           exec[c] = IF x.type = "reply" THEN "ok" ELSE "err"
    BY <1>4, <1>8 DEF StageInv
  <2>1. CASE c = c0 BY <1>5, <1>6, <1>7, <1>9, <1>10, <2>1
  <2>2. CASE c # c0 BY <1>5, <1>9, <1>10, <2>2 DEF CallInv, StageInv
  <2> QED BY <2>1, <2>2
<1>13. OnceInv' BY <1>8, <1>10 DEF CallInv, OnceInv
<1>14. KeptInv'
  <2> SUFFICES ASSUME NEW c \in Calls, Status(c)' = "pending", alive[c[1][2]]
               PROVE  /\ exec[c] = "none" => InTransit(Callee(c))' \cap Requests(c) # {}
                      /\ exec[c] = "running" => RunningOf(c) # {}
                      /\ exec[c] \in {"ok", "err"} => InTransit(c[1])' \cap Answers(c) # {}
    BY <1>4, <1>8 DEF KeptInv
  <2>1. CASE c = c0
    BY <1>2, <1>6, <1>9, <1>10, <2>1
  <2>2. CASE c # c0 BY <1>5, <1>10, <2>2 DEF CallInv, KeptInv
  <2> QED BY <2>1, <2>2
<1>15. CancelInv'
  <2> SUFFICES ASSUME NEW c \in Calls
               PROVE  /\ InTransit(Callee(c))' \cap Cancels(c) # {} => Cancelled(c)' /\ Status(c)' # "idle"
                      /\ \A h \in RunningOf(c) : <<h.id, c>> \in cancellationTokenSources[Callee(c)]
                      /\ alive[c[1][2]] /\ Cancelled(c)' =>
                           /\ \A x \in InTransit(Callee(c))' \cap Requests(c) :
                                x.kind # "unknown" => InTransit(Callee(c))' \cap Cancels(c) # {}
                           /\ \A h \in RunningOf(c) : h.kind # "unknown" =>
                                c \in signalled \/ InTransit(Callee(c))' \cap Cancels(c) # {}
    BY <1>4, <1>8, <1>10 DEF CancelInv
  <2>1. InTransit(Callee(c))' \cap Cancels(c) = InTransit(Callee(c)) \cap Cancels(c)
    BY <1>9, <1>10
  <2>2. CASE c = c0
    <3>1. k # "unknown" => ~Cancelled(c)' BY <1>5, <1>6, <2>2 DEF Cancelled
    <3> QED BY <1>3, <1>7, <1>10, <2>1, <2>2, <3>1
  <2>3. CASE c # c0
    <3>1. c[1] \in Protocols /\ c = <<c[1], c[2]>> BY CallSets
    <3>2. c[1] = p => c[2] # id BY <2>3, <3>1 DEF c0
    <3>3. Cancelled(c)' <=> Cancelled(c) BY <1>5, <3>1, <3>2 DEF Cancelled
    <3>4. InTransit(Callee(c))' \cap Requests(c) = InTransit(Callee(c)) \cap Requests(c)
      BY <1>9, <1>10, <2>3
    <3> QED BY <1>5, <2>1, <2>3, <3>3, <3>4 DEF CallInv, CancelInv
  <2> QED BY <2>2, <2>3
<1>16. alive[Browser]' BY <1>4 DEF CallInv
<1> QED BY <1>11, <1>12, <1>13, <1>14, <1>15, <1>16 DEF CallInv

LEMMA CancelCallCalls ==
  ASSUME TypeOK, CallInv, NEW p \in Protocols, NEW id \in tokens[p], CancelCall(p, id)
  PROVE  CallInv'
<1> DEFINE c0 == <<p, id>>
           m == Msg(p, "cancel", id, "none", c0)
<1>1. id \in Nat \ {0} /\ id <= lastMessageId[p] /\ lastMessageId[p] <= MaxCalls[p]
      /\ lastMessageId[p] \in Nat /\ MaxCalls[p] \in Nat
  BY RpcAssumption DEF TypeOK
<1>2. c0 \in Calls BY <1>1, CallFacts
<1>3. m \in Message /\ m.type = "cancel" /\ m.call = c0
  BY <1>1, MsgType DEF MessageTypes, Msg
<1>4. /\ Send(p, m) /\ UNCHANGED <<receiver, wire, inbox, alive>>
      /\ UNCHANGED <<lastMessageId, pendingRPCReplies, outcome>>
  BY DEF CancelCall
<1>5. \A q \in Protocols : tokens'[q] = IF q = p THEN tokens[p] \ {id} ELSE tokens[q]
  BY DEF CancelCall, TypeOK
<1> HIDE DEF c0, m
<1>6. Status(c0) # "idle" /\ c0[1] = p /\ c0[2] = id
  <2>1. c0[1] = p /\ c0[2] = id BY DEF c0
  <2>2. ~(id > lastMessageId[p]) BY <1>1
  <2> QED BY <1>2, <2>1, <2>2 DEF CallInv, NumbersInv
<1>7. \A c \in Calls : RunningOf(c)' = RunningOf(c) /\ Status(c)' = Status(c)
  BY <1>4 DEF RunningOf, Status
<1>8. \A c \in Calls : m \notin Requests(c) /\ m \notin Answers(c) /\ (m \in Cancels(c) <=> c = c0)
  BY <1>3 DEF Requests, Answers, Cancels
<1>9. ASSUME NEW c \in Calls
      PROVE  /\ InTransit(Callee(c))' = InTransit(Callee(c)) \cup (IF p = c[1] THEN {m} ELSE {})
             /\ InTransit(Callee(c))' \cap Requests(c) = InTransit(Callee(c)) \cap Requests(c)
             /\ InTransit(c[1])' \cap Answers(c) = InTransit(c[1]) \cap Answers(c)
             /\ Ordered(Callee(c), Requests(c), Requests(c))'
             /\ Ordered(Callee(c), Requests(c), Cancels(c))'
             /\ Ordered(c[1], Answers(c), Answers(c))'
  BY <1>3, <1>4, <1>8, SentForCall
<1>10. NumbersInv' BY <1>4, <1>7 DEF CallInv, NumbersInv
<1>11. StageInv' BY <1>4, <1>7, <1>9 DEF CallInv, StageInv
<1>12. OnceInv' BY <1>7, <1>9 DEF CallInv, OnceInv
<1>13. KeptInv' BY <1>4, <1>7, <1>9 DEF CallInv, KeptInv
<1>14. CancelInv'
  <2> SUFFICES ASSUME NEW c \in Calls
               PROVE  /\ InTransit(Callee(c))' \cap Cancels(c) # {} => Cancelled(c)' /\ Status(c) # "idle"
                      /\ \A h \in RunningOf(c) : <<h.id, c>> \in cancellationTokenSources[Callee(c)]
                      /\ alive[c[1][2]] /\ Cancelled(c)' =>
                           /\ \A x \in InTransit(Callee(c)) \cap Requests(c) :
                                x.kind # "unknown" => InTransit(Callee(c))' \cap Cancels(c) # {}
                           /\ \A h \in RunningOf(c) : h.kind # "unknown" =>
                                c \in signalled \/ InTransit(Callee(c))' \cap Cancels(c) # {}
    BY <1>4, <1>7, <1>9 DEF CancelInv
  <2>1. CASE c = c0
    <3>1. InTransit(Callee(c))' \cap Cancels(c) # {} BY <1>6, <1>8, <1>9, <2>1
    <3>2. Cancelled(c)' BY <1>5, <1>6, <2>1 DEF Cancelled
    <3> QED BY <1>6, <2>1, <3>1, <3>2 DEF CallInv, CancelInv
  <2>2. CASE c # c0
    <3>1. c[1] \in Protocols /\ c = <<c[1], c[2]>> BY CallSets
    <3>2. c[1] = p => c[2] # id BY <2>2, <3>1 DEF c0
    <3>3. Cancelled(c)' <=> Cancelled(c) BY <1>5, <3>1, <3>2 DEF Cancelled
    <3>4. InTransit(Callee(c))' \cap Cancels(c) = InTransit(Callee(c)) \cap Cancels(c)
      BY <1>8, <1>9, <2>2
    <3> QED BY <3>3, <3>4 DEF CallInv, CancelInv
  <2> QED BY <2>1, <2>2
<1>15. alive[Browser]' BY <1>4 DEF CallInv
<1> QED BY <1>10, <1>11, <1>12, <1>13, <1>14, <1>15 DEF CallInv

LEMMA HandlerSettledCalls ==
  ASSUME TypeOK, IdentityInv, CallInv, NEW p \in Protocols, NEW h \in invokedHandlers[p],
         NEW o \in {"ok", "err"}, HandlerSettled(p, h, o)
  PROVE  CallInv'
<1> DEFINE c0 == h.call
           m == Msg(p, ReplyType(o), h.id, "none", c0)
<1>1. h.id \in Nat /\ c0 = <<Other(p), h.id>> /\ c0 \in Protocols \X Nat
  BY DEF TypeOK, Handler, IdentityInv, HandlerInv
<1>2. m \in Message /\ m.type = ReplyType(o) /\ m.call = c0
  BY <1>1, MsgType DEF MessageTypes, Msg, ReplyType
<1>3. Send(p, m) /\ UNCHANGED <<caller, signalled, wire, inbox, alive>> BY DEF HandlerSettled
<1>4. /\ \A q \in Protocols : invokedHandlers'[q] =
           IF q = p THEN invokedHandlers[p] \ {h} ELSE invokedHandlers[q]
      /\ \A q \in Protocols : cancellationTokenSources'[q] =
           IF q = p THEN {s \in cancellationTokenSources[p] : s[1] # h.id}
           ELSE cancellationTokenSources[q]
      /\ \A c \in Calls : exec'[c] = IF c = c0 THEN o ELSE exec[c]
  BY DEF HandlerSettled, TypeOK
<1>5. ReplyType(o) \in {"reply", "replyErr"} /\ (o = IF ReplyType(o) = "reply" THEN "ok" ELSE "err")
  BY DEF ReplyType
<1> HIDE DEF c0, m
<1>6. \A c \in Calls : Status(c)' = Status(c) /\ Cancelled(c)' = Cancelled(c)
  BY <1>3 DEF Status, Cancelled
<1>7. c0[1] = Other(p) /\ Callee(c0) = p BY <1>1, ObjectFacts DEF Callee
<1>8. ASSUME NEW c \in Calls
      PROVE  /\ RunningOf(c)' = IF c = c0 THEN {} ELSE RunningOf(c)
             /\ RunningOf(c0) # {}
  <2>1. h \in RunningOf(c0) BY <1>7 DEF RunningOf, c0
  <2>2. CASE c = c0
    <3>1. \A g \in RunningOf(c) : g = h BY <2>1, <2>2 DEF CallInv, OnceInv
    <3>2. invokedHandlers'[Callee(c)] = invokedHandlers[Callee(c)] \ {h} BY <1>4, <1>7, <2>2
    <3> QED BY <2>1, <2>2, <3>1, <3>2 DEF RunningOf
  <2>3. CASE c # c0
    <3>1. Callee(c) \in Protocols BY CallSets
    <3>2. h \notin RunningOf(c) BY <2>3 DEF RunningOf, c0
    <3> QED BY <1>4, <2>1, <2>3, <3>1, <3>2 DEF RunningOf
  <2> QED BY <2>2, <2>3
<1>9. c0 \in Calls =>
        /\ Status(c0) = "pending" /\ exec[c0] = "running"
        /\ InTransit(Callee(c0)) \cap Requests(c0) = {}
        /\ InTransit(c0[1]) \cap Answers(c0) = {}
  BY <1>8 DEF CallInv, StageInv
<1>10. \A c \in Calls : /\ m \in Answers(c) <=> c = c0
                        /\ m \notin Requests(c) /\ m \notin Cancels(c)
  BY <1>2, <1>5 DEF Requests, Answers, Cancels
<1>11. ASSUME NEW c \in Calls
       PROVE  /\ InTransit(Callee(c))' \cap Requests(c) = InTransit(Callee(c)) \cap Requests(c)
              /\ InTransit(Callee(c))' \cap Cancels(c) = InTransit(Callee(c)) \cap Cancels(c)
              /\ InTransit(c[1])' \cap Answers(c) =
                   (InTransit(c[1]) \cap Answers(c)) \cup (IF c = c0 THEN {m} ELSE {})
              /\ Ordered(Callee(c), Requests(c), Requests(c))'
              /\ Ordered(Callee(c), Requests(c), Cancels(c))'
              /\ Ordered(c[1], Answers(c), Answers(c))'
  <2>1. /\ InTransit(Callee(c))' = InTransit(Callee(c)) \cup (IF p = c[1] THEN {m} ELSE {})
        /\ InTransit(c[1])' = InTransit(c[1]) \cup (IF p = Callee(c) THEN {m} ELSE {})
        /\ Ordered(Callee(c), Requests(c), Requests(c))'
        /\ Ordered(Callee(c), Requests(c), Cancels(c))'
        /\ Ordered(c[1], Answers(c), Answers(c))'
    BY <1>2, <1>3, <1>9, <1>10, SentForCall
  <2> QED BY <1>7, <1>10, <2>1
<1>12. NumbersInv'
  <2> SUFFICES ASSUME NEW c \in Calls
               PROVE  /\ Status(c) = "idle" <=> c[2] > lastMessageId[c[1]]
                      /\ Status(c) = "idle" => exec'[c] = "none"
                      /\ Status(c) = "pending" <=> c[2] \in pendingRPCReplies[c[1]]
    BY <1>3, <1>6 DEF NumbersInv
  <2> QED BY <1>4, <1>9 DEF CallInv, NumbersInv
<1>13. StageInv'
  <2> SUFFICES ASSUME NEW c \in Calls
               PROVE  /\ \A x \in InTransit(Callee(c)) \cap Requests(c) :
                           Status(c) = "pending" /\ exec'[c] = "none"
                      /\ \A g \in RunningOf(c)' : Status(c) = "pending" /\ exec'[c] = "running"
                      /\ \A x \in InTransit(c[1])' \cap Answers(c) : Status(c) = "pending" /\
                           exec'[c] = IF x.type = "reply" THEN "ok" ELSE "err"
    BY <1>6, <1>11 DEF StageInv
  <2>1. CASE c = c0
    BY <1>2, <1>4, <1>5, <1>8, <1>9, <1>11, <2>1
  <2>2. CASE c # c0 BY <1>4, <1>8, <1>11, <2>2 DEF CallInv, StageInv
  <2> QED BY <2>1, <2>2
<1>14. OnceInv' BY <1>8, <1>11 DEF CallInv, OnceInv
<1>15. KeptInv'
  <2> SUFFICES ASSUME NEW c \in Calls, Status(c) = "pending", alive[c[1][2]]
               PROVE  /\ exec'[c] = "none" => InTransit(Callee(c)) \cap Requests(c) # {}
                      /\ exec'[c] = "running" => RunningOf(c)' # {}
                      /\ exec'[c] \in {"ok", "err"} => InTransit(c[1])' \cap Answers(c) # {}
    BY <1>3, <1>6, <1>11 DEF KeptInv
  <2>1. CASE c = c0
    BY <1>4, <1>11, <2>1
  <2>2. CASE c # c0 BY <1>4, <1>8, <1>11, <2>2 DEF CallInv, KeptInv
  <2> QED BY <2>1, <2>2
<1>16. CancelInv'
  <2> SUFFICES ASSUME NEW c \in Calls
               PROVE  /\ InTransit(Callee(c)) \cap Cancels(c) # {} => Cancelled(c) /\ Status(c) # "idle"
                      /\ \A g \in RunningOf(c)' : <<g.id, c>> \in cancellationTokenSources'[Callee(c)]
                      /\ alive[c[1][2]] /\ Cancelled(c) =>
                           /\ \A x \in InTransit(Callee(c)) \cap Requests(c) :
                                x.kind # "unknown" => InTransit(Callee(c)) \cap Cancels(c) # {}
                           /\ \A g \in RunningOf(c)' : g.kind # "unknown" =>
                                c \in signalled \/ InTransit(Callee(c)) \cap Cancels(c) # {}
    BY <1>3, <1>6, <1>11 DEF CancelInv
  <2>1. CASE c = c0
    BY <1>8, <2>1 DEF CallInv, CancelInv
  <2>2. CASE c # c0
    <3>1. \A g \in RunningOf(c) : <<g.id, c>> \in cancellationTokenSources'[Callee(c)]
      <4> SUFFICES ASSUME NEW g \in RunningOf(c)
                   PROVE  <<g.id, c>> \in cancellationTokenSources'[Callee(c)]
        OBVIOUS
      <4>1. <<g.id, c>> \in cancellationTokenSources[Callee(c)] /\ Callee(c) \in Protocols
        BY CallSets DEF CallInv, CancelInv
      <4>2. Callee(c) = p => g.id # h.id
        BY <1>1, <2>2 DEF IdentityInv, HandlerInv, RunningOf
      <4>3. <<g.id, c>>[1] = g.id OBVIOUS
      <4> QED BY <1>4, <4>1, <4>2, <4>3
    <3> QED BY <1>8, <2>2, <3>1 DEF CallInv, CancelInv
  <2> QED BY <2>1, <2>2
<1>17. alive[Browser]' BY <1>3 DEF CallInv
<1> QED BY <1>12, <1>13, <1>14, <1>15, <1>16, <1>17 DEF CallInv

\* What a message that p handles takes away for each call.
LEMMA HandledForCall ==
  ASSUME TypeOK, IdentityInv, CallInv, NEW p \in Protocols, NEW m, NextMessage(p, m),
         NEW c \in Calls
  PROVE  /\ InTransit(Callee(c))' \cap Requests(c) =
              (InTransit(Callee(c)) \cap Requests(c)) \ (IF p = Callee(c) THEN {m} ELSE {})
         /\ InTransit(c[1])' \cap Answers(c) =
              (InTransit(c[1]) \cap Answers(c)) \ (IF p = c[1] THEN {m} ELSE {})
         /\ InTransit(Callee(c))' \cap Cancels(c) \subseteq InTransit(Callee(c)) \cap Cancels(c)
         /\ m \notin Cancels(c) =>
              InTransit(Callee(c))' \cap Cancels(c) = InTransit(Callee(c)) \cap Cancels(c)
         /\ p = Callee(c) /\ m \in Cancels(c) => InTransit(Callee(c))' \cap Requests(c) = {}
         /\ Ordered(Callee(c), Requests(c), Requests(c))'
         /\ Ordered(Callee(c), Requests(c), Cancels(c))'
         /\ Ordered(c[1], Answers(c), Answers(c))'
<1> DEFINE q == Callee(c)
<1>1. q \in Protocols /\ c[1] \in Protocols BY CallSets
<1>2. /\ Ordered(q, Requests(c), Requests(c)) /\ Ordered(c[1], Answers(c), Answers(c))
      /\ Ordered(q, Requests(c), Cancels(c))
  BY DEF CallInv, OnceInv, CancelInv
<1> HIDE DEF q
<1>3. /\ InTransit(q)' \subseteq InTransit(q) /\ InTransit(q) \subseteq InTransit(q)' \cup {m}
      /\ q # p => InTransit(q)' = InTransit(q)
      /\ \A X, Y : Ordered(q, X, Y) =>
              Ordered(q, X, Y)' /\ (q = p /\ m \in Y => InTransit(q)' \cap X = {})
  BY <1>1, NextLane
<1>4. /\ InTransit(c[1])' \subseteq InTransit(c[1]) /\ InTransit(c[1]) \subseteq InTransit(c[1])' \cup {m}
      /\ c[1] # p => InTransit(c[1])' = InTransit(c[1])
      /\ \A X, Y : Ordered(c[1], X, Y) =>
              Ordered(c[1], X, Y)' /\ (c[1] = p /\ m \in Y => InTransit(c[1])' \cap X = {})
  BY <1>1, NextLane
<1>5. /\ Ordered(q, Requests(c), Requests(c))'
      /\ q = p /\ m \in Requests(c) => InTransit(q)' \cap Requests(c) = {}
  BY <1>2, <1>3
<1>6. /\ Ordered(q, Requests(c), Cancels(c))'
      /\ q = p /\ m \in Cancels(c) => InTransit(q)' \cap Requests(c) = {}
  BY <1>2, <1>3
<1>7. /\ Ordered(c[1], Answers(c), Answers(c))'
      /\ c[1] = p /\ m \in Answers(c) => InTransit(c[1])' \cap Answers(c) = {}
  BY <1>2, <1>4
<1>8. InTransit(q)' \cap Requests(c) = (InTransit(q) \cap Requests(c)) \ (IF p = q THEN {m} ELSE {})
  BY <1>3, <1>5
<1>9. InTransit(c[1])' \cap Answers(c) = (InTransit(c[1]) \cap Answers(c)) \ (IF p = c[1] THEN {m} ELSE {})
  BY <1>4, <1>7
<1>10. m \notin Cancels(c) => InTransit(q)' \cap Cancels(c) = InTransit(q) \cap Cancels(c)
  BY <1>3
<1> QED BY <1>3, <1>5, <1>6, <1>7, <1>8, <1>9, <1>10 DEF q

\* A message that is handled is meant for its object and belongs to a call of the
\* object or of its peer.
LEMMA HandledMeant ==
  ASSUME TypeOK, IdentityInv, NEW p \in Protocols, NEW m, NextMessage(p, m), Accepts(p, m)
  PROVE  /\ m \in Message /\ m \in InTransit(p)
         /\ m.type = "request" => m.call = <<Other(p), m.id>> /\ m \in Requests(m.call)
         /\ m.type = "cancel" => m.call = <<Other(p), m.id>> /\ m \in Cancels(m.call)
         /\ m.type \in {"reply", "replyErr"} => m.call = <<p, m.id>> /\ m \in Answers(m.call)
<1>1. m \in Traffic(Other(p)) BY HandledCall, AcceptedFromPeer
<1>2. m.type # "setHostID" BY DEF Accepts
<1>3. m # SetHostID(Other(p)) BY <1>2 DEF SetHostID
<1>4. m \in InTransit(p) BY NextLane
<1>5. m \in Message BY <1>1 DEF Traffic
<1>6. Other(Other(p)) = p BY ObjectFacts
<1> QED BY <1>1, <1>3, <1>4, <1>5, <1>6 DEF Traffic, Requests, Cancels, Answers

\* A message that is not for this object only disappears.
LEMMA PassedOverCalls ==
  ASSUME TypeOK, IdentityInv, CallInv, NEW p \in Protocols, NEW m, NextMessage(p, m),
         ReceiveSetHostID(p, m) \/ SkipMessage(p, m)
  PROVE  CallInv'
<1>1. m \notin MeantFor(p)
  <2>1. m \in MeantFor(p) => m.type # "setHostID" BY DEF MeantFor
  <2>2. m \in MeantFor(p) => Accepts(p, m) BY NextLane
  <2> QED BY <2>1, <2>2 DEF ReceiveSetHostID, SkipMessage
<1>2. ASSUME NEW q \in Protocols PROVE Carries(q)
  <2>1. /\ InTransit(q)' \subseteq InTransit(q) /\ InTransit(q) \subseteq InTransit(q)' \cup {m}
        /\ q # p => InTransit(q)' = InTransit(q)
        /\ \A X, Y : Ordered(q, X, Y) => Ordered(q, X, Y)'
    BY NextLane
  <2> QED BY <1>1, <2>1 DEF Carries
<1>3. UNCHANGED <<caller, receiver, alive>>
  BY DEF NextMessage, ReceiveSetHostID, SkipMessage
<1> QED BY <1>2, <1>3, CarryKeepsCalls DEF CallInv

LEMMA ReceiveRequestCalls ==
  ASSUME TypeOK, IdentityInv, CallInv, NEW p \in Protocols, NEW m, NextMessage(p, m),
         ReceiveRequest(p, m)
  PROVE  CallInv'
<1> DEFINE c0 == m.call
           n == [id |-> m.id, kind |-> m.kind, call |-> c0]
<1>1. /\ m \in Message /\ m \in InTransit(p) /\ c0 = <<Other(p), m.id>> /\ m \in Requests(c0)
      /\ m.type = "request"
  BY HandledMeant DEF ReceiveRequest
<1>2. UNCHANGED <<caller, signalled, alive>> BY DEF NextMessage, ReceiveRequest
<1>3. /\ \A q \in Protocols : invokedHandlers'[q] =
           IF q = p THEN invokedHandlers[p] \cup {n} ELSE invokedHandlers[q]
      /\ \A q \in Protocols : cancellationTokenSources'[q] =
           IF q = p THEN {s \in cancellationTokenSources[p] : s[1] # m.id} \cup {<<m.id, c0>>}
           ELSE cancellationTokenSources[q]
      /\ \A c \in Calls : exec'[c] = IF c = c0 THEN "running" ELSE exec[c]
  BY DEF ReceiveRequest, TypeOK
<1>4. n.call = c0 /\ n.id = m.id /\ n.kind = m.kind OBVIOUS
<1> HIDE DEF c0, n
<1>5. c0[1] = Other(p) /\ c0[2] = m.id /\ Callee(c0) = p BY <1>1, ObjectFacts DEF Callee
<1>6. \A c \in Calls : Status(c)' = Status(c) /\ Cancelled(c)' = Cancelled(c)
  BY <1>2 DEF Status, Cancelled
<1>7. c0 \in Calls => /\ Status(c0) = "pending" /\ exec[c0] = "none" /\ RunningOf(c0) = {}
                      /\ InTransit(c0[1]) \cap Answers(c0) = {}
  BY <1>1, <1>5 DEF CallInv, StageInv
<1>8. ASSUME NEW c \in Calls
      PROVE  RunningOf(c)' = IF c = c0 THEN {n} ELSE RunningOf(c)
  <2>1. CASE c = c0
    <3>1. invokedHandlers'[Callee(c)] = invokedHandlers[Callee(c)] \cup {n} BY <1>3, <1>5, <2>1
    <3>2. RunningOf(c)' = RunningOf(c) \cup {n} BY <1>4, <2>1, <3>1 DEF RunningOf
    <3> QED BY <1>7, <2>1, <3>2
  <2>2. CASE c # c0
    <3>1. Callee(c) \in Protocols BY CallSets
    <3> QED BY <1>3, <1>4, <2>2, <3>1 DEF RunningOf
  <2> QED BY <2>1, <2>2
<1>9. \A c \in Calls : /\ m \in Requests(c) <=> c = c0
                       /\ m \notin Answers(c) /\ m \notin Cancels(c)
  BY <1>1 DEF Requests, Answers, Cancels
<1>10. ASSUME NEW c \in Calls
       PROVE  /\ InTransit(Callee(c))' \cap Requests(c) =
                   (InTransit(Callee(c)) \cap Requests(c)) \ {m}
              /\ InTransit(Callee(c))' \cap Cancels(c) = InTransit(Callee(c)) \cap Cancels(c)
              /\ InTransit(c[1])' \cap Answers(c) = InTransit(c[1]) \cap Answers(c)
              /\ Ordered(Callee(c), Requests(c), Requests(c))'
              /\ Ordered(Callee(c), Requests(c), Cancels(c))'
              /\ Ordered(c[1], Answers(c), Answers(c))'
  BY <1>5, <1>9, HandledForCall
<1>11. c0 \in Calls => InTransit(Callee(c0))' \cap Requests(c0) = {}
  <2> SUFFICES ASSUME c0 \in Calls PROVE InTransit(p)' \cap Requests(c0) = {} BY <1>5
  <2>1. Ordered(p, Requests(c0), Requests(c0)) BY <1>5 DEF CallInv, OnceInv
  <2> QED BY <1>1, <2>1, NextLane
<1>12. NumbersInv'
  <2> SUFFICES ASSUME NEW c \in Calls
               PROVE  /\ Status(c) = "idle" <=> c[2] > lastMessageId[c[1]]
                      /\ Status(c) = "idle" => exec'[c] = "none"
                      /\ Status(c) = "pending" <=> c[2] \in pendingRPCReplies[c[1]]
    BY <1>2, <1>6 DEF NumbersInv
  <2> QED BY <1>3, <1>7 DEF CallInv, NumbersInv
<1>13. StageInv'
  <2> SUFFICES ASSUME NEW c \in Calls
               PROVE  /\ \A x \in InTransit(Callee(c))' \cap Requests(c) :
                           Status(c) = "pending" /\ exec'[c] = "none"
                      /\ \A g \in RunningOf(c)' : Status(c) = "pending" /\ exec'[c] = "running"
                      /\ \A x \in InTransit(c[1]) \cap Answers(c) : Status(c) = "pending" /\
                           exec'[c] = IF x.type = "reply" THEN "ok" ELSE "err"
    BY <1>6, <1>10 DEF StageInv
  <2>1. CASE c = c0 BY <1>3, <1>7, <1>11, <2>1
  <2>2. CASE c # c0 BY <1>3, <1>8, <1>10, <2>2 DEF CallInv, StageInv
  <2> QED BY <2>1, <2>2
<1>14. OnceInv' BY <1>8, <1>10 DEF CallInv, OnceInv
<1>15. KeptInv'
  <2> SUFFICES ASSUME NEW c \in Calls, Status(c) = "pending", alive[c[1][2]]
               PROVE  /\ exec'[c] = "none" => InTransit(Callee(c))' \cap Requests(c) # {}
                      /\ exec'[c] = "running" => RunningOf(c)' # {}
                      /\ exec'[c] \in {"ok", "err"} => InTransit(c[1]) \cap Answers(c) # {}
    BY <1>2, <1>6, <1>10 DEF KeptInv
  <2>1. CASE c = c0 BY <1>3, <1>8, <2>1
  <2>2. CASE c # c0 BY <1>3, <1>8, <1>9, <1>10, <2>2 DEF CallInv, KeptInv
  <2> QED BY <2>1, <2>2
<1>16. CancelInv'
  <2> SUFFICES ASSUME NEW c \in Calls
               PROVE  /\ InTransit(Callee(c)) \cap Cancels(c) # {} => Cancelled(c) /\ Status(c) # "idle"
                      /\ \A g \in RunningOf(c)' : <<g.id, c>> \in cancellationTokenSources'[Callee(c)]
                      /\ alive[c[1][2]] /\ Cancelled(c) =>
                           /\ \A x \in InTransit(Callee(c))' \cap Requests(c) :
                                x.kind # "unknown" => InTransit(Callee(c)) \cap Cancels(c) # {}
                           /\ \A g \in RunningOf(c)' : g.kind # "unknown" =>
                                c \in signalled \/ InTransit(Callee(c)) \cap Cancels(c) # {}
    BY <1>2, <1>6, <1>10 DEF CancelInv
  <2>1. CASE c = c0
    <3>1. <<n.id, c>> \in cancellationTokenSources'[Callee(c)] BY <1>3, <1>4, <1>5, <2>1
    <3>2. m \in InTransit(Callee(c)) \cap Requests(c) BY <1>1, <1>5, <2>1
    <3> QED BY <1>4, <1>8, <1>11, <2>1, <3>1, <3>2 DEF CallInv, CancelInv
  <2>2. CASE c # c0
    <3>1. \A g \in RunningOf(c) : <<g.id, c>> \in cancellationTokenSources'[Callee(c)]
      <4> SUFFICES ASSUME NEW g \in RunningOf(c)
                   PROVE  <<g.id, c>> \in cancellationTokenSources'[Callee(c)]
        OBVIOUS
      <4>1. <<g.id, c>> \in cancellationTokenSources[Callee(c)] /\ Callee(c) \in Protocols
        BY CallSets DEF CallInv, CancelInv
      <4>2. Callee(c) = p => g.id # m.id
        BY <1>1, <2>2 DEF IdentityInv, HandlerInv, RunningOf
      <4>3. <<g.id, c>>[1] = g.id OBVIOUS
      <4> QED BY <1>3, <4>1, <4>2, <4>3
    <3> QED BY <1>8, <1>10, <2>2, <3>1 DEF CallInv, CancelInv
  <2> QED BY <2>1, <2>2
<1>17. alive[Browser]' BY <1>2 DEF CallInv
<1> QED BY <1>12, <1>13, <1>14, <1>15, <1>16, <1>17 DEF CallInv

LEMMA ReceiveCancelCalls ==
  ASSUME TypeOK, IdentityInv, CallInv, NEW p \in Protocols, NEW m, NextMessage(p, m),
         ReceiveCancel(p, m)
  PROVE  CallInv'
<1> DEFINE c0 == m.call
<1>1. /\ m \in Message /\ m \in InTransit(p) /\ c0 = <<Other(p), m.id>> /\ m \in Cancels(c0)
      /\ m.type = "cancel"
  BY HandledMeant DEF ReceiveCancel
<1>2. /\ UNCHANGED <<caller, invokedHandlers, cancellationTokenSources, exec, alive>>
      /\ signalled' = signalled \cup {s[2] : s \in SourcesOf(p, m.id)}
  BY DEF NextMessage, ReceiveCancel
<1> HIDE DEF c0
<1>3. c0[1] = Other(p) /\ c0[2] = m.id /\ Callee(c0) = p BY <1>1, ObjectFacts DEF Callee
<1>4. \A c \in Calls : /\ Status(c)' = Status(c) /\ Cancelled(c)' = Cancelled(c)
                       /\ RunningOf(c)' = RunningOf(c)
  BY <1>2 DEF Status, Cancelled, RunningOf
<1>5. \A c \in Calls : /\ m \in Cancels(c) <=> c = c0
                       /\ m \notin Answers(c) /\ m \notin Requests(c)
  BY <1>1 DEF Requests, Answers, Cancels
<1>6. ASSUME NEW c \in Calls
      PROVE  /\ InTransit(Callee(c))' \cap Requests(c) = InTransit(Callee(c)) \cap Requests(c)
             /\ InTransit(Callee(c))' \cap Cancels(c) \subseteq InTransit(Callee(c)) \cap Cancels(c)
             /\ c # c0 => InTransit(Callee(c))' \cap Cancels(c) = InTransit(Callee(c)) \cap Cancels(c)
             /\ c = c0 => InTransit(Callee(c))' \cap Requests(c) = {}
             /\ InTransit(c[1])' \cap Answers(c) = InTransit(c[1]) \cap Answers(c)
             /\ Ordered(Callee(c), Requests(c), Requests(c))'
             /\ Ordered(Callee(c), Requests(c), Cancels(c))'
             /\ Ordered(c[1], Answers(c), Answers(c))'
  BY <1>3, <1>5, HandledForCall
<1>7. NumbersInv' BY <1>2, <1>4 DEF CallInv, NumbersInv
<1>8. StageInv' BY <1>2, <1>4, <1>6 DEF CallInv, StageInv
<1>9. OnceInv' BY <1>4, <1>6 DEF CallInv, OnceInv
<1>10. KeptInv' BY <1>2, <1>4, <1>6 DEF CallInv, KeptInv
<1>11. CancelInv'
  <2> SUFFICES ASSUME NEW c \in Calls
               PROVE  /\ InTransit(Callee(c))' \cap Cancels(c) # {} => Cancelled(c) /\ Status(c) # "idle"
                      /\ \A h \in RunningOf(c) : <<h.id, c>> \in cancellationTokenSources[Callee(c)]
                      /\ alive[c[1][2]] /\ Cancelled(c) =>
                           /\ \A x \in InTransit(Callee(c))' \cap Requests(c) :
                                x.kind # "unknown" => InTransit(Callee(c))' \cap Cancels(c) # {}
                           /\ \A h \in RunningOf(c) : h.kind # "unknown" =>
                                c \in signalled' \/ InTransit(Callee(c))' \cap Cancels(c) # {}
    BY <1>2, <1>4, <1>6 DEF CancelInv
  <2>1. CASE c = c0
    <3>1. ASSUME NEW h \in RunningOf(c) PROVE c \in signalled'
      <4>1. <<h.id, c>> \in cancellationTokenSources[p]
        BY <1>3, <2>1 DEF CallInv, CancelInv
      <4>2. h.id = m.id
        <5>1. h \in invokedHandlers[p] /\ h.call = c0 BY <1>3, <2>1 DEF RunningOf
        <5>2. h.call = <<Other(p), h.id>> BY <5>1 DEF IdentityInv, HandlerInv
        <5> QED BY <1>1, <5>1, <5>2
      <4>3. <<h.id, c>>[1] = h.id /\ <<h.id, c>>[2] = c OBVIOUS
      <4>4. <<h.id, c>> \in SourcesOf(p, m.id) BY <4>1, <4>2, <4>3 DEF SourcesOf
      <4> QED BY <1>2, <4>3, <4>4
    <3> QED BY <1>6, <2>1, <3>1 DEF CallInv, CancelInv
  <2>2. CASE c # c0 BY <1>2, <1>6, <2>2 DEF CallInv, CancelInv
  <2> QED BY <2>1, <2>2
<1>12. alive[Browser]' BY <1>2 DEF CallInv
<1> QED BY <1>7, <1>8, <1>9, <1>10, <1>11, <1>12 DEF CallInv

\* The answer that comes up is the only one, and its promise waits for it.
LEMMA AnswerHandled ==
  ASSUME TypeOK, IdentityInv, CallInv, NEW p \in Protocols, NEW m, NextMessage(p, m),
         ReceiveReply(p, m)
  PROVE  /\ m.call = <<p, m.id>> /\ m \in InTransit(p) /\ m \in Answers(m.call)
         /\ m.call \in Calls <=> m.id \in pendingRPCReplies[p]
         /\ m.call \in Calls =>
              /\ Status(m.call) = "pending"
              /\ exec[m.call] = IF m.type = "reply" THEN "ok" ELSE "err"
              /\ outcome' = [outcome EXCEPT ![m.call] = [status |-> SettledStatus(m), from |-> m.call]]
              /\ pendingRPCReplies' = [pendingRPCReplies EXCEPT ![p] = @ \ {m.id}]
         /\ m.call \notin Calls => UNCHANGED <<outcome, pendingRPCReplies>>
<1> DEFINE c0 == m.call
<1>1. m \in InTransit(p) /\ c0 = <<p, m.id>> /\ m \in Answers(c0)
  BY HandledMeant DEF ReceiveReply
<1>2. ASSUME c0 \in Calls
      PROVE  /\ Status(c0) = "pending" /\ m.id \in pendingRPCReplies[p]
             /\ exec[c0] = IF m.type = "reply" THEN "ok" ELSE "err"
  <2>1. c0[1] = p /\ c0[2] = m.id BY <1>1
  <2> QED BY <1>1, <1>2, <2>1 DEF CallInv, StageInv, NumbersInv
<1>3. ASSUME m.id \in pendingRPCReplies[p] PROVE c0 \in Calls
  <2>1. m.id \in 1 .. lastMessageId[p] /\ lastMessageId[p] <= MaxCalls[p] /\ lastMessageId[p] \in Nat
    BY <1>3 DEF TypeOK
  <2>2. MaxCalls[p] \in Nat BY RpcAssumption
  <2>3. m.id \in 1 .. MaxCalls[p] BY <2>1, <2>2
  <2> QED BY <1>1, <2>3, CallFacts
<1>4. /\ m.id \in pendingRPCReplies[p] =>
           /\ outcome' = [outcome EXCEPT ![<<p, m.id>>] = [status |-> SettledStatus(m), from |-> c0]]
           /\ pendingRPCReplies' = [pendingRPCReplies EXCEPT ![p] = @ \ {m.id}]
      /\ m.id \notin pendingRPCReplies[p] => UNCHANGED <<outcome, pendingRPCReplies>>
  BY DEF ReceiveReply
<1> QED BY <1>1, <1>2, <1>3, <1>4

LEMMA ReceiveReplyCalls ==
  ASSUME TypeOK, IdentityInv, CallInv, NEW p \in Protocols, NEW m, NextMessage(p, m),
         ReceiveReply(p, m)
  PROVE  CallInv'
<1> DEFINE c0 == m.call
<1>1. /\ c0 = <<p, m.id>> /\ m \in InTransit(p) /\ m \in Answers(c0)
      /\ c0 \in Calls =>
           /\ Status(c0) = "pending" /\ exec[c0] \in {"ok", "err"}
           /\ outcome' = [outcome EXCEPT ![c0] = [status |-> SettledStatus(m), from |-> c0]]
           /\ pendingRPCReplies' = [pendingRPCReplies EXCEPT ![p] = @ \ {m.id}]
      /\ c0 \notin Calls => UNCHANGED <<outcome, pendingRPCReplies>>
  BY AnswerHandled
<1>2. UNCHANGED <<lastMessageId, tokens, receiver, alive>> BY DEF NextMessage, ReceiveReply
<1> HIDE DEF c0
<1>3. c0[1] = p /\ c0[2] = m.id BY <1>1
<1>4. \A c \in Calls : Status(c)' = IF c = c0 THEN SettledStatus(m) ELSE Status(c)
  <2>1. CASE c0 \in Calls
    <3>1. \A c \in Calls : outcome'[c] =
            IF c = c0 THEN [status |-> SettledStatus(m), from |-> c0] ELSE outcome[c]
      BY <1>1, <2>1 DEF TypeOK
    <3>2. \A s, f : [status |-> s, from |-> f].status = s OBVIOUS
    <3> QED BY <3>1, <3>2 DEF Status
  <2>2. CASE c0 \notin Calls BY <1>1, <2>2 DEF Status
  <2> QED BY <2>1, <2>2
<1>5. SettledStatus(m) \in {"resolved", "rejected"} BY DEF SettledStatus
<1>6. \A c \in Calls : Cancelled(c)' = Cancelled(c) /\ RunningOf(c)' = RunningOf(c)
  BY <1>2 DEF Cancelled, RunningOf
<1>7. \A c \in Calls : /\ m \in Answers(c) <=> c = c0
                       /\ m \notin Requests(c) /\ m \notin Cancels(c)
  BY <1>1 DEF Requests, Answers, Cancels
<1>8. ASSUME NEW c \in Calls
      PROVE  /\ InTransit(Callee(c))' \cap Requests(c) = InTransit(Callee(c)) \cap Requests(c)
             /\ InTransit(Callee(c))' \cap Cancels(c) = InTransit(Callee(c)) \cap Cancels(c)
             /\ c # c0 => InTransit(c[1])' \cap Answers(c) = InTransit(c[1]) \cap Answers(c)
             /\ c = c0 => InTransit(c[1])' \cap Answers(c) = {}
             /\ Ordered(Callee(c), Requests(c), Requests(c))'
             /\ Ordered(Callee(c), Requests(c), Cancels(c))'
             /\ Ordered(c[1], Answers(c), Answers(c))'
  <2>1. c = c0 => InTransit(c[1])' \cap Answers(c) = {}
    <3> SUFFICES ASSUME c = c0 PROVE InTransit(p)' \cap Answers(c0) = {} BY <1>3
    <3>1. Ordered(p, Answers(c0), Answers(c0)) BY <1>3 DEF CallInv, OnceInv
    <3> QED BY <1>1, <3>1, NextLane
  <2> QED BY <1>7, <2>1, HandledForCall
<1>9. c0 \in Calls => RunningOf(c0) = {} /\ InTransit(Callee(c0)) \cap Requests(c0) = {}
  BY <1>1 DEF CallInv, StageInv
<1>10. NumbersInv'
  <2> SUFFICES ASSUME NEW c \in Calls
               PROVE  /\ Status(c)' = "idle" <=> c[2] > lastMessageId[c[1]]
                      /\ Status(c)' = "idle" => exec[c] = "none"
                      /\ Status(c)' = "pending" <=> c[2] \in pendingRPCReplies'[c[1]]
    BY <1>2 DEF NumbersInv
  <2>1. c[1] \in Protocols /\ c = <<c[1], c[2]>> BY CallSets
  <2>2. CASE c = c0
    <3>1. pendingRPCReplies'[p] = pendingRPCReplies[p] \ {m.id} BY <1>1, <2>2 DEF TypeOK
    <3> QED BY <1>1, <1>3, <1>4, <1>5, <2>2, <3>1 DEF CallInv, NumbersInv
  <2>3. CASE c # c0
    <3>1. c[1] = p => c[2] # m.id BY <1>1, <2>1, <2>3
    <3>2. c[2] \in pendingRPCReplies'[c[1]] <=> c[2] \in pendingRPCReplies[c[1]]
      BY <1>1, <2>1, <3>1 DEF TypeOK
    <3> QED BY <1>4, <2>3, <3>2 DEF CallInv, NumbersInv
  <2> QED BY <2>2, <2>3
<1>11. StageInv'
  <2> SUFFICES ASSUME NEW c \in Calls
               PROVE  /\ \A x \in InTransit(Callee(c)) \cap Requests(c) :
                           Status(c)' = "pending" /\ exec[c] = "none"
                      /\ \A h \in RunningOf(c) : Status(c)' = "pending" /\ exec[c] = "running"
                      /\ \A x \in InTransit(c[1])' \cap Answers(c) : Status(c)' = "pending" /\
                           exec[c] = IF x.type = "reply" THEN "ok" ELSE "err"
    BY <1>2, <1>6, <1>8 DEF StageInv
  <2>1. CASE c = c0 BY <1>8, <1>9, <2>1
  <2>2. CASE c # c0 BY <1>4, <1>8, <2>2 DEF CallInv, StageInv
  <2> QED BY <2>1, <2>2
<1>12. OnceInv' BY <1>6, <1>8 DEF CallInv, OnceInv
<1>13. KeptInv'
  <2> SUFFICES ASSUME NEW c \in Calls, Status(c)' = "pending", alive[c[1][2]]
               PROVE  /\ exec[c] = "none" => InTransit(Callee(c)) \cap Requests(c) # {}
                      /\ exec[c] = "running" => RunningOf(c) # {}
                      /\ exec[c] \in {"ok", "err"} => InTransit(c[1])' \cap Answers(c) # {}
    BY <1>2, <1>6, <1>8 DEF KeptInv
  <2>1. c # c0 BY <1>4, <1>5
  <2> QED BY <1>4, <1>8, <2>1 DEF CallInv, KeptInv
<1>14. CancelInv'
  <2> SUFFICES ASSUME NEW c \in Calls
               PROVE  /\ InTransit(Callee(c)) \cap Cancels(c) # {} => Cancelled(c) /\ Status(c)' # "idle"
                      /\ \A h \in RunningOf(c) : <<h.id, c>> \in cancellationTokenSources[Callee(c)]
                      /\ alive[c[1][2]] /\ Cancelled(c) =>
                           /\ \A x \in InTransit(Callee(c)) \cap Requests(c) :
                                x.kind # "unknown" => InTransit(Callee(c)) \cap Cancels(c) # {}
                           /\ \A h \in RunningOf(c) : h.kind # "unknown" =>
                                c \in signalled \/ InTransit(Callee(c)) \cap Cancels(c) # {}
    BY <1>2, <1>6, <1>8 DEF CancelInv
  <2>1. Status(c)' # "idle" \/ Status(c)' = Status(c) BY <1>4, <1>5
  <2> QED BY <2>1 DEF CallInv, CancelInv
<1>15. alive[Browser]' BY <1>2 DEF CallInv
<1> QED BY <1>10, <1>11, <1>12, <1>13, <1>14, <1>15 DEF CallInv

LEMMA CallStep ==
  ASSUME TypeOK, IdentityInv, CallInv, [Next]_vars
  PROVE  CallInv'
<1>1. ASSUME NEW p \in Protocols, NEW k \in Kinds, RemoteCall(p, k) PROVE CallInv'
  BY <1>1, RemoteCallCalls
<1>2. ASSUME NEW p \in Protocols, NEW id \in tokens[p], CancelCall(p, id) PROVE CallInv'
  BY <1>2, CancelCallCalls
<1>3. ASSUME NEW p \in Protocols, SendAccumulated(p) PROVE CallInv'
  <2>1. \A q \in Protocols : Carries(q) BY <1>3, FlushCarries DEF CallInv, IdentityInv
  <2> QED BY <1>3, <2>1, CarryKeepsCalls DEF SendAccumulated, CallInv
<1>4. ASSUME NEW p \in Protocols, ReceiveOneMessage(p) PROVE CallInv'
  <2>1. PICK m : /\ NextMessage(p, m)
                 /\ \/ ReceiveSetHostID(p, m) \/ SkipMessage(p, m) \/ ReceiveRequest(p, m)
                    \/ ReceiveCancel(p, m) \/ ReceiveReply(p, m)
    BY <1>4 DEF ReceiveOneMessage
  <2> QED BY <2>1, PassedOverCalls, ReceiveRequestCalls, ReceiveCancelCalls, ReceiveReplyCalls
<1>5. ASSUME NEW p \in Protocols, NEW h \in invokedHandlers[p], NEW o \in {"ok", "err"},
             HandlerSettled(p, h, o)
      PROVE  CallInv'
  BY <1>5, HandlerSettledCalls
<1>6. ASSUME NEW e \in Processes, ReceiveBatch(e) PROVE CallInv'
  <2>1. \A q \in Protocols : Carries(q) BY <1>6, BatchCarries
  <2> QED BY <1>6, <2>1, CarryKeepsCalls DEF ReceiveBatch, CallInv
<1>7. ASSUME NEW h \in Mortal, HostExits(h) PROVE CallInv'
  <2>1. \A q \in Protocols : Carries(q) BY <1>7, ExitCarries
  <2>2. \A e \in Processes : alive'[e] = IF e = h THEN FALSE ELSE alive[e]
    BY <1>7 DEF HostExits, TypeOK
  <2>3. alive[Browser]' /\ \A g \in Hosts : alive[g]' => alive[g]
    BY <2>2, RpcAssumption DEF CallInv, Processes
  <2> QED BY <1>7, <2>1, <2>3, CarryKeepsCalls DEF HostExits
<1>8. CASE UNCHANGED vars
  <2>1. \A q \in Protocols : Carries(q) BY <1>8 DEF Carries, InTransit, Ordered
  <2> QED BY <1>8, <2>1, CarryKeepsCalls DEF CallInv
<1> QED BY <1>1, <1>2, <1>3, <1>4, <1>5, <1>6, <1>7, <1>8 DEF Next

\* The invariants of this module hold together.
LEMMA Invariants == Spec => [](TypeOK /\ IdentityInv /\ CallInv)
<1>1. Init => TypeOK /\ IdentityInv /\ CallInv BY InitType, InitIdentity, InitCalls
<1>2. TypeOK /\ IdentityInv /\ CallInv /\ [Next]_vars => CallInv' BY CallStep
<1> QED BY <1>1, <1>2, TypeCorrect, IdentityCorrect, PTL DEF Spec

\* Nothing is lost while the host lives: a pending call is in one of the places a
\* call can be in, and in one only.
THEOREM NothingLost == Spec => []PendingIsSomewhere
<1>1. TypeOK /\ IdentityInv /\ CallInv => PendingIsSomewhere
  <2> SUFFICES ASSUME TypeOK, IdentityInv, CallInv, NEW c \in Calls,
                      outcome[c].status = "pending", alive[c[1][2]]
               PROVE  LET p == c[1]
                          requested == \E m \in InTransit(Other(p)) : m.type = "request" /\ m.call = c
                          running == \E h \in invokedHandlers[Other(p)] : h.call = c
                          answered == \E m \in InTransit(p) :
                                        m.type \in {"reply", "replyErr"} /\ m.call = c
                      IN  /\ requested \/ running \/ answered
                          /\ ~(requested /\ running) /\ ~(requested /\ answered)
                          /\ ~(running /\ answered)
    BY DEF PendingIsSomewhere
  <2> DEFINE requested == \E m \in InTransit(Other(c[1])) : m.type = "request" /\ m.call = c
             running == \E h \in invokedHandlers[Other(c[1])] : h.call = c
             answered == \E m \in InTransit(c[1]) : m.type \in {"reply", "replyErr"} /\ m.call = c
  <2>1. \A q \in Protocols : InTransit(q) \subseteq Message BY InTransitTyped
  <2>2. requested <=> InTransit(Callee(c)) \cap Requests(c) # {}
    BY <2>1, CallSets DEF Requests, Callee
  <2>3. answered <=> InTransit(c[1]) \cap Answers(c) # {}
    BY <2>1, CallSets DEF Answers
  <2>4. running <=> RunningOf(c) # {} BY DEF RunningOf, Callee
  <2>5. exec[c] \in {"none", "running", "ok", "err"} BY DEF TypeOK
  <2>6. /\ exec[c] = "none" => requested
        /\ exec[c] = "running" => running
        /\ exec[c] \in {"ok", "err"} => answered
    BY <2>2, <2>3, <2>4 DEF CallInv, KeptInv, Status
  <2>7. /\ requested => exec[c] = "none"
        /\ running => exec[c] = "running"
        /\ answered => exec[c] \in {"ok", "err"}
    BY <2>2, <2>3, <2>4 DEF CallInv, StageInv
  <2> HIDE DEF requested, running, answered
  <2>8. /\ requested \/ running \/ answered
        /\ ~(requested /\ running) /\ ~(requested /\ answered) /\ ~(running /\ answered)
    BY <2>5, <2>6, <2>7
  <2> QED BY <2>8 DEF requested, running, answered
<1> QED BY <1>1, Invariants, PTL

\* A cancel never overtakes its request: once it has been handled, the handler
\* that still runs has seen its token cancelled.
THEOREM CancelsArrive == Spec => []CancelReachesHandler
<1>1. TypeOK /\ IdentityInv /\ CallInv => CancelReachesHandler
  <2> SUFFICES ASSUME TypeOK, CallInv, NEW c \in Calls, NEW h \in invokedHandlers[Other(c[1])],
                      alive[c[1][2]], h.call = c, h.kind # "unknown", c[2] \notin tokens[c[1]],
                      ~ \E m \in InTransit(Other(c[1])) : m.type = "cancel" /\ m.call = c
               PROVE  c \in signalled
    BY DEF CancelReachesHandler
  <2>1. h \in RunningOf(c) BY DEF RunningOf, Callee
  <2>2. InTransit(Callee(c)) \cap Cancels(c) = {} BY DEF Callee, Cancels
  <2>3. Cancelled(c) BY DEF Cancelled
  <2> QED BY <2>1, <2>2, <2>3 DEF CallInv, CancelInv
<1> QED BY <1>1, Invariants, PTL

-----------------------------------------------------------------------------
(* The protocol implements remote calls as a caller knows them: a step of  *)
(* the protocol is a step of RemoteCall, or changes neither what a promise *)
(* shows nor how a handler stands.                                         *)

LEMMA SameCalls == UNCHANGED <<outcome, exec>> => UNCHANGED RC!vars
BY DEF RC!vars

LEMMA InvokeImplemented ==
  ASSUME TypeOK, CallInv, NEW p \in Protocols, NEW k \in Kinds, RemoteCall(p, k)
  PROVE  RC!Next
<1> PICK id : id = NextCallId(p) OBVIOUS
<1> DEFINE c0 == <<p, id>>
<1>1. lastMessageId[p] \in Nat /\ id = lastMessageId[p] + 1 /\ id \in 1 .. MaxCalls[p]
  <2>1. lastMessageId[p] \in Nat BY DEF TypeOK
  <2>2. MaxCalls[p] \in Nat BY RpcAssumption
  <2>3. lastMessageId[p] < MaxCalls[p] BY DEF RemoteCall
  <2> QED BY <2>1, <2>2, <2>3 DEF NextCallId
<1>2. c0 \in Calls /\ c0[1] = p /\ c0[2] = id BY <1>1, CallFacts
<1>3. id > lastMessageId[p] BY <1>1
<1>4. outcome[c0].status = "idle" BY <1>2, <1>3 DEF CallInv, NumbersInv, Status
<1>5. outcome' = [outcome EXCEPT ![c0].status = "pending"] BY DEF RemoteCall
<1> HIDE DEF c0
<1>6. \A c \in Calls : outcome'[c].status = IF c = c0 THEN "pending" ELSE outcome[c].status
  BY <1>2, <1>5 DEF TypeOK
<1>7. [c \in Calls |-> outcome[c].status]' =
        [[c \in Calls |-> outcome[c].status] EXCEPT ![c0] = "pending"]
  BY <1>6
<1>8. exec' = exec BY DEF RemoteCall
<1>9. RC!Invoke(c0) BY <1>2, <1>4, <1>7, <1>8 DEF RC!Invoke
<1> QED BY <1>2, <1>9 DEF RC!Next

LEMMA StartImplemented ==
  ASSUME TypeOK, IdentityInv, CallInv, NEW p \in Protocols, NEW m, NextMessage(p, m),
         ReceiveRequest(p, m)
  PROVE  [RC!Next]_(RC!vars)
<1>1. /\ m \in InTransit(p) /\ m.call = <<Other(p), m.id>> /\ m \in Requests(m.call)
  BY HandledMeant DEF ReceiveRequest
<1>2. outcome' = outcome /\ exec' = [exec EXCEPT ![m.call] = "running"] BY DEF ReceiveRequest
<1>3. CASE m.call \in Calls
  <2>1. Callee(m.call) = p BY <1>1, ObjectFacts DEF Callee
  <2>2. outcome[m.call].status = "pending" /\ exec[m.call] = "none"
    BY <1>1, <1>3, <2>1 DEF CallInv, StageInv, Status
  <2>3. RC!Start(m.call) BY <1>2, <1>3, <2>2 DEF RC!Start
  <2> QED BY <1>3, <2>3 DEF RC!Next
<1>4. CASE m.call \notin Calls
  <2>1. exec' = exec BY <1>2, <1>4 DEF TypeOK
  <2> QED BY <1>2, <2>1, SameCalls
<1> QED BY <1>3, <1>4

LEMMA FinishImplemented ==
  ASSUME TypeOK, IdentityInv, CallInv, NEW p \in Protocols, NEW h \in invokedHandlers[p],
         NEW o \in {"ok", "err"}, HandlerSettled(p, h, o)
  PROVE  [RC!Next]_(RC!vars)
<1>1. h.call = <<Other(p), h.id>> BY DEF IdentityInv, HandlerInv
<1>2. outcome' = outcome /\ exec' = [exec EXCEPT ![h.call] = o] BY DEF HandlerSettled
<1>3. CASE h.call \in Calls
  <2>1. Callee(h.call) = p BY <1>1, ObjectFacts DEF Callee
  <2>2. h \in RunningOf(h.call) BY <2>1 DEF RunningOf
  <2>3. exec[h.call] = "running" BY <1>3, <2>2 DEF CallInv, StageInv
  <2>4. RC!Finish(h.call) BY <1>2, <2>3 DEF RC!Finish
  <2> QED BY <1>3, <2>4 DEF RC!Next
<1>4. CASE h.call \notin Calls
  <2>1. exec' = exec BY <1>2, <1>4 DEF TypeOK
  <2> QED BY <1>2, <2>1, SameCalls
<1> QED BY <1>3, <1>4

LEMMA SettleImplemented ==
  ASSUME TypeOK, IdentityInv, CallInv, NEW p \in Protocols, NEW m, NextMessage(p, m),
         ReceiveReply(p, m)
  PROVE  [RC!Next]_(RC!vars)
<1> DEFINE c0 == m.call
<1>1. /\ m \in Answers(c0)
      /\ c0 \in Calls =>
           /\ Status(c0) = "pending" /\ exec[c0] = IF m.type = "reply" THEN "ok" ELSE "err"
           /\ outcome' = [outcome EXCEPT ![c0] = [status |-> SettledStatus(m), from |-> c0]]
      /\ c0 \notin Calls => UNCHANGED outcome
  BY AnswerHandled
<1>2. exec' = exec BY DEF ReceiveReply
<1> HIDE DEF c0
<1>3. CASE c0 \in Calls
  <2>1. \A c \in Calls : outcome'[c] =
          IF c = c0 THEN [status |-> SettledStatus(m), from |-> c0] ELSE outcome[c]
    BY <1>1, <1>3 DEF TypeOK
  <2>2. \A s, f : [status |-> s, from |-> f].status = s OBVIOUS
  <2>3. \A c \in Calls : outcome'[c].status = IF c = c0 THEN SettledStatus(m) ELSE outcome[c].status
    BY <2>1, <2>2
  <2>4. [c \in Calls |-> outcome[c].status]' =
          [[c \in Calls |-> outcome[c].status] EXCEPT ![c0] = SettledStatus(m)]
    BY <2>3
  <2>5. \/ exec[c0] = "ok" /\ SettledStatus(m) = "resolved"
        \/ exec[c0] = "err" /\ SettledStatus(m) = "rejected"
    BY <1>1, <1>3 DEF SettledStatus
  <2>6. RC!Settle(c0) BY <1>1, <1>2, <1>3, <2>4, <2>5 DEF RC!Settle, Status
  <2> QED BY <1>3, <2>6 DEF RC!Next
<1>4. CASE c0 \notin Calls BY <1>1, <1>2, <1>4, SameCalls
<1> QED BY <1>3, <1>4

\* What RemoteCall promises holds of the protocol.
THEOREM ImplementsRemoteCall == Spec => RemoteCallSpec
<1>1. Init => RC!Init
  BY DEF Init, RC!Init
<1>2. TypeOK /\ IdentityInv /\ CallInv /\ [Next]_vars => [RC!Next]_(RC!vars)
  <2> SUFFICES ASSUME TypeOK, IdentityInv, CallInv, [Next]_vars PROVE [RC!Next]_(RC!vars)
    OBVIOUS
  <2>1. ASSUME NEW p \in Protocols, NEW k \in Kinds, RemoteCall(p, k) PROVE RC!Next
    BY <2>1, InvokeImplemented
  <2>2. ASSUME NEW p \in Protocols, ReceiveOneMessage(p) PROVE [RC!Next]_(RC!vars)
    <3>1. PICK m : /\ NextMessage(p, m)
                   /\ \/ ReceiveSetHostID(p, m) \/ SkipMessage(p, m) \/ ReceiveRequest(p, m)
                      \/ ReceiveCancel(p, m) \/ ReceiveReply(p, m)
      BY <2>2 DEF ReceiveOneMessage
    <3>2. CASE ReceiveSetHostID(p, m) \/ SkipMessage(p, m) \/ ReceiveCancel(p, m)
      <4>1. UNCHANGED <<outcome, exec>> BY <3>2 DEF ReceiveSetHostID, SkipMessage, ReceiveCancel
      <4> QED BY <4>1, SameCalls
    <3> QED BY <3>1, <3>2, StartImplemented, SettleImplemented
  <2>3. ASSUME NEW p \in Protocols, NEW h \in invokedHandlers[p], NEW o \in {"ok", "err"},
               HandlerSettled(p, h, o)
        PROVE  [RC!Next]_(RC!vars)
    BY <2>3, FinishImplemented
  <2>4. ASSUME \/ \E p \in Protocols : SendAccumulated(p) \/ \E id \in tokens[p] : CancelCall(p, id)
               \/ \E e \in Processes : ReceiveBatch(e)
               \/ \E h \in Mortal : HostExits(h)
               \/ UNCHANGED vars
        PROVE  UNCHANGED RC!vars
    BY <2>4, SameCalls DEF SendAccumulated, CancelCall, ReceiveBatch, HostExits
  <2> QED BY <2>1, <2>2, <2>3, <2>4 DEF Next
<1> QED BY <1>1, <1>2, Invariants, PTL DEF Spec, RemoteCallSpec, RC!Spec
=============================================================================
