---------------------------- MODULE RpcProtocol -----------------------------
(***************************************************************************)
(* The remote procedure calls between the browser and the plugin hosts:    *)
(* RPCProtocolImpl and RPCMultiplexer of plugin-ext/src/api/rpc-protocol.ts*)
(* with the wiring of hosted-plugin.ts (one protocol object per host in    *)
(* the browser, all of them listening to the one stream of messages that   *)
(* come back) and plugin-host.ts (one protocol object in each host).       *)
(*                                                                         *)
(* A protocol object is <<side, host>>.  A call is <<caller, id>>; the     *)
(* identity of the call a request carries stands for its arguments, and    *)
(* the one a reply carries for the result computed from them.              *)
(***************************************************************************)
EXTENDS Naturals, Sequences

CONSTANTS Hosts,        \* plugin hosts
          Browser,      \* the browser's process
          NoHost,       \* no host ID
          UsesHostId,   \* the browser side was given a remoteHostID
          Kinds,        \* which kinds of methods are called
          MaxCalls,     \* bound: calls made by each protocol object
          Mortal        \* the hosts whose process may end

Protocols == {"main", "ext"} \X Hosts
Other(p) == <<IF p[1] = "main" THEN "ext" ELSE "main", p[2]>>
\* The processes, and the one an object lives in: every browser-side object
\* shares the browser's event loop and its stream of incoming messages.
Processes == Hosts \cup {Browser}
ProcessOf(p) == IF p[1] = "main" THEN Browser ELSE p[2]
ObjectsOf(e) == {p \in Protocols : ProcessOf(p) = e}
Calls == UNION {{p} \X (1 .. MaxCalls[p]) : p \in Protocols}

ASSUME RpcAssumption ==
  /\ UsesHostId \in BOOLEAN
  /\ Kinds \subseteq {"finite", "untilCancelled", "unknown"}
  /\ MaxCalls \in [Protocols -> Nat]
  /\ Mortal \subseteq Hosts
  /\ Browser \notin Hosts /\ NoHost \notin Hosts
  \* PluginWorker has no host ID, and a stream of its own.
  /\ UsesHostId \/ \A g, h \in Hosts : g = h

VARIABLES
  lastMessageId,            \* [Protocols -> Nat]
  pendingRPCReplies,        \* ids of the calls whose Deferred is not settled
  invokedHandlers,          \* handlers whose promise is not settled
  cancellationTokenSources, \* id -> call whose handler holds the token
  messageToSendHostId,      \* the host ID put in every message
  messagesToSend,           \* the multiplexer's queue
  flushScheduled,           \* a setImmediate(sendAccumulated) is due
  wire,                     \* batches on their way to a process
  inbox,                    \* rest of the batch being handled
  alive,                    \* the processes that run
  tokens,                   \* ids of own calls whose token can be cancelled
  signalled,                \* calls whose handler saw its token cancelled
  outcome,                  \* history: how the promise of a call stands
  exec                      \* history: how the handler of a call stands

queues == <<messagesToSend, flushScheduled>>
receiver == <<invokedHandlers, cancellationTokenSources, signalled, exec>>
caller == <<lastMessageId, pendingRPCReplies, tokens, outcome>>
vars == <<queues, receiver, caller, messageToSendHostId, wire, inbox, alive>>

MessageTypes == {"setHostID", "request", "cancel", "reply", "replyErr"}
Message == [type : MessageTypes, id : Nat, hostID : Hosts \cup {NoHost},
            kind : Kinds \cup {"none"}, call : Protocols \X Nat]

\* MessageFactory: the prefix with the host ID is there once it is known.
Msg(p, type, id, kind, call) ==
  [type |-> type, id |-> id, hostID |-> messageToSendHostId[p], kind |-> kind, call |-> call]

SetHostID(p) ==
  [type |-> "setHostID", id |-> 0, hostID |-> p[2], kind |-> "none", call |-> <<p, 0>>]

\* Other code of a process runs only between two batches: all listeners, and
\* the loop over the batch in each, are one stack.
Idle(e) == alive[e] /\ \A p \in ObjectsOf(e) : inbox[p] = <<>>

\* Two defects for the mutants: the flush is scheduled by the second message,
\* and the queue is overwritten.
SendSchedulesLate(p, m) ==
  /\ messagesToSend' = [messagesToSend EXCEPT ![p] = Append(@, m)]
  /\ flushScheduled' = [flushScheduled EXCEPT ![p] = @ \/ Len(messagesToSend[p]) = 1]

SendOverwrites(p, m) ==
  /\ messagesToSend' = [messagesToSend EXCEPT ![p] = <<m>>]
  /\ flushScheduled' = [flushScheduled EXCEPT ![p] = TRUE]

\* RPCMultiplexer.send: the first message of a queue schedules the flush.
Send(p, m) ==
  /\ messagesToSend' = [messagesToSend EXCEPT ![p] = Append(@, m)]
  /\ flushScheduled' = [flushScheduled EXCEPT ![p] = @ \/ messagesToSend[p] = <<>>]

Init ==
  /\ lastMessageId = [p \in Protocols |-> 0]
  /\ pendingRPCReplies = [p \in Protocols |-> {}]
  /\ invokedHandlers = [p \in Protocols |-> {}]
  /\ cancellationTokenSources = [p \in Protocols |-> {}]
  /\ messageToSendHostId = [p \in Protocols |-> NoHost]
  /\ messagesToSend = [p \in Protocols |->
       IF p[1] = "main" /\ UsesHostId THEN <<SetHostID(p)>> ELSE <<>>]
  /\ flushScheduled = [p \in Protocols |-> p[1] = "main" /\ UsesHostId]
  /\ wire = [e \in Processes |-> <<>>]
  /\ inbox = [p \in Protocols |-> <<>>]
  /\ alive = [e \in Processes |-> TRUE]
  /\ tokens = [p \in Protocols |-> {}]
  /\ signalled = {}
  /\ outcome = [c \in Calls |-> [status |-> "idle", from |-> c]]
  /\ exec = [c \in Calls |-> "none"]

-----------------------------------------------------------------------------
(* The caller.                                                             *)

\* Extension-side code runs once $init, the first request, has arrived.
Started(p) == p[1] = "main" \/ \E c \in Calls : c[1] = Other(p) /\ exec[c] # "none"

NextCallId(p) == lastMessageId[p] + 1

RemoteCall(p, kind) ==
  LET id == NextCallId(p) IN
  /\ Idle(ProcessOf(p)) /\ Started(p)
  /\ lastMessageId[p] < MaxCalls[p]
  /\ lastMessageId' = [lastMessageId EXCEPT ![p] = id]
  /\ pendingRPCReplies' = [pendingRPCReplies EXCEPT ![p] = @ \cup {id}]
  /\ tokens' = [tokens EXCEPT ![p] = IF kind = "unknown" THEN @ ELSE @ \cup {id}]
  /\ outcome' = [outcome EXCEPT ![<<p, id>>].status = "pending"]
  /\ Send(p, Msg(p, "request", id, kind, <<p, id>>))
  /\ UNCHANGED <<receiver, messageToSendHostId, wire, inbox, alive>>

\* The number the listener of the token has captured.
CapturedCallId(p, id) == id

\* The caller's token is cancelled, be the call still pending or not.
CancelCall(p, id) ==
  /\ Idle(ProcessOf(p)) /\ id \in tokens[p]
  /\ tokens' = [tokens EXCEPT ![p] = @ \ {id}]
  /\ Send(p, Msg(p, "cancel", CapturedCallId(p, id), "none", <<p, CapturedCallId(p, id)>>))
  /\ UNCHANGED <<lastMessageId, pendingRPCReplies, outcome, receiver,
                 messageToSendHostId, wire, inbox, alive>>

-----------------------------------------------------------------------------
(* The multiplexer and the connection under it.                            *)

\* Where the messages of p go: the browser sends to the host of the object,
\* every host to the browser.
Destination(p) == ProcessOf(Other(p))

SendAccumulated(p) ==
  /\ Idle(ProcessOf(p)) /\ flushScheduled[p]
  /\ messagesToSend' = [messagesToSend EXCEPT ![p] = <<>>]
  /\ flushScheduled' = [flushScheduled EXCEPT ![p] = FALSE]
  /\ wire' = IF alive[Destination(p)]
             THEN [wire EXCEPT ![Destination(p)] = Append(@, messagesToSend[p])]
             ELSE wire
  /\ UNCHANGED <<receiver, caller, messageToSendHostId, inbox, alive>>

\* The event with the batch is fired to every object of the process.
ReceiveBatch(e) ==
  /\ Idle(e) /\ wire[e] # <<>>
  /\ inbox' = [p \in Protocols |-> IF p \in ObjectsOf(e) THEN Head(wire[e]) ELSE inbox[p]]
  /\ wire' = [wire EXCEPT ![e] = Tail(@)]
  /\ UNCHANGED <<queues, receiver, caller, messageToSendHostId, alive>>

-----------------------------------------------------------------------------
(* receiveOneMessage.                                                      *)

\* Defect: the host ID is not looked at.
AcceptsEveryHost(p, m) == m.type # "setHostID"

\* The message is for this object: the filter on the host ID lets it pass.
Accepts(p, m) ==
  /\ m.type # "setHostID"
  /\ ~ (p[1] = "main" /\ UsesHostId /\ m.hostID # NoHost /\ m.hostID # p[2])

NextMessage(p, m) ==
  /\ alive[ProcessOf(p)] /\ inbox[p] # <<>> /\ m = Head(inbox[p])
  /\ inbox' = [inbox EXCEPT ![p] = Tail(@)]
  /\ UNCHANGED <<queues, lastMessageId, tokens, wire, alive>>

ReceiveSetHostID(p, m) ==
  /\ m.type = "setHostID"
  /\ messageToSendHostId' = [messageToSendHostId EXCEPT ![p] = m.hostID]
  /\ UNCHANGED <<pendingRPCReplies, outcome, receiver>>

SkipMessage(p, m) ==
  /\ m.type # "setHostID" /\ ~Accepts(p, m)
  /\ UNCHANGED <<pendingRPCReplies, outcome, receiver, messageToSendHostId>>

ReceiveRequest(p, m) ==
  /\ m.type = "request" /\ Accepts(p, m)
  /\ invokedHandlers' =
       [invokedHandlers EXCEPT ![p] = @ \cup {[id |-> m.id, kind |-> m.kind, call |-> m.call]}]
  /\ cancellationTokenSources' =
       [cancellationTokenSources EXCEPT ![p] =
          {s \in @ : s[1] # m.id} \cup {<<m.id, m.call>>}]
  /\ exec' = [exec EXCEPT ![m.call] = "running"]
  /\ UNCHANGED <<pendingRPCReplies, outcome, signalled, messageToSendHostId>>

\* Defect: the source is no longer found.
NoSources(p, id) == {s \in cancellationTokenSources[p] : s[1] = id /\ s[2] \in signalled}
\* The token sources a cancel message finds.
SourcesOf(p, id) == {s \in cancellationTokenSources[p] : s[1] = id}

ReceiveCancel(p, m) ==
  /\ m.type = "cancel" /\ Accepts(p, m)
  /\ signalled' = signalled \cup {s[2] : s \in SourcesOf(p, m.id)}
  /\ UNCHANGED <<pendingRPCReplies, outcome, invokedHandlers, cancellationTokenSources,
                 exec, messageToSendHostId>>

\* Defect: a replyErr resolves the promise.
ErrorsResolve(m) == "resolved"

\* receiveReply resolves, receiveReplyErr rejects.
SettledStatus(m) == IF m.type = "reply" THEN "resolved" ELSE "rejected"

ReceiveReply(p, m) ==
  /\ m.type \in {"reply", "replyErr"} /\ Accepts(p, m)
  /\ IF m.id \in pendingRPCReplies[p]
     THEN /\ pendingRPCReplies' = [pendingRPCReplies EXCEPT ![p] = @ \ {m.id}]
          /\ outcome' = [outcome EXCEPT ![<<p, m.id>>] =
                           [status |-> SettledStatus(m), from |-> m.call]]
     ELSE UNCHANGED <<pendingRPCReplies, outcome>>
  /\ UNCHANGED <<receiver, messageToSendHostId>>

ReceiveOneMessage(p) ==
  \E m \in {inbox[p][i] : i \in DOMAIN inbox[p]} :
    /\ NextMessage(p, m)
    /\ \/ ReceiveSetHostID(p, m)
       \/ SkipMessage(p, m)
       \/ ReceiveRequest(p, m)
       \/ ReceiveCancel(p, m)
       \/ ReceiveReply(p, m)

-----------------------------------------------------------------------------
(* The handlers, and the host process.                                     *)

\* How a handler's promise may settle: an unknown actor or method rejects it;
\* a method that waits for its token settles once the token is cancelled.
Outcomes(h) ==
  CASE h.kind = "unknown" -> {"err"}
    [] h.kind = "untilCancelled" -> IF h.call \in signalled THEN {"ok", "err"} ELSE {}
    [] OTHER -> {"ok", "err"}

ReplyType(o) == IF o = "ok" THEN "reply" ELSE "replyErr"

\* The two callbacks of invokedHandlers[callId].then(...).
HandlerSettled(p, h, o) ==
  /\ Idle(ProcessOf(p)) /\ h \in invokedHandlers[p] /\ o \in Outcomes(h)
  /\ invokedHandlers' = [invokedHandlers EXCEPT ![p] = @ \ {h}]
  /\ cancellationTokenSources' =
       [cancellationTokenSources EXCEPT ![p] = {s \in @ : s[1] # h.id}]
  /\ exec' = [exec EXCEPT ![h.call] = o]
  /\ Send(p, Msg(p, ReplyType(o), h.id, "none", h.call))
  /\ UNCHANGED <<signalled, caller, messageToSendHostId, wire, inbox, alive>>

\* The host process ends: what was on its way to it and in it is gone, what it
\* had written may still arrive.  Nothing in the browser notices.
HostExits(h) ==
  /\ alive[h]
  /\ alive' = [alive EXCEPT ![h] = FALSE]
  /\ wire' = [wire EXCEPT ![h] = <<>>]
  /\ UNCHANGED <<queues, receiver, caller, messageToSendHostId, inbox>>

Next ==
  \/ \E p \in Protocols :
       \/ \E k \in Kinds : RemoteCall(p, k)
       \/ \E id \in tokens[p] : CancelCall(p, id)
       \/ SendAccumulated(p)
       \/ ReceiveOneMessage(p)
       \/ \E h \in invokedHandlers[p], o \in {"ok", "err"} : HandlerSettled(p, h, o)
  \/ \E e \in Processes : ReceiveBatch(e)
  \/ \E h \in Mortal : HostExits(h)

Spec == Init /\ [][Next]_vars

\* The event loops run what is due, the connections deliver, and a method that
\* may return does so some day.
Fairness ==
  /\ \A p \in Protocols :
       WF_vars(SendAccumulated(p)) /\ WF_vars(ReceiveOneMessage(p))
  /\ \A e \in Processes : WF_vars(ReceiveBatch(e))
  /\ \A c \in Calls :
       WF_vars(\E h \in invokedHandlers[Other(c[1])], o \in {"ok", "err"} :
                 h.call = c /\ HandlerSettled(Other(c[1]), h, o))

FairSpec == Spec /\ Fairness

-----------------------------------------------------------------------------
(* Properties.                                                             *)

Outcome == [status : {"idle", "pending", "resolved", "rejected"}, from : Protocols \X Nat]
Handler == [id : Nat, kind : Kinds \cup {"none"}, call : Protocols \X Nat]

TypeOK ==
  /\ lastMessageId \in [Protocols -> Nat]
  /\ pendingRPCReplies \in [Protocols -> SUBSET Nat]
  /\ tokens \in [Protocols -> SUBSET Nat]
  /\ \A p \in Protocols :
       /\ lastMessageId[p] <= MaxCalls[p]
       /\ pendingRPCReplies[p] \subseteq 1 .. lastMessageId[p]
       /\ tokens[p] \subseteq 1 .. lastMessageId[p]
  /\ invokedHandlers \in [Protocols -> SUBSET Handler]
  /\ cancellationTokenSources \in [Protocols -> SUBSET (Nat \X (Protocols \X Nat))]
  /\ messageToSendHostId \in [Protocols -> Hosts \cup {NoHost}]
  /\ messagesToSend \in [Protocols -> Seq(Message)]
  /\ flushScheduled \in [Protocols -> BOOLEAN]
  /\ wire \in [Processes -> Seq(Seq(Message))]
  /\ inbox \in [Protocols -> Seq(Message)]
  /\ alive \in [Processes -> BOOLEAN]
  /\ signalled \subseteq Protocols \X Nat
  /\ outcome \in [Calls -> Outcome]
  /\ exec \in [Calls -> {"none", "running", "ok", "err"}]

Elements(s) == {s[i] : i \in DOMAIN s}
\* Messages p has still to handle: sent to it, or queued for it by its peer.
InTransit(p) ==
  Elements(inbox[p]) \cup (UNION {Elements(b) : b \in Elements(wire[ProcessOf(p)])})
    \cup Elements(messagesToSend[Other(p)])

\* A promise is settled by the answer to its own call, never by one that
\* carries the same number but answers another host or the other direction.
SettledByOwnCall ==
  \A c \in Calls : outcome[c].status \in {"resolved", "rejected"} => outcome[c].from = c

\* Nothing is lost while the host lives: the request of a pending call is on its way,
\* or its handler runs, or its reply is on its way, and only one of these.
PendingIsSomewhere ==
  \A c \in Calls :
    LET p == c[1]
        requested == \E m \in InTransit(Other(p)) : m.type = "request" /\ m.call = c
        running == \E h \in invokedHandlers[Other(p)] : h.call = c
        answered == \E m \in InTransit(p) : m.type \in {"reply", "replyErr"} /\ m.call = c
    IN  outcome[c].status = "pending" /\ alive[p[2]] =>
          /\ requested \/ running \/ answered
          /\ ~(requested /\ running) /\ ~(requested /\ answered) /\ ~(running /\ answered)

\* Once a cancel message has been handled, a handler that still runs has seen
\* its token cancelled: a cancel never overtakes its request.
CancelReachesHandler ==
  \A c \in Calls : \A h \in invokedHandlers[Other(c[1])] :
    /\ alive[c[1][2]] /\ h.call = c /\ h.kind # "unknown" /\ c[2] \notin tokens[c[1]]
    /\ ~ \E m \in InTransit(Other(c[1])) : m.type = "cancel" /\ m.call = c
    => c \in signalled

\* The promise a caller holds is settled, unless its method waits for a cancel
\* that does not come or the host process is gone.
CallSettles ==
  \A c \in Calls :
    outcome[c].status = "pending" ~>
      \/ outcome[c].status \in {"resolved", "rejected"}
      \/ ~alive[c[1][2]]
      \/ c[2] \in tokens[c[1]]

\* The protocol implements remote calls as a caller knows them.
RC == INSTANCE RemoteCall WITH status <- [c \in Calls |-> outcome[c].status]
RemoteCallSpec == RC!Spec
=============================================================================
