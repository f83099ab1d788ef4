--------------------------- MODULE DebugSessions ---------------------------
(***************************************************************************)
(* Debug sessions from the browser to the debug adapter: the               *)
(* DebugSessionManager and its DebugSession and DebugSessionConnection,    *)
(* the DebugServiceImpl that spawns an adapter for each, and the           *)
(* DebugAdapterSessionImpl that passes on what is written to either end of *)
(* a channel of the web socket that is not opened again.                   *)
(*                                                                         *)
(* The channels and the calls of the debug service share one socket, so    *)
(* they are the calls and answers of one proxy here.  Of the requests to   *)
(* an adapter those that start, end and restart a session are modelled.    *)
(***************************************************************************)
EXTENDS JsonRpcProxy, FiniteSets

CONSTANTS MaxSessions,  \* bound: sessions created
          MaxStops      \* bound: stops and restarts the user asks for

ASSUME DebugAssumption == MaxSessions \in Nat /\ MaxStops \in Nat

Sessions == 1 .. MaxSessions

VARIABLES
  sessions,  \* the browser's: [state, channel, capabilities, terminated, sequence,
             \* pendingRequests, waits, unsent]
  adapters,  \* the backend's: [state, channel, registered, signalled, input, said]
  stops, orphans, stuck  \* history

debugVars == <<sessions, adapters, stops, orphans, stuck>>
allDebugVars == <<proxyVars, debugVars>>

\* A wait is for the exit of the session, and again says that the session is to
\* be restarted after that, as of a request that precedes the wait.
NewSession(state) ==
  [state |-> state, channel |-> "opening", capabilities |-> {}, terminated |-> FALSE,
   sequence |-> 0, pendingRequests |-> {}, waits |-> {}, unsent |-> <<>>]

NewAdapter(state) ==
  [state |-> state, channel |-> "none", registered |-> state = "running",
   signalled |-> FALSE, input |-> <<>>, said |-> {}]

DebugInit ==
  /\ ProxyInit
  /\ sessions = [s \in Sessions |-> NewSession("none")]
  /\ adapters = [s \in Sessions |-> NewAdapter("none")]
  /\ stops = 0 /\ orphans = {} /\ stuck = {}

CreateCall == [op |-> "debugCreate"]
OpenCall(s) == [op |-> "debugOpen", of |-> s]
TerminateCall(s) == [op |-> "debugTerminate", of |-> s]

Count(calls, call) == Cardinality({i \in DOMAIN calls : calls[i] = call})
\* Sessions created, asked for, and to be asked for by a restart.
Ordered ==
  Cardinality({s \in Sessions : adapters[s].state # "none"})
  + Cardinality({i \in DOMAIN answers : answers[i].op = "terminated" /\ answers[i].restart})
  + Count(waiting, CreateCall) + Count(requests, CreateCall)
  + Cardinality(UNION {{<<s, p>> : p \in {q \in sessions[s].pendingRequests : q.again}}
                       \cup {<<s, w>> : w \in {v \in sessions[s].waits : v.again}} : s \in Sessions})

-----------------------------------------------------------------------------
(* The browser.                                                            *)

\* sendRequest of session x: what is sent waits for the channel.
Requested(x, command, again) ==
  LET seq == x.sequence + 1
  IN  [x EXCEPT !.sequence = seq,
                !.pendingRequests = @ \cup {[seq |-> seq, command |-> command, again |-> again]},
                !.unsent = Append(@, [seq |-> seq, command |-> command])]

\* Session s becomes x, which sends what it can before the other calls are made.
Becomes(s, x, calls) ==
  LET data == [i \in DOMAIN x.unsent |-> [op |-> "debugData", of |-> s, message |-> x.unsent[i]]]
  IN  IF x.channel = "open"
      THEN sessions' = [sessions EXCEPT ![s] = [x EXCEPT !.unsent = <<>>]] /\ Call(data \o calls)
      ELSE sessions' = [sessions EXCEPT ![s] = x] /\ Call(calls)

\* terminate
Terminate(x, again) ==
  IF ~x.terminated /\ "terminate" \in x.capabilities
  THEN Requested([x EXCEPT !.terminated = TRUE], "terminate", again)
  ELSE Requested(x, "disconnect", again)

\* doRestart
Restart(x) ==
  IF "restart" \in x.capabilities
  THEN Requested([x EXCEPT !.terminated = FALSE], "restart", FALSE)
  ELSE Terminate(x, TRUE)

\* The exited event destroys session x: those who wait for it go on, and what they
\* or the one that fired it restart is created anew; pending requests are dropped.
Destroyed(x) == [x EXCEPT !.state = "destroyed", !.pendingRequests = {}, !.waits = {}]
Again(n) == [i \in 1 .. n |-> CreateCall]
\* Defect: the backend is not told.
ExitCallsUntold(s, x, restarts) == Again(restarts + Cardinality({w \in x.waits : w.again}))
ExitCalls(s, x, restarts) ==
  <<TerminateCall(s)>> \o Again(restarts + Cardinality({w \in x.waits : w.again}))
Exited(s, x, restarts) == Becomes(s, Destroyed(x), ExitCalls(s, x, restarts))

One(condition) == IF condition THEN 1 ELSE 0

\* The bound leaves room for the session a restart creates.
MayRestart(s) == "restart" \in sessions[s].capabilities \/ Ordered < MaxSessions

StartDebugging ==
  /\ Ordered < MaxSessions
  /\ Call(<<CreateCall>>)
  /\ UNCHANGED <<connection, isOpen, connectionPromise, answers, debugVars>>

\* The commands that stop or restart a session.
StopDebugging(s) ==
  /\ sessions[s].state = "shown" /\ stops < MaxStops
  /\ stops' = stops + 1
  /\ \/ Becomes(s, Terminate(sessions[s], FALSE), <<>>)
     \/ MayRestart(s) /\ Becomes(s, Restart(sessions[s]), <<>>)
  /\ UNCHANGED <<connection, isOpen, connectionPromise, answers, adapters, orphans, stuck>>

\* handleResponse, and what awaited it.
Response(s, x, p, a) ==
  LET y == [x EXCEPT !.pendingRequests = @ \ {p}]
      Wait(time) == [y EXCEPT !.waits = @ \cup {[seq |-> p.seq, time |-> time, again |-> p.again]}]
  IN  \/ /\ p.command = "initialize" /\ a.success
         /\ Becomes(s, Requested([y EXCEPT !.capabilities = a.capabilities], "launch", FALSE), <<>>)
      \* nobody looks at a rejected initialize or restart: the session stays as it is
      \/ /\ \/ p.command = "restart" \/ (p.command = "launch" /\ a.success)
            \/ p.command = "initialize" /\ ~a.success
         /\ Becomes(s, y, <<>>)
      \/ p.command = "launch" /\ ~a.success /\ Exited(s, y, 0)
      \/ p.command = "terminate" /\ Becomes(s, IF a.success THEN Wait("1000") ELSE y, <<>>)
      \/ p.command = "disconnect" /\ a.success /\ Becomes(s, Wait("500"), <<>>)
      \/ p.command = "disconnect" /\ ~a.success /\ Exited(s, y, One(p.again))

\* The terminated event: the session's listener runs before the manager's.
Terminated(s, x, restart) ==
  LET y == [x EXCEPT !.terminated = TRUE]
  IN  Becomes(s, IF restart THEN Restart(y) ELSE Terminate(y, FALSE), <<>>)

\* createDebugSession is answered, a channel is ready, or a message arrives for a
\* session; those for a session that was destroyed find nobody.
DebugAnswer ==
  LET a == Head(answers)
      s == a.of
      x == sessions[s]
  IN  /\ answers # <<>>
      /\ answers' = Tail(answers)
      /\ \/ /\ a.op = "debugCreated"
            /\ Becomes(s, Requested(NewSession("shown"), "initialize", FALSE), <<OpenCall(s)>>)
         \/ a.op = "debugReady" /\ Becomes(s, [x EXCEPT !.channel = "open"], <<>>)
         \/ /\ a.op = "response"
            /\ IF \E p \in x.pendingRequests : p.seq = a.seq
               THEN \E p \in x.pendingRequests : p.seq = a.seq /\ Response(s, x, p, a)
               ELSE Becomes(s, x, <<>>)
         \/ a.op = "terminated" /\ x.state = "shown" /\ Terminated(s, x, a.restart)
         \/ a.op = "exited" /\ x.state = "shown" /\ Exited(s, x, 0)
         \/ a.op \in {"terminated", "exited"} /\ x.state # "shown" /\ Becomes(s, x, <<>>)
      /\ stuck' = IF /\ a.op = "response" /\ ~a.success
                     /\ \E p \in x.pendingRequests : p.seq = a.seq /\ p.command = "terminate"
                  THEN stuck \cup {s} ELSE stuck
      /\ UNCHANGED <<connection, isOpen, connectionPromise, adapters, stops, orphans>>

\* Defect: nothing follows the last timeout.
TimedOutSilently(s, x, w) ==
  Becomes(s, IF w.time = "1000" THEN Requested(x, "disconnect", w.again) ELSE x, <<>>)
\* After a second a session that was asked to terminate is disconnected; half a
\* second after that it is taken for exited.
TimedOut(s, x, w) ==
  \/ w.time = "1000" /\ Becomes(s, Requested(x, "disconnect", w.again), <<>>)
  \/ w.time = "500" /\ Exited(s, x, One(w.again))

ExitTimesOut(s) ==
  /\ \E w \in sessions[s].waits : TimedOut(s, [sessions[s] EXCEPT !.waits = @ \ {w}], w)
  /\ UNCHANGED <<connection, isOpen, connectionPromise, answers, adapters, stops, orphans, stuck>>

DebugConnect == Listen(<<>>) /\ UNCHANGED debugVars

-----------------------------------------------------------------------------
(* The backend.                                                            *)

\* The adapter is asked to end, and sent the signal.
Stopped(a) == [a EXCEPT !.signalled = TRUE]

ChannelCloses(a) == [Stopped(a) EXCEPT !.channel = "closed"]

ServeDebug ==
  LET c == Head(requests)
      new == 1 + Cardinality({s \in Sessions : adapters[s].state # "none"})
  IN  /\ requests # <<>>
      /\ \/ /\ c.op = "debugCreate"
            /\ adapters' = [adapters EXCEPT ![new] = NewAdapter("running")]
            /\ Serve(<<[op |-> "debugCreated", of |-> new]>>)
            /\ UNCHANGED stuck
         \/ /\ c.op = "debugOpen"
            /\ adapters' = [adapters EXCEPT ![c.of].channel = "open"]
            /\ Serve(<<[op |-> "debugReady", of |-> c.of]>>)
            \* the end of the adapter's output was nobody's to hear
            /\ stuck' = IF adapters[c.of].state = "exited" THEN stuck \cup {c.of} ELSE stuck
         \/ /\ c.op = "debugData"
            /\ adapters' = [adapters EXCEPT ![c.of].input = Append(@, c.message)]
            /\ Serve(<<>>)
            /\ UNCHANGED stuck
         \/ /\ c.op = "debugTerminate"
            /\ adapters' = [adapters EXCEPT ![c.of] =
                 IF @.registered THEN [Stopped(@) EXCEPT !.registered = FALSE] ELSE @]
            /\ Serve(<<>>)
            /\ UNCHANGED stuck
      /\ UNCHANGED <<sessions, stops, orphans>>

\* Adapter s, which becomes a, writes a message.
Says(s, a, message) ==
  /\ adapters' = [adapters EXCEPT ![s] = a]
  /\ answers' = IF a.channel = "open" THEN Append(answers, message) ELSE answers
  /\ UNCHANGED <<connection, isOpen, connectionPromise, waiting, requests,
                 sessions, stops, orphans, stuck>>

\* What an answer to request m may offer.
Capabilities(m, success) ==
  IF m.command = "initialize" /\ success THEN SUBSET {"terminate", "restart"} ELSE {{}}

AdapterAnswers(s) ==
  LET a == adapters[s]
      m == Head(a.input)
  IN  /\ a.state = "running" /\ a.input # <<>>
      /\ \E success \in BOOLEAN : \E capabilities \in Capabilities(m, success) :
           Says(s, [a EXCEPT !.input = Tail(@)],
                [op |-> "response", of |-> s, seq |-> m.seq, success |-> success,
                 capabilities |-> capabilities])

\* Debugging is over: the adapter says so once, and may ask for a restart.
AdapterTerminates(s) ==
  LET a == adapters[s]
  IN  /\ a.state = "running" /\ a.channel = "open" /\ "terminated" \notin a.said
      /\ \E restart \in BOOLEAN :
           /\ restart => MayRestart(s)
           /\ Says(s, [a EXCEPT !.said = @ \cup {"terminated"}],
                   [op |-> "terminated", of |-> s, restart |-> restart])

\* The program that is debugged exits.
DebuggeeExits(s) ==
  LET a == adapters[s]
  IN  /\ a.state = "running" /\ a.channel = "open" /\ "exited" \notin a.said
      /\ Says(s, [a EXCEPT !.said = @ \cup {"exited"}], [op |-> "exited", of |-> s])

\* The adapter exits: its output closes, which is passed on as the exited event.
AdapterExits(s) ==
  /\ adapters[s].state = "running"
  /\ Says(s, [adapters[s] EXCEPT !.state = "exited", !.input = <<>>], [op |-> "exited", of |-> s])

\* The socket closes, and with it all channels at both ends: they are not opened
\* again, so a session whose channel was not ready never has one.  Those who wait
\* for the sessions to exit go on when all channels are closed.
DebugConnectionLost ==
  LET open == {s \in Sessions : sessions[s].channel = "open" /\ sessions[s].state # "none"}
      exits == {s \in open : sessions[s].state = "shown"}
      of == SetToSeq(exits)
      restarts == UNION {{<<s, w>> : w \in {v \in sessions[s].waits : v.again}} : s \in exits}
  IN  /\ isOpen /\ connection < MaxConnections
      /\ isOpen' = FALSE /\ connectionPromise' = 0
      /\ requests' = <<>> /\ answers' = <<>>
      /\ waiting' = waiting \o [i \in DOMAIN of |-> TerminateCall(of[i])]
                            \o Again(Cardinality(restarts))
      /\ sessions' = [s \in Sessions |->
           IF s \in open
           THEN [IF s \in exits THEN Destroyed(sessions[s]) ELSE sessions[s] EXCEPT !.channel = "closed"]
           ELSE sessions[s]]
      /\ adapters' = [s \in Sessions |->
           IF adapters[s].channel = "open" THEN ChannelCloses(adapters[s]) ELSE adapters[s]]
      /\ orphans' = orphans \cup {a.of : a \in {b \in ToSet(answers) : b.op = "debugCreated"}}
      /\ stuck' = stuck \cup {s \in Sessions : /\ sessions[s].state = "shown"
                                               /\ sessions[s].channel = "opening"
                                               /\ OpenCall(s) \notin ToSet(waiting)}
      /\ UNCHANGED <<connection, stops>>

DebugNext ==
  \/ StartDebugging \/ DebugAnswer \/ DebugConnect \/ ServeDebug \/ DebugConnectionLost
  \/ \E s \in Sessions :
       \/ StopDebugging(s) \/ ExitTimesOut(s)
       \/ AdapterAnswers(s) \/ AdapterTerminates(s) \/ DebuggeeExits(s) \/ AdapterExits(s)

\* A broken connection is replaced (the last one is not broken), both ends handle
\* what arrives, timers fire, and an adapter answers or, once it is sent the signal,
\* exits.  Nobody has to start or stop anything, and no program has to end.
DebugFairness ==
  /\ WF_allDebugVars(DebugConnect) /\ WF_allDebugVars(DebugAnswer) /\ WF_allDebugVars(ServeDebug)
  /\ WF_allDebugVars(\E s \in Sessions : ExitTimesOut(s))
  /\ WF_allDebugVars(\E s \in Sessions :
       AdapterAnswers(s) \/ (adapters[s].signalled /\ AdapterExits(s)))

DebugSpec == DebugInit /\ [][DebugNext]_allDebugVars /\ DebugFairness
-----------------------------------------------------------------------------
(* Properties.                                                             *)

Commands == {"initialize", "launch", "restart", "terminate", "disconnect"}
Messages == [seq : Nat, command : Commands]

DebugTypeOK ==
  /\ sessions \in [Sessions ->
       [state : {"none", "shown", "destroyed"}, channel : {"opening", "open", "closed"},
        capabilities : SUBSET {"terminate", "restart"}, terminated : BOOLEAN, sequence : Nat,
        pendingRequests : SUBSET [seq : Nat, command : Commands, again : BOOLEAN],
        waits : SUBSET [seq : Nat, time : {"500", "1000"}, again : BOOLEAN],
        unsent : Seq(Messages)]]
  /\ adapters \in [Sessions ->
       [state : {"none", "running", "exited"}, channel : {"none", "open", "closed"},
        registered : BOOLEAN, signalled : BOOLEAN, input : Seq(Messages),
        said : SUBSET {"terminated", "exited"}]]
  /\ stops \in 0 .. MaxStops /\ orphans \subseteq Sessions /\ stuck \subseteq Sessions

\* Terminate or disconnect is under way.
Ending(s) ==
  \E p \in sessions[s].pendingRequests \cup sessions[s].waits :
    "command" \in DOMAIN p => p.command \in {"terminate", "disconnect"}

\* However answers, timeouts, exits and breaks cross, a session that is being ended,
\* or whose adapter has exited, is destroyed; but for one that has no channel or an
\* adapter nobody heard exit, and one whose adapter refused to terminate.
EndedIsDestroyed ==
  \A s \in Sessions :
    Ending(s) \/ (sessions[s].state = "shown" /\ adapters[s].state = "exited")
      ~> sessions[s].state = "destroyed" \/ s \in stuck

\* No adapter runs on without a session in the browser, but for one the browser was
\* never told of.
NoAdapterLeaks ==
  \A s \in Sessions : <>[](adapters[s].state = "running" =>
    sessions[s].state = "shown" \/ s \in orphans)
=============================================================================
