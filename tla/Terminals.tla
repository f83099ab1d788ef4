------------------------------ MODULE Terminals ------------------------------
(***************************************************************************)
(* Terminal widgets over terminals: TerminalWidgetImpl in the browser,     *)
(* BaseTerminalServer, ShellTerminalServer and TerminalBackendContribution *)
(* in the backend.  A widget creates a shell or attaches to a process that *)
(* is there, opens a stream of its output, and does so anew whenever the   *)
(* connection is replaced.                                                 *)
(*                                                                         *)
(* The web socket's channels for the calls, the tasks and the streams open *)
(* and break together and are one connection here.                         *)
(***************************************************************************)
EXTENDS JsonRpcProxy, Processes

CONSTANTS Widgets, NoOne

VARIABLES
  widget,       \* widget -> "none", "shown" or "disposed"
  terminalId,   \* widget -> id of its terminal, -1 if none
  toReconnect,  \* widgets that start anew when the connection opens
  stream,       \* widget, if shown -> id of the terminal whose output it is sent, else -1
  strays        \* history: terminals whose widget was gone, or whose close or answer was lost

widgetVars == <<widget, terminalId, toReconnect, stream, strays>>

Message(op, of, id) == [op |-> op, of |-> of, id |-> id]
Create(w) == Message("create", w, -1)
Attach(w, id) == Message("attach", w, id)

TerminalsInit ==
  /\ ProxyInit /\ ProcessesInit
  /\ widget = [w \in Widgets |-> "none"] /\ terminalId = [w \in Widgets |-> -1]
  /\ toReconnect = {}
  /\ stream = [w \in Widgets |-> -1] /\ strays = {}

Shown == {w \in Widgets : widget[w] = "shown"}

\* A widget is opened and started, with a terminal to create or to attach to.
Open(w, startCall) ==
  /\ widget[w] = "none"
  /\ widget' = [widget EXCEPT ![w] = "shown"]
  /\ Call(<<startCall>>)
  /\ UNCHANGED <<terminalId, toReconnect, stream, strays>>

Disposed(ws) == [w \in Widgets |-> IF w \in ws THEN "disposed" ELSE widget[w]]

\* dispose, of a user's or for a terminal that is gone: the terminal is closed,
\* if the widget knows its id by now; a start under way goes on.
DisposedWidgets(ws) ==
  /\ widget' = Disposed(ws)
  /\ toReconnect' = toReconnect \ ws
  /\ stream' = [w \in Widgets |-> IF w \in ws THEN -1 ELSE stream[w]]
  /\ UNCHANGED <<terminalId, strays>>

\* Defect: the terminal is not closed.
NoCloseCalls(ws) == <<>>
CloseCalls(ws) ==
  LET of == SetToSeq(ws) IN [i \in DOMAIN of |-> Message("close", of[i], terminalId[of[i]])]

UserCloses(w) ==
  /\ widget[w] = "shown"
  /\ DisposedWidgets({w})
  /\ Call(CloseCalls({w}))
  /\ UNCHANGED <<connection, isOpen, connectionPromise, answers, processVars>>

\* A message of the backend for the terminals arrives.
TerminalAnswer ==
  LET a == Head(answers)
      w == a.of
      gone == {v \in Shown : terminalId[v] = a.id}
  IN  /\ answers # <<>> /\ a.op \in {"created", "attached", "streaming", "terminalGone"}
      /\ answers' = Tail(answers)
      /\ \/ /\ a.op \in {"created", "attached"} /\ a.id # -1
            /\ terminalId' = [terminalId EXCEPT ![w] = a.id]
            /\ stream' = [stream EXCEPT ![w] = -1]
            /\ strays' = IF widget[w] = "shown" THEN strays ELSE strays \cup {a.id}
            /\ Call(<<Message("stream", w, a.id)>>)
            /\ UNCHANGED <<widget, toReconnect>>
         \* attachTerminal: the terminal is most likely gone, start a new one
         \/ /\ a.op = "attached" /\ a.id = -1
            /\ Call(<<Create(w)>>)
            /\ UNCHANGED widgetVars
         \/ /\ a.op = "streaming"
            /\ stream' = IF widget[w] = "shown" THEN [stream EXCEPT ![w] = a.id] ELSE stream
            /\ Call(<<>>)
            /\ UNCHANGED <<widget, terminalId, toReconnect, strays>>
         \/ /\ a.op = "terminalGone"
            /\ DisposedWidgets(gone)
            /\ Call(CloseCalls(gone))
      /\ UNCHANGED <<connection, isOpen, connectionPromise, processVars>>

\* Defect: nothing is attached again.
NoReconnectCalls == <<>>
\* onDidOpenConnection: reconnectTerminalProcess of the widgets that wait.
ReconnectCalls ==
  LET of == SetToSeq(toReconnect) IN [i \in DOMAIN of |-> Attach(of[i], terminalId[of[i]])]

Reconnected ==
  /\ Listen(ReconnectCalls)
  /\ toReconnect' = {}
  /\ UNCHANGED <<widget, terminalId, stream, strays, processVars>>

\* onDidCloseConnection: starts under way are rejected, their terminals, if
\* created, known to nobody; a close under way is never repeated; what is shown
\* waits for the next connection.
Lost ==
  /\ Break /\ connection < MaxConnections
  /\ toReconnect' = Shown
  /\ stream' = [w \in Widgets |-> -1]
  /\ strays' = strays \cup {a.id : a \in {b \in ToSet(answers) : b.op = "created"}}
                      \cup {c.id : c \in {d \in ToSet(requests) : d.op = "close" /\ d.id # -1}}
  /\ UNCHANGED <<widget, terminalId, processVars>>

\* Events reach the clients connected at the time.
Notify(messages) ==
  /\ answers' = IF isOpen THEN answers \o messages ELSE answers
  /\ UNCHANGED <<connection, isOpen, connectionPromise, waiting, requests>>

ServeCreate ==
  LET c == Head(requests)
  IN  /\ requests # <<>> /\ c.op = "create"
      /\ Spawn("shell")
      /\ Serve(<<Message("created", c.of, NextId)>>)
      /\ UNCHANGED widgetVars

ServeTerminal ==
  LET c == Head(requests)
  IN  /\ requests # <<>> /\ c.op \in {"attach", "close", "stream"}
      /\ \/ /\ c.op = "attach"
            /\ Serve(<<Message("attached", c.of, IF Registered(c.id) THEN c.id ELSE -1)>>)
            /\ UNCHANGED processes
         \/ /\ c.op = "close"
            /\ Serve(<<>>)
            /\ processes' = IF Registered(c.id) THEN Killed(c.id) ELSE processes
         \/ /\ c.op = "stream"
            /\ Serve(IF Registered(c.id) THEN <<Message("streaming", c.of, c.id)>> ELSE <<>>)
            /\ UNCHANGED processes
      /\ UNCHANGED <<widgetVars, failures>>

\* The listeners of postCreate report the end of a shell to the clients.
ShellEvent(id) ==
  /\ processes[id].kind = "shell"
  /\ \/ EmitOnStarted(id) /\ UNCHANGED proxyVars
     \/ /\ EmitOnError(id) \/ EmitOnExit(id)
        /\ Notify(<<Message("terminalGone", NoOne, id)>>)
  /\ UNCHANGED widgetVars
=============================================================================
