------------------------------- MODULE Tasks -------------------------------
(***************************************************************************)
(* Tasks over processes and terminals: TaskService in the browser, and     *)
(* TaskServerImpl, ProcessTaskRunner, ProcessTask and TaskManager in the   *)
(* backend, composed with the terminals.  A task of a shell is shown in a  *)
(* terminal widget that attaches to the terminal of the task.              *)
(*                                                                         *)
(* A task is named by the id of its process.  Notifications that only show *)
(* a message to the user are left out.                                     *)
(***************************************************************************)
EXTENDS Terminals

CONSTANTS Shells, Runs   \* uses of newTerminal and of runTask

ASSUME TasksAssumption ==
  /\ IsFiniteSet(Widgets) /\ Widgets = Shells \cup Runs /\ Shells \cap Runs = {}
  /\ NoOne \notin Widgets

VARIABLES
  run,     \* run -> "none", "asked", "launched" or "failed", in the browser
  kill,    \* run -> "none", "asked" or "settled", in the browser
  taskOf,  \* run -> the task that was launched, -1 if none
  tasks,   \* TaskManager: the running tasks
  caller,  \* process -> the run it is for and the connection that asked for it
  killer   \* task -> connection whose kill waits for its exit, 0 if none

taskVars == <<run, kill, taskOf, tasks, caller, killer>>
vars == <<proxyVars, processVars, widgetVars, taskVars>>

TaskKinds == {"terminal", "raw"}

Init ==
  /\ TerminalsInit
  /\ run = [r \in Runs |-> "none"] /\ kill = run /\ taskOf = [r \in Runs |-> -1]
  /\ tasks = {} /\ caller = [id \in Ids |-> [run |-> NoOne, connection |-> 0]]
  /\ killer = [id \in Ids |-> 0]

OpenShell(w) ==
  /\ Open(w, Create(w))
  /\ UNCHANGED <<connection, isOpen, connectionPromise, answers, processVars, taskVars>>

RunTask(r, kind) ==
  /\ run[r] = "none"
  /\ run' = [run EXCEPT ![r] = "asked"]
  /\ Call(<<Message(kind, r, -1)>>)
  /\ UNCHANGED <<connection, isOpen, connectionPromise, answers, processVars, widgetVars,
                 kill, taskOf, tasks, caller, killer>>

KillTask(r) ==
  /\ run[r] = "launched" /\ kill[r] = "none"
  /\ kill' = [kill EXCEPT ![r] = "asked"]
  /\ Call(<<Message("kill", r, taskOf[r])>>)
  /\ UNCHANGED <<connection, isOpen, connectionPromise, answers, processVars, widgetVars,
                 run, taskOf, tasks, caller, killer>>

\* runTask goes on after its await, and attaches a widget to a terminal; kill
\* goes on.
TaskAnswer ==
  LET a == Head(answers)
      r == a.of
  IN  /\ answers # <<>> /\ a.op \in {"terminalRan", "rawRan", "runFailed", "killSettled"}
      /\ answers' = Tail(answers)
      /\ run' = [run EXCEPT ![r] = CASE a.op = "runFailed" -> "failed"
                                     [] a.op = "killSettled" -> @
                                     [] OTHER -> "launched"]
      /\ kill' = IF a.op = "killSettled" THEN [kill EXCEPT ![r] = "settled"] ELSE kill
      /\ taskOf' = [taskOf EXCEPT ![r] = a.id]
      /\ IF a.op = "terminalRan"
         THEN Open(r, Attach(r, a.id))
         ELSE Call(<<>>) /\ UNCHANGED widgetVars
      /\ UNCHANGED <<connection, isOpen, connectionPromise, processVars, tasks, caller, killer>>

\* The terminals' listeners, and the rejection of the calls under way.
ConnectionLost ==
  /\ Lost
  /\ run' = [r \in Runs |-> IF run[r] = "asked" THEN "failed" ELSE run[r]]
  /\ kill' = [r \in Runs |-> IF kill[r] = "asked" THEN "settled" ELSE kill[r]]
  /\ UNCHANGED <<taskOf, tasks, caller, killer>>

-----------------------------------------------------------------------------
(* The backend.                                                            *)

\* The answer to a call of connection c, if it is still the one that is open.
Answer(c, message) == Notify(IF c = connection THEN <<message>> ELSE <<>>)

\* run: the runner spawns the process and waits for its start.
ServeRun ==
  LET c == Head(requests)
  IN  /\ requests # <<>> /\ c.op \in TaskKinds
      /\ Spawn(c.op)
      /\ caller' = [caller EXCEPT ![NextId] = [run |-> c.of, connection |-> connection]]
      /\ Serve(<<>>)
      /\ UNCHANGED <<widgetVars, run, kill, taskOf, tasks, killer>>

TaskStarted(id) ==
  /\ processes[id].kind \in TaskKinds
  /\ EmitOnStarted(id)
  /\ tasks' = tasks \cup {id}
  /\ Answer(caller[id].connection,
            Message(IF processes[id].kind = "raw" THEN "rawRan" ELSE "terminalRan",
                    caller[id].run, id))
  /\ UNCHANGED <<widgetVars, run, kill, taskOf, caller, killer>>

TaskFailed(id) ==
  /\ processes[id].kind \in TaskKinds
  /\ EmitOnError(id) \/ EmitThrown(id)
  /\ Answer(caller[id].connection, Message("runFailed", caller[id].run, -1))
  /\ UNCHANGED <<widgetVars, taskVars>>

\* Defect: the task stays listed.
KeptTasks(id) == tasks
\* TaskManager.delete
Deleted(id) == tasks \ {id}

\* The exit of the process: the task is deleted, and a kill that waits resolves.
TaskExited(id) ==
  /\ processes[id].kind \in TaskKinds
  /\ EmitOnExit(id)
  /\ tasks' = Deleted(id)
  /\ Answer(killer[id], Message("killSettled", caller[id].run, id))
  /\ killer' = [killer EXCEPT ![id] = 0]
  /\ UNCHANGED <<widgetVars, run, kill, taskOf, caller>>

\* kill: rejected at once if the task is not there, else it waits for the exit.
ServeKill ==
  LET c == Head(requests)
  IN  /\ requests # <<>> /\ c.op = "kill"
      /\ IF c.id \in tasks
         THEN /\ processes' = Killed(c.id)
              /\ killer' = [killer EXCEPT ![c.id] = connection]
              /\ Serve(<<>>)
         ELSE /\ Serve(<<Message("killSettled", c.of, c.id)>>)
              /\ UNCHANGED <<processes, killer>>
      /\ UNCHANGED <<widgetVars, failures, run, kill, taskOf, tasks, caller>>

Terminal ==
  \/ Reconnected \/ TerminalAnswer \/ ServeCreate \/ ServeTerminal
  \/ \E w \in Widgets : UserCloses(w)
  \/ \E id \in Ids : ShellEvent(id)

Next ==
  \/ Terminal /\ UNCHANGED taskVars
  \/ \E w \in Shells : OpenShell(w)
  \/ \E r \in Runs : KillTask(r) \/ \E kind \in TaskKinds : RunTask(r, kind)
  \/ TaskAnswer \/ ConnectionLost \/ ServeRun \/ ServeKill
  \/ \E id \in Ids : TaskStarted(id) \/ TaskFailed(id) \/ TaskExited(id)

Spec == Init /\ [][Next]_vars

Handled == (TerminalAnswer /\ UNCHANGED taskVars) \/ TaskAnswer
Served == ((ServeCreate \/ ServeTerminal) /\ UNCHANGED taskVars) \/ ServeRun \/ ServeKill
Reported(id) == (ShellEvent(id) /\ UNCHANGED taskVars) \/ TaskStarted(id) \/ TaskFailed(id)
                \/ TaskExited(id)

\* A broken connection is replaced (the last one is not broken), both ends
\* handle what arrives, the operating system starts a process or says that it
\* cannot, and a process that is sent the signal ends.  No other has to end.
Fairness ==
  /\ WF_vars(Reconnected /\ UNCHANGED taskVars) /\ WF_vars(Handled) /\ WF_vars(Served)
  /\ \A id \in Ids : WF_vars(Reported(id) /\ (processes[id].os = "running" =>
                                              processes[id].signalled))

FairSpec == Spec /\ Fairness
-----------------------------------------------------------------------------
(* Properties.                                                             *)

Messages == [op : {"create", "attach", "close", "stream", "kill", "created", "attached",
                   "streaming", "terminalGone", "terminalRan", "rawRan", "runFailed",
                   "killSettled"} \cup TaskKinds,
             of : Widgets \cup {NoOne}, id : Ids \cup {-1}]

\* Every variable keeps its type.
TypeOK ==
  /\ connection \in 0 .. MaxConnections /\ isOpen \in BOOLEAN
  /\ connectionPromise \in {0, connection}
  /\ waiting \in Seq(Messages) /\ requests \in Seq(Messages) /\ answers \in Seq(Messages)
  /\ processes \in [Ids -> [kind : {"none", "shell"} \cup TaskKinds,
        os : {"none", "spawned", "failing", "threw", "running", "dead"},
        killed : BOOLEAN, signalled : BOOLEAN, registered : BOOLEAN]]
  /\ failures \in 0 .. MaxFailures
  /\ widget \in [Widgets -> {"none", "shown", "disposed"}]
  /\ terminalId \in [Widgets -> Ids \cup {-1}] /\ stream \in [Widgets -> Ids \cup {-1}]
  /\ toReconnect \subseteq Widgets /\ strays \subseteq Ids
  /\ run \in [Runs -> {"none", "asked", "launched", "failed"}]
  /\ kill \in [Runs -> {"none", "asked", "settled"}] /\ taskOf \in [Runs -> Ids \cup {-1}]
  /\ tasks \subseteq Ids /\ killer \in [Ids -> 0 .. MaxConnections]
  /\ caller \in [Ids -> [run : Runs \cup {NoOne}, connection : 0 .. MaxConnections]]

\* However runs, kills, exits and breaks cross, the tasks that are listed are those
\* whose process runs, and a kill waits only for one of them.
ListedTasksRun ==
  /\ tasks = {id \in Ids : processes[id].kind \in TaskKinds /\ processes[id].os = "running"}
  /\ \A id \in Ids : killer[id] # 0 => id \in tasks

\* A shell that a widget shows is not killed: a close reaches only the terminal of
\* the widget that was closed, over any reconnection.
ShownNotKilled ==
  \A w \in Shown : LET id == terminalId[w] IN
    id # -1 /\ processes[id].kind = "shell" => ~processes[id].signalled

\* When all has come to rest, a widget that is shown is sent the output of its
\* terminal, whatever it went through; but for the terminal of a task that ended.
ShownIsServed ==
  \A w \in Widgets : <>[](widget[w] = "shown" =>
    \/ stream[w] = terminalId[w] /\ terminalId[w] # -1
    \/ terminalId[w] # -1 /\ processes[terminalId[w]].kind = "terminal"
                          /\ ~Registered(terminalId[w]))

\* No shell is left to run without a widget, but for those that nobody could know
\* of: created for a widget that was closed before, or for a call that was lost.
NoShellLeaks ==
  \A id \in Ids : <>[](processes[id].kind = "shell" /\ processes[id].os = "running" =>
    id \in strays \/ \E w \in Shown : terminalId[w] = id)

\* Every call that runs or kills a task settles.
TaskCallsSettle ==
  \A r \in Runs : /\ run[r] = "asked" ~> run[r] # "asked"
                  /\ kill[r] = "asked" ~> kill[r] # "asked"

=============================================================================
