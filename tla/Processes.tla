------------------------------ MODULE Processes ------------------------------
(***************************************************************************)
(* The child processes of the backend: RawProcess and TerminalProcess from *)
(* the spawn to the exit, and the ProcessManager that registers them.      *)
(***************************************************************************)
EXTENDS Integers, FiniteSets

CONSTANTS MaxProcesses,  \* bound: processes spawned
          MaxFailures    \* bound: processes that cannot be started

ASSUME ProcessesAssumption == MaxProcesses \in Nat /\ MaxFailures \in Nat

Ids == 0 .. MaxProcesses - 1

\* A shell is a terminal of ShellTerminalServer, "terminal" and "raw" are the
\* processes of tasks.
Kinds == {"shell", "terminal", "raw"}

VARIABLES processes,  \* id -> [kind, os, killed, signalled, registered]
          failures    \* history

processVars == <<processes, failures>>

NoProcess == [kind |-> "none", os |-> "none", killed |-> FALSE,
              signalled |-> FALSE, registered |-> FALSE]

ProcessesInit == processes = [id \in Ids |-> NoProcess] /\ failures = 0

Used == {id \in Ids : processes[id].kind # "none"}
\* Defect: the ids of processes that are gone are taken again.
RecycledId == CHOOSE id \in 0 .. MaxProcesses :
  /\ id \in Ids => ~processes[id].registered
  /\ \A i \in 0 .. id - 1 : processes[i].registered
NextId == Cardinality(Used)
Registered(id) == id \in Ids /\ processes[id].registered

\* The constructor: it registers the process and spawns it.  An executable
\* that is not there is reported by a later event ("failing"); spawn itself
\* may throw ("threw"), on Linux only for a RawProcess.
Spawn(kind) ==
  /\ NextId \in Ids
  /\ \E os \in {"spawned"} \cup (IF failures >= MaxFailures THEN {}
                                 ELSE {"failing"} \cup IF kind = "raw" THEN {"threw"} ELSE {}) :
       /\ processes' = [processes EXCEPT ![NextId] =
            [NoProcess EXCEPT !.kind = kind, !.os = os, !.registered = TRUE]]
       /\ failures' = failures + (IF os = "spawned" THEN 0 ELSE 1)

\* Defect: no signal is sent.
NotKilled(id) == processes
\* kill: only a process that is not killed is sent the signal.
Killed(id) ==
  IF processes[id].killed THEN processes
  ELSE [processes EXCEPT ![id].signalled = TRUE]

EmitOnStarted(id) ==
  /\ processes[id].os = "spawned"
  /\ processes' = [processes EXCEPT ![id].os = "running"]
  /\ UNCHANGED failures

\* The listener that unregisters comes first: it sees that handleOnError or
\* handleOnExit has marked the process as killed, and removes it.
Unregistered(id) ==
  [processes EXCEPT ![id].os = "dead", ![id].killed = TRUE, ![id].registered = FALSE]

EmitOnError(id) ==
  /\ processes[id].os = "failing"
  /\ processes' = Unregistered(id)
  /\ UNCHANGED failures

\* The error of a spawn that threw is fired without handleOnError: unregister
\* finds the process not killed, its kill fails for there is no child process,
\* and the process stays registered.
EmitThrown(id) ==
  /\ processes[id].os = "threw"
  /\ processes' = [processes EXCEPT ![id].os = "dead"]
  /\ UNCHANGED failures

EmitOnExit(id) ==
  /\ processes[id].os = "running"
  /\ processes' = Unregistered(id)
  /\ UNCHANGED failures
=============================================================================
