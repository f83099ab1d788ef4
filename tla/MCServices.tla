----------------------------- MODULE MCServices -----------------------------
\* Either files are watched, or one debug session ends in up to two ways over a
\* connection that may break, or a debug session is restarted once.
EXTENDS FileWatching, DebugSessions

VARIABLE uses

MCInit == Init /\ DebugInit /\ uses \in {"files", "session", "restart"}

\* One of the two handles is disposed of, which may stop the other's watcher too.
OneDisposed == Cardinality({h \in Handles : handle'[h] = "disposed"}) <= 1

\* The user, the adapter and the program ask for up to two ends in all.
OneSession == Ordered' <= 1 /\ stops' + Cardinality(adapters'[1].said) <= 2
\* The user and the adapter may each end the first session, to restart it or not.
\* The second session is the first one restarted, and only starts; an adapter
\* that can restart by itself is left to OneSession.
Restarted ==
  /\ stops' <= 1 /\ "exited" \notin adapters'[1].said /\ (connection = 1 => isOpen')
  /\ (StartDebugging => sessions[1].state = "none")
  /\ \A s \in Sessions : "restart" \notin sessions'[s].capabilities
  /\ sessions'[2].capabilities = {} /\ adapters'[2].said = {} /\ adapters'[2].state # "exited"
  /\ \A p \in sessions'[2].pendingRequests : p.command \in {"initialize", "launch"}

MCNext ==
  /\ UNCHANGED uses
  /\ \/ uses = "files" /\ Next /\ OneDisposed /\ UNCHANGED debugVars
     \/ /\ uses # "files"
        /\ DebugNext /\ UNCHANGED <<clientVars, localVars, serverVars, restarts, stolen>>
        /\ IF uses = "session" THEN OneSession ELSE Restarted

\* The types of both, of the calls of the one that is used.
TypesOK == DebugTypeOK /\ (uses = "files" => TypeOK)

MCSpec == MCInit /\ [][MCNext]_<<vars, debugVars, uses>> /\ Fairness /\ DebugFairness
=============================================================================
