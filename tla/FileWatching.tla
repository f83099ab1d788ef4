---------------------------- MODULE FileWatching ----------------------------
(***************************************************************************)
(* Watching files from the browser: FileSystemWatcher hands out handles,   *)
(* ReconnectingFileSystemWatcherServer keeps what is watched and asks each *)
(* new connection for it, and an NsfwFileSystemWatcherServer per           *)
(* connection runs the watchers and numbers them from 1.                   *)
(*                                                                         *)
(* A handle is a use of watchFileChanges by a service; a local id is a     *)
(* watcher of the reconnecting server.                                     *)
(***************************************************************************)
EXTENDS JsonRpcProxy, FiniteSets

CONSTANTS Handles, NoHandle,
          Missing,      \* handles whose path is not there at first
          MaxRestarts   \* bound: changes of files.watcherExclude

ASSUME WatchingAssumption ==
  /\ IsFiniteSet(Handles) /\ NoHandle \notin Handles /\ Missing \subseteq Handles
  /\ MaxRestarts \in Nat

Locals == 1 .. Cardinality(Handles) * (1 + MaxRestarts)

VARIABLES
  \* FileSystemWatcher
  handle,        \* "none", "asked", "held", "failed" or "disposed"
  toStop,        \* handle -> local ids its disposable unwatches
  toRestartAll,  \* local ids restarted when the preference changes
  \* ReconnectingFileSystemWatcherServer
  initialized,      \* the first connection has opened
  watcherSequence,
  watchParams,      \* local ids watched
  localToRemote,    \* local id -> id on the server, 0 if none
  owner,            \* local id -> the handle it watches for, with its path
  \* NsfwFileSystemWatcherServer, one per connection
  watchers,      \* [connection, id, local, state]
  exists,        \* handle -> its path is there
  \* history
  restarts,
  stolen         \* local ids whose watcher another's unwatch stopped

clientVars == <<handle, toStop, toRestartAll>>
localVars == <<initialized, watcherSequence, watchParams, localToRemote, owner>>
serverVars == <<watchers, exists>>
vars == <<proxyVars, clientVars, localVars, serverVars, restarts, stolen>>

WatchCall(l, first) == [op |-> "watch", local |-> l, first |-> first]
\* by is history: the local id whose unwatch it is.
UnwatchCall(remote, l) == [op |-> "unwatch", remote |-> remote, by |-> l]

Init ==
  /\ ProxyInit
  /\ handle = [h \in Handles |-> "none"] /\ toStop = [h \in Handles |-> {}]
  /\ toRestartAll = {}
  /\ initialized = FALSE /\ watcherSequence = 1 /\ watchParams = {}
  /\ localToRemote = [l \in Locals |-> 0] /\ owner = [l \in Locals |-> NoHandle]
  /\ watchers = {} /\ exists = [h \in Handles |-> h \notin Missing]
  /\ restarts = 0 /\ stolen = {}

-----------------------------------------------------------------------------
(* The browser.                                                            *)

\* Ids in the order they were given, which is that of the maps they are kept in.
Ascending(S) ==
  [i \in 1 .. Cardinality(S) |-> CHOOSE l \in S : Cardinality({k \in S : k <= l}) = i]

\* A collection of disposables is disposed of from its last.
LatestFirst(S) == Reverse(Ascending(S))

\* unwatchFileChanges for several local ids: the calls to send.
UnwatchCalls(ls) ==
  LET mapped == LatestFirst({l \in ls : localToRemote[l] # 0})
  IN  [i \in DOMAIN mapped |-> UnwatchCall(localToRemote[mapped[i]], mapped[i])]

\* Defect: the map forgets the local ids themselves.
Deleted(ls) == [l \in Locals \ ls |-> localToRemote[l]]
Unmapped(ls) == [l \in Locals |-> IF l \in ls THEN 0 ELSE localToRemote[l]]

\* watchFileChanges for the first time for a handle.
Watch(h) ==
  /\ handle[h] = "none"
  /\ handle' = [handle EXCEPT ![h] = "asked"]
  /\ watcherSequence' = watcherSequence + 1
  /\ watchParams' = watchParams \cup {watcherSequence}
  /\ owner' = [owner EXCEPT ![watcherSequence] = h]
  /\ Call(<<WatchCall(watcherSequence, TRUE)>>)
  /\ UNCHANGED <<connection, isOpen, connectionPromise, answers, toStop,
                 toRestartAll, initialized, localToRemote, serverVars, restarts, stolen>>

\* The disposable that watchFileChanges returned.
Dispose(h) ==
  /\ handle[h] = "held"
  /\ handle' = [handle EXCEPT ![h] = "disposed"]
  /\ toStop' = [toStop EXCEPT ![h] = {}]
  /\ watchParams' = watchParams \ toStop[h]
  /\ localToRemote' = Unmapped(toStop[h])
  /\ Call(UnwatchCalls(toStop[h]))
  /\ UNCHANGED <<connection, isOpen, connectionPromise, answers, toRestartAll,
                 initialized, watcherSequence, owner, serverVars, restarts, stolen>>

\* toRestartAll.dispose(): all are unwatched, and then watched anew by the
\* continuations of createWatchOptions; disposed handles are among them.
RestartAll ==
  LET old == LatestFirst(toRestartAll)
      new == [i \in DOMAIN old |-> watcherSequence + i - 1]
  IN  /\ restarts < MaxRestarts /\ toRestartAll # {}
      /\ restarts' = restarts + 1
      /\ toRestartAll' = {}
      /\ toStop' = [h \in Handles |-> toStop[h] \ toRestartAll]
      /\ watcherSequence' = watcherSequence + Len(old)
      /\ watchParams' = (watchParams \ toRestartAll) \cup ToSet(new)
      /\ localToRemote' = Unmapped(toRestartAll)
      /\ owner' = [l \in Locals |-> IF l \in ToSet(new)
                                    THEN owner[old[l - watcherSequence + 1]] ELSE owner[l]]
      /\ Call(UnwatchCalls(toRestartAll) \o [i \in DOMAIN new |-> WatchCall(new[i], TRUE)])
      /\ UNCHANGED <<connection, isOpen, connectionPromise, answers, handle,
                     initialized, serverVars, stolen>>

\* Defect: a later answer does not replace the id.
MappedOnce(a) == IF a.first THEN [localToRemote EXCEPT ![a.local] = a.remote] ELSE localToRemote
Mapped(a) == [localToRemote EXCEPT ![a.local] = a.remote]

\* doWatchFileChanges goes on: the id is mapped whether or not it is still
\* watched, and the first answer gives the handle its disposable.
Answered ==
  LET a == Head(answers)
      h == owner[a.local]
  IN  /\ answers # <<>> /\ a.op = "watched"
      /\ answers' = Tail(answers)
      /\ localToRemote' = Mapped(a)
      /\ IF a.first
         THEN /\ toStop' = [toStop EXCEPT ![h] = @ \cup {a.local}]
              /\ toRestartAll' = toRestartAll \cup {a.local}
              /\ handle' = [handle EXCEPT ![h] = IF @ = "asked" THEN "held" ELSE @]
         ELSE UNCHANGED clientVars
      /\ UNCHANGED <<connection, isOpen, connectionPromise, waiting, requests,
                     initialized, watcherSequence, watchParams, owner, serverVars,
                     restarts, stolen>>

\* Defect: nothing is watched anew.
ReconnectNone == <<>>
\* From the second connection on, reconnect asks for everything.
ReconnectCalls ==
  LET watched == Ascending(watchParams)
  IN  IF initialized THEN [i \in DOMAIN watched |-> WatchCall(watched[i], FALSE)] ELSE <<>>

Connect ==
  /\ Listen(ReconnectCalls)
  /\ initialized' = TRUE
  /\ UNCHANGED <<clientVars, watcherSequence, watchParams, localToRemote, owner,
                 serverVars, restarts, stolen>>

-----------------------------------------------------------------------------
(* The backend.                                                            *)

\* Defect: a disposal while nsfw starts is not noticed.
StoppedUnlessStarting(w) == [w EXCEPT !.state = IF @ = "starting" THEN @ ELSE "stopped"]

\* What becomes of a watcher whose DisposableCollection is disposed: one
\* that is being started is stopped by start, once it has started.
Disposed(w) ==
  [w EXCEPT !.state = IF @ \in {"starting", "disposing"} THEN "disposing" ELSE "stopped"]

Ids == {w.id : w \in {v \in watchers : v.connection = connection}}

\* Defect: a path that is not there is not polled.
GivesUpIfMissing(l) == IF exists[owner[l]] THEN "starting" ELSE "stopped"
\* start looks whether the path is there, and else polls.
StartState(l) == IF exists[owner[l]] THEN "starting" ELSE "polling"

ServeWatch ==
  LET c == Head(requests)
      id == Cardinality(Ids) + 1
  IN  /\ requests # <<>> /\ c.op = "watch"
      /\ watchers' = watchers \cup
           {[connection |-> connection, id |-> id, local |-> c.local,
             state |-> StartState(c.local)]}
      /\ Serve(<<[op |-> "watched", local |-> c.local, remote |-> id, first |-> c.first]>>)
      /\ UNCHANGED <<clientVars, localVars, exists, restarts, stolen>>

ServeUnwatch ==
  LET c == Head(requests)
      named == {w \in watchers : w.connection = connection /\ w.id = c.remote}
  IN  /\ requests # <<>> /\ c.op = "unwatch"
      /\ watchers' = (watchers \ named) \cup {Disposed(w) : w \in named}
      /\ stolen' = stolen \cup ({w.local : w \in named} \ {c.by})
      /\ Serve(<<>>)
      /\ UNCHANGED <<clientVars, localVars, exists, restarts>>

Became(w, s) == watchers' = (watchers \ {w}) \cup {[w EXCEPT !.state = s]}

\* start goes on after its awaits.
Started(w) ==
  /\ w.state \in {"starting", "disposing"}
  /\ Became(w, IF w.state = "disposing" THEN "stopped" ELSE "running")
  /\ UNCHANGED <<proxyVars, clientVars, localVars, exists, restarts, stolen>>

\* The timer of a watcher whose path was not there finds it.
Found(w) ==
  /\ w.state = "polling" /\ exists[owner[w.local]]
  /\ Became(w, "starting")
  /\ UNCHANGED <<proxyVars, clientVars, localVars, exists, restarts, stolen>>

PathAppears(h) ==
  /\ ~exists[h]
  /\ exists' = [exists EXCEPT ![h] = TRUE]
  /\ UNCHANGED <<proxyVars, clientVars, localVars, watchers, restarts, stolen>>

\* The connection closes: calls under way are rejected and their handles get
\* nothing, and the server of the connection is disposed of.
ConnectionLost ==
  LET lost == {l \in Locals : \E c \in ToSet(requests) :
                                c.op = "watch" /\ c.local = l /\ c.first}
              \cup {a.local : a \in {b \in ToSet(answers) : b.first}}
  IN  /\ Break /\ connection < MaxConnections
      /\ handle' = [h \in Handles |->
           IF handle[h] = "asked" /\ \E l \in lost : owner[l] = h THEN "failed" ELSE handle[h]]
      /\ watchers' = {IF w.connection = connection THEN Disposed(w) ELSE w : w \in watchers}
      /\ UNCHANGED <<toStop, toRestartAll, localVars, exists, restarts, stolen>>

Next ==
  \/ \E h \in Handles : Watch(h) \/ Dispose(h) \/ PathAppears(h)
  \/ RestartAll \/ Answered \/ Connect \/ ServeWatch \/ ServeUnwatch \/ ConnectionLost
  \/ \E w \in watchers : Started(w) \/ Found(w)

Spec == Init /\ [][Next]_vars

\* A broken connection is replaced (the last one is not broken), both ends handle
\* what arrives, nsfw starts, and the timer runs.  Nobody has to watch, restart or
\* dispose.
Fairness ==
  /\ WF_vars(Connect) /\ WF_vars(ServeWatch) /\ WF_vars(ServeUnwatch) /\ WF_vars(Answered)
  /\ WF_vars(\E w \in watchers : Started(w) \/ Found(w))

FairSpec == Spec /\ Fairness
-----------------------------------------------------------------------------
(* Properties.                                                             *)

Calls == [op : {"watch"}, local : Locals, first : BOOLEAN]
         \cup [op : {"unwatch"}, remote : Nat \ {0}, by : Locals]
WatcherStates == {"polling", "starting", "running", "disposing", "stopped"}

\* Every variable keeps its type.
TypeOK ==
  /\ connection \in 0 .. MaxConnections /\ isOpen \in BOOLEAN
  /\ connectionPromise \in {0, connection}
  /\ waiting \in Seq(Calls) /\ requests \in Seq(Calls)
  /\ answers \in Seq([op : {"watched"}, local : Locals, remote : Nat \ {0}, first : BOOLEAN])
  /\ handle \in [Handles -> {"none", "asked", "held", "failed", "disposed"}]
  /\ toStop \in [Handles -> SUBSET Locals] /\ toRestartAll \subseteq Locals
  /\ initialized \in BOOLEAN /\ watcherSequence \in Nat \ {0}
  /\ watchParams \subseteq Locals /\ localToRemote \in [Locals -> Nat]
  /\ owner \in [Locals -> Handles \cup {NoHandle}]
  /\ watchers \subseteq [connection : 1 .. MaxConnections, id : Nat \ {0},
                          local : Locals, state : WatcherStates]
  /\ exists \in [Handles -> BOOLEAN] /\ restarts \in 0 .. MaxRestarts /\ stolen \subseteq Locals

OfConnection(c) == {w \in watchers : w.connection = c}
Asked(l) == \E c \in ToSet(waiting) \cup ToSet(requests) : c.op = "watch" /\ c.local = l
Answering(l) == \E a \in ToSet(answers) : a.local = l
Registered(l) == \E w \in OfConnection(connection) :
                   w.local = l /\ w.state \in {"polling", "starting", "running"}

\* Over any breaks and reconnections, whatever is watched is registered with the
\* server of the open connection, or the call that registers it is on its way;
\* but for a watcher that another's unwatch named by a stale id.
NoneForgotten ==
  isOpen => \A l \in watchParams : Registered(l) \/ Asked(l) \/ l \in stolen

\* Once no watch call of it is under way, the id kept for a watcher is its own id
\* on the present server, and not one of a server that is gone.
MappedToOwn ==
  isOpen => \A l \in watchParams :
    localToRemote[l] # 0 /\ ~Asked(l) /\ ~Answering(l) =>
      \E w \in OfConnection(connection) : w.id = localToRemote[l] /\ w.local = l

\* However a server's disposal crosses the start of nsfw, no watcher polls or runs
\* for a connection that is closed.
ClosedServersSilent ==
  \A w \in watchers : w.state \in {"polling", "starting", "running"} =>
    isOpen /\ w.connection = connection

\* When breaks and restarts are over, the path of every handle that is held is
\* watched by a running watcher, if it is there and nobody stole its watcher.
HeldIsWatched ==
  \A h \in Handles : <>[](handle[h] = "held" /\ exists[h] =>
    \E l \in watchParams :
      /\ owner[l] = h
      /\ \/ l \in stolen
         \/ \E w \in OfConnection(connection) : w.local = l /\ w.state = "running")
=============================================================================
