# Verification of Devpodio

Devpodio is a browser IDE: a TypeScript front end, a Node backend that serves it
over one web socket, and plugin hosts, language servers, terminals and debug
adapters behind the backend. This directory holds TLA+ models of its
concurrent parts, TLC configurations that check them on small instances, and
proofs that TLAPS checks for every value of the constants. Paths below are
relative to the repository's `src`.

## 1. The system

```
 browser                                   backend (Node)             child processes
 -------                                   --------------             ---------------
 services --JsonRpcProxy--+                +-- JsonRpcConnectionHandler -- services
 editor model (monaco)    |  one web       |   file system, watcher, processes, tasks
 connection status        +--- socket -----+   debug adapters, git, search
 plugin main side         |  channels      |   hosted plugin process --IPC-- plugin host
 terminal widget ---------+                +-- terminal process (MultiRingBuffer) -- pty
```

Browser services call backend services through JSON-RPC proxies. Each proxy has
a path, and each path a *channel*; all channels share one reconnecting web
socket. The plugin API is a second RPC protocol (`RPCProtocolImpl`), carried by
one of these channels as far as the backend and by the IPC of a child process
from there. JavaScript runs each handler to its end, so interleavings arise at
awaits, timers, callbacks and messages, never within a handler.

### Components

For each: where it is, its state and operations, what is hard about it, and what
makes it correct. Those with a module are named in bold.

**Plugin host RPC** (`packages/plugin-ext/src/api/rpc-protocol.ts`, wired in
`hosted/browser/hosted-plugin.ts` and `hosted/node/plugin-host.ts`).
State: call counter, pending `Deferred`s, running handlers, token sources by call
number, the multiplexer's queue. Operations: remote call, cancel, the flush by
`setImmediate`, receipt of each kind of message, settling of a handler. Hard:
all hosts answer over one stream and number their calls alike; cancel, request
and reply cross; the host process may end. Correct: an answer settles its own
call, once, as the handler ended; a cancel reaches its handler and no other; no
call is lost while the host lives.

**Web socket channels** (`packages/core/src/browser/messaging/ws-connection-provider.ts`,
`core/src/common/messaging/web-socket-channel.ts`,
`core/src/node/messaging/messaging-contribution.ts`). State: the browser's map of
channels, its listeners for the open event, the id counter; the backend's map per
socket; the flag of the ping interval. Operations: open, ready, data, close on
both sides, connection, loss and supervision of the socket. Hard: closes by
either side, the socket's events and reopenings cross; a half-open link is
noticed only by pings. Correct: a reconnecting path is served exactly once, data
arrive without a gap, channels go with their socket, good sockets are kept.

**Connection status** (`packages/core/src/browser/connection-status-service.ts`).
State: the status, the offline timer, the ping timer. Operations: any incoming
message, ping, answer, rejection, timers. Hard: they race, and each re-arms the
timers. Correct: online means heard within the timeout, offline means silent for
it, the loop of pings never ends.

**Text documents** (`packages/monaco/src/browser/monaco-editor-model.ts`,
`core/src/common/resource.ts`, `filesystem/src/browser/file-resource.ts`, the
content calls of `filesystem/src/node/node-filesystem.ts`). State: the text, the
dirty mark, changes not yet saved, the queue of saves and syncs and their
tokens, the stat of the resource, the file. Operations: edit, save, auto save,
sync, save participants, each call of the file system. Hard: everything is
asynchronous, edits cancel saves and syncs, other programs write the file.
Correct: a change is written once and to the text it was made in, nothing typed
is lost unseen, what others write is shown.

**Terminal output buffer** (`packages/process/src/node/multi-ring-buffer.ts`).
State: the ring with head and tail, the positions of any number of readers, the
streams among them. Operations: `enq`, `deq`, readers and streams opened and
closed. Hard: wrap-around, exact filling, overruns, streams that stop taking
data. Correct: the newest bytes are kept; each reader gets the kept bytes one after
the other, each once, and hears that nothing is left when it has them all.

**JSON-RPC proxies** (`core/src/common/messaging/proxy-factory.ts`). State: the promise
of a connection. A call waits for it; a disposed connection replaces it. Hard: a
call on a connection about to be disposed; calls that listeners of the new
connection make before those that waited are sent. Correct: each call settles,
calls made while disconnected are sent on the next connection, in order.

**File watching** (`filesystem/src/browser/filesystem-watcher.ts`,
`common/filesystem-watcher-protocol.ts`, `node/nsfw-watcher`). State: handles,
watcher ids on both sides and the map between them, the watchers of each
connection's server. Hard: watches made again after a reconnection while others
are taken back; watchers stopped while they start or wait for their path. Correct:
what is watched is reported, what is unwatched or whose browser is gone is stopped.

**Processes and terminals** (`process/src/node`, `terminal/src`) and **tasks**
(`task/src`). State: the registered processes, the widgets with the terminal each
shows and the stream it is sent, the running tasks. Operations: spawn, start,
fail, kill, exit; create, attach, reconnect, close; run and kill a task. Hard: exit,
close and reconnection in any order, calls lost with their connection. Correct:
what is listed runs, a widget shows the output of its own terminal, closing stops
that terminal and no other, every call of a task is answered.

**Git status watching** (`git/src/browser/git-repository-tracker.ts`, `git/src/common/git-watcher.ts`,
`git/src/node/dugite-git-watcher.ts`, `git-repository-watcher.ts`, `git-repository-manager.ts`).
State: the selection, handlers that await an answer, local and remote ids,
references to the watcher of a repository, its timer and polls. Hard: selections
overtake answers, reconnections change ids, syncs and polls start loops of
timers. Correct: what is watched is polled on, and the status of the selected
repository is shown.

**Plugin deployment and plugin hosts** (`plugin-ext/src/main/node/plugin-deployer-impl.ts`,
`hosted/node/hosted-plugin-deployer-handler.ts`, `plugin-service.ts`, `hosted-plugin.ts`,
`hosted-plugin-process.ts`, `hosted/browser/hosted-plugin.ts`). State: the one
deployer's entries, the deployed plugins and two deferreds, one host process per
connection, what the browser has loaded. Hard: deployments overlap over one
field; the connection closes while a host starts, stops or is asked to run; files
that do not unpack, plugins that throw. Correct: what is deployed is started, hosts
stop their plugins before they are killed and do not outlive their browser.

**Debug sessions** (`debug/src/browser/debug-session-manager.ts`, `debug-session.tsx`,
`debug-session-connection.ts`, `debug/src/node/debug-service-impl.ts`, `debug-adapter-session.ts`).
State: sessions with their channel, capabilities, pending requests and timeouts;
the adapter processes and those registered. Operations: create, initialize,
launch, terminate, disconnect, restart, the events that end a session, the loss of
the socket. Hard: exits, answers, two timeouts, stops and restarts cross, and each
may destroy the session. Correct: what ends is destroyed, and no adapter runs on.

*Worker processes over IPC* (`core/src/node/messaging/ipc-connection-provider.ts`,
`connection-error-handler.ts`). State: the child, the times of its restarts. Correct:
restarted after an exit unless it happened too often, and the errors counted.

*References, disposables, events, cancellation* (`core/src/common/reference.ts`, `disposable.ts`,
`event.ts`, `cancellation.ts`). `ReferenceCollection` creates values asynchronously
and disposes them with the last reference. Hard: a value disposed while someone
awaits it. Correct: one value per key, disposed exactly once, never handed out
disposed.

*Language clients* (`languages/src`): each starts a child process, attaches it to a
channel, and cleans up on exit, on close and on reload of the browser.

*Workspace, preferences, search, markers, user storage*: services over the
file system and child processes, with events that may overtake results.

*Widgets, shell, trees, commands, keymaps, menus, views*: state of the user
interface; *generators, command line, Electron, extension manager, logging,
metrics*: build time and I/O.

`PROJECT.json` lists all of them, and section 7 says why some are not modelled.

## 2. Modules

| module | models | extends | abstract specification | proofs |
|---|---|---|---|---|
| `RpcProtocol` | plugin host RPC | | `RemoteCall` | `RpcProtocolProofs` |
| `WsChannels` | web socket channels | | `ChannelSupply` | `WsChannelsProofs` |
| `ConnectionStatus` | connection status | | | `ConnectionStatusProofs` |
| `EditorModel` | text documents | | | `EditorModelProofs` |
| `MultiRingBuffer` | terminal output buffer | | `OutputLog` | with `Tasks` |
| `JsonRpcProxy` | JSON-RPC proxies | | | with each service |
| `FileWatching` | file watching | `JsonRpcProxy` | | `ServicesProofs` |
| `Processes` | processes and their registration | | | with `Tasks` |
| `Terminals` | terminals and their widgets | `JsonRpcProxy`, `Processes` | | with `Tasks` |
| `Tasks` | tasks | `Terminals` | | `TasksProofs` |
| `GitWatching` | git status watching | `JsonRpcProxy` | | `GitWatchingProofs` |
| `PluginDeployment` | plugin deployment | | | with `PluginHosts` |
| `PluginHosts` | plugin host lifecycle | `PluginDeployment`, `JsonRpcProxy` | | `PluginHostsProofs` |
| `DebugSessions` | debug sessions | `JsonRpcProxy` | | `ServicesProofs` |

The modules `MC...` and the `.cfg` files instantiate them. `TasksProofs` is about
what a terminal runs and what it shows: processes, terminals and tasks, and the
output buffer; `ServicesProofs` about the two services of the `services` run and,
through `MCServices`, about that run's own specification. An operator whose
comment says "defect" is a wrong version of the definition that follows it; none
is used by a specification. They document against which mistakes a property
guards.

### RpcProtocol

A protocol object is `<<side, host>>`: the browser has one for each host, and
each host has one. A batch that arrives in the browser goes to the inbox of *every*
browser-side object, as the shared emitter of `hosted-plugin.ts` does, and each
object filters on the host id. `Idle` says that no other code of a process runs
while a batch is being handled: the loop at rpc-protocol.ts:274-279 is
synchronous.

| code | action |
|---|---|
| `remoteCall` 101-136 | `RemoteCall`, `CancelCall` (the token's listener) |
| `RPCMultiplexer.send`, `sendAccumulated` | `Send`, `SendAccumulated` |
| `onmessage` and `receiveOneMessage` 139-171 | `ReceiveBatch`, `ReceiveOneMessage` and the operators it names |
| `receiveRequest` 173-200, its `then` | `ReceiveRequest`, `HandlerSettled` |
| exit of the child process | `HostExits` |

Arguments and results are represented by the identity of the call they belong
to, so that an answer taken for another's is seen. Kinds of methods: `finite`
(settles by itself), `untilCancelled` (waits for its token), `unknown` (no such
actor or method). Not modelled: `dispose`, proxies' caching, serialization of
errors and URIs.

`RemoteCall` is what a caller may rely on: a promise is settled once, after the
handler of that call ended, and as it ended. The protocol is checked to
implement it, with the message level hidden.

### WsChannels

Sessions are the successive connections of the socket. Breaking the link
(`LinkBreaks`) empties both directions; each end notices later and on its own
(`SocketClose`, `BackSocketClose`), the backend at the latest by a missed pong
(`CheckAlive`). The close listeners of a channel, which remove it, open it again
and dispose its connection, are one step, for they run synchronously. The
order in which waiting paths are opened is left open, which is more general than
the code. `ChannelSupply` says what the handler of a path sees: one channel after
the other, never one it had.

| code | action |
|---|---|
| `openChannel`, `doOpenChannel` | `Listen`, `NewChannels`, `OpenMessages` |
| socket events | `Connect`, `SocketOpen`, `SocketClose` |
| `handleMessage` of the channels | `OnMessage` |
| `handleChannels`, `checkAliveTimeout` | `OnMessageUp`, `BackSocketClose`, `CheckAlive` |
| services at either end | `ServiceSends`, `ServiceCloses`, `BackServiceSends`, `BackServiceCloses` |

### ConnectionStatus

Discrete time: a timer that is due fires before time goes on. The numbers are in
ticks (timeout 50, pings after 40 as `0.8 * offlineTimeout` gives, latency up to
9); only their order matters, and the proofs leave them open. The JSON-RPC call
under a ping waits while there is no connection and is rejected when one is
disposed.

### EditorModel

A text is a sequence of atoms, one for each edit, so that lost, repeated and
misplaced changes differ. Each write of the file has its own version: two writes
within the resolution of a modification time are not confused. The queue
`pendingOperation` is modelled as one, its head being the operation that runs, at
`phase`; an operation is `live` until its token is cancelled. Each phase ends at an
await of the code:

| code | action |
|---|---|
| `fireDidChangeContent`, `markAsDirty`, `doAutoSave` | `Type`, `TimerFires` |
| `save`, `scheduleSave`, `run` | `Save` and the ends of `SaveStep` and `SyncStep` |
| `doSync`, `readContents`, `resolveContent` | `SyncStep` |
| `FileResource.sync`, `isInSync` | `Watched`, `Probed` |
| `doSave`, save participants, `popContentChanges`, `Resource.save`, `trySaveContentChanges` | `SaveStep`, `ParticipantEdits`, `CallFails` |
| `updateContent`, `doSaveContents`, `setContent`, `createFile` | `SaveStep`, one phase per await |

`applyContentChanges` of the file system, which takes the changes one after the
other, is a recursive function. Reading and writing of the file within
`updateContent` are one step. Left out: disposal,
encodings, undo, deletions of ranges (an edit inserts at the beginning or the
end), directories.

Four history variables delimit what the code keeps: `dropped` (a save gave up and
forgot the changes it had popped), `stranded` (a cancelled save left edits of its
participants in a model that is not dirty), `alwaysOn` (auto save was never off),
and `unseen` (somebody else's text the model never had). See section 5.

### MultiRingBuffer

A byte is represented by its number in the order of writing. The specification is
`RingSpec`, with `RingInit` and `RingNext`. `inc`, `isWrapped`,
`sizeFrom`, `shouldIncPos`, `incTail` are the functions of the same names; `enq` is one
step with the synchronous `onData` of the streams, in which each stream that can
take more reads all there is. When `push` returns false is left to chance.

`OutputLog` is what a reader may rely on. Its `got` is all that a reader was ever
given, its `last` the last byte of that, or the last it need not get any more; a
read extends `got` by the run of bytes from the one after `last`, or from the oldest
kept if that is later, up to some byte, and `idle` are the readers that were given all. The
refinement maps `got` to the bytes `deq` returned, one after the other (the history
variable `got` of the ring), and `idle` to the readers whose position is -1: a byte
that is skipped, repeated or misplaced, within a chunk or between two, is not a step of the
log, nor is a reader told too early, or too late, that nothing is left. A closed
reader gets nothing more.

The code does not keep that for every reader (section 5). The history variable
`behind` holds those it may fail: readers that are in the middle of the kept bytes when
more is written (`MayBeLeft`), readers with bytes left when some are lost, and readers
that read a part of bytes that wrap, ending before the end of the buffer (`ReadsPart`). A
reader at the oldest byte while nothing is lost, and one that has read all, are not
among them, however much is written. `OutputLog` says in `Write` and `Leave` when a
reader may be left behind, and promises nothing afterwards.

### JsonRpcProxy

A proxy, the connection under it and the messages on their way, with no meaning
given to the calls: `FileWatching`, `Terminals`, `GitWatching`, `PluginHosts` and
`DebugSessions` extend it and do that. A call made while `connectionPromise` is
pending joins `waiting` (the `await` of proxy-factory.ts:229-251). When a
connection opens the listeners of `onDidOpenConnection` run first, but what they
call is sent after what waited, for their `then` is registered later (`Listen`).
Disposal of a connection drops what it carried and replaces the promise (`Break`).
Connections are the web socket's channels: all break together and are disposed
of. Over the pipes to a worker process a closed connection is *not* disposed of,
and the proxy keeps it (proxy-factory.ts:141); the model is not about that.

### FileWatching

| code | action |
|---|---|
| `FileSystemWatcher.watchFileChanges`, its disposable, `init` | `Watch`, `Dispose`, `RestartAll`, `Answered` |
| `ReconnectingFileSystemWatcherServer`, `reconnect` | `WatchCall`, `UnwatchCalls`, `Mapped`, `Connect`, `ReconnectCalls` |
| `NsfwFileSystemWatcherServer.watchFileChanges`, `unwatchFileChanges` | `ServeWatch`, `ServeUnwatch` |
| `start`, polling for a missing path, `dispose` | `Started`, `Found`, `Disposed`, `ConnectionLost` |

Maps are gone through in the order of their insertion, which is that of the ids in
them (`Ascending`); collections of disposables are disposed of from the last
(`LatestFirst`), in which order watchers are unwatched and restarted. This is the deployment without worker processes (`--no-cluster`), with one
`NsfwFileSystemWatcherServer` per connection that counts from 1. Left out: the
content of events, debouncing, ignore patterns.

### Processes, Terminals, Tasks

| code | action |
|---|---|
| `RawProcess`, `TerminalProcess`, `Process`, `ProcessManager` | `Spawn`, `EmitOnStarted`, `EmitOnError`, `EmitThrown`, `EmitOnExit`, `Killed` |
| `TerminalWidgetImpl.start`, `createTerminal`, `attachTerminal`, `connectTerminalProcess` | `Open`, `TerminalAnswer` |
| its `reconnectTerminalProcess`, `dispose` | `Reconnected`, `UserCloses` |
| `BaseTerminalServer`, `ShellTerminalServer`, `TerminalBackendContribution` | `ServeCreate`, `ServeTerminal`, `ShellEvent` |
| `TaskService.run`, `kill` | `RunTask`, `KillTask`, `TaskAnswer` |
| `TaskServerImpl`, `ProcessTaskRunner`, `ProcessTask`, `TaskManager` | `ServeRun`, `ServeKill`, `TaskStarted`, `TaskFailed`, `TaskExited` |

Process ids are those of the `ProcessManager`, counted up and never used again. An
exit of the operating system's process, the error of a spawn and a spawn that
throws are separate. `strays` holds the shells nobody can know of. Output is in
`MultiRingBuffer`; resizing, environment and problem matchers are left out.

### GitWatching

| code | action |
|---|---|
| `GitRepositoryTracker.init`, the handler of a selection | `Select`, `Deselect`, `InitReads`, `StatusAnswered`, `EventArrives` |
| `ReconnectingGitWatcherServer` | `WatchAnswered`, `Unwatched`, `Connect`, `ReconnectCalls` |
| `DugiteGitWatcherServer`, `GitRepositoryManager` | `ServeWatch`, `ServeUnwatch`, `Released`, `ConnectionLost`, `GitOperation` |
| `GitRepositoryWatcher.watch`, `sync`, `syncStatus` | `TimerFires`, `PollAnswers`, `PollFails`, `PollFindsNone`, `Scheduled`, `Cleared` |

The references of `GitRepositoryManager` are counted by who is `registered`. A
watcher that is disposed of while it polls goes on polling with nobody listening
(git-repository-watcher.ts:80); these loops are left out.

### PluginDeployment and PluginHosts

| code | action |
|---|---|
| `PluginDeployerImpl.deployMultipleEntries`, `resolvePlugins`, `applyFileHandlers`, `applyDirectoryFileHandlers`, `deployPlugins` | `StartDeploy`, `Resolved`, `NotResolved`, `Unpacked`, `NotUnpacked`, `AcceptAndDeploy` |
| `HostedPluginDeployerHandler.deployFrontendPlugins`, `deployBackendPlugins`, their readers | `MetadataRead`, `DeployStep`, `ServeMetadata`, `MetadataGoesOn` |
| browser `HostedPluginSupport.checkAndLoadPlugin`, `loadPlugins` | `CheckAndLoadPlugin`, `Load`, `LoadPlugins`, `LoadGoesOn` |
| `HostedPluginServerImpl`, backend `HostedPluginSupport` | `RunPluginServer`, `ServeMessage`, `ConnectionLost` |
| `HostedPluginProcess.runPluginServer`, `terminatePluginServer` | `NewHost`, `AskedToStop`, `BackendHears`, `HeardFrom`, `Terminated`, `HostExits` |
| the plugin host's `PluginManagerExtImpl.$init`, `$stopPlugin` | `HostHandles`, `Handled`, `Starts`, `MayThrow` |

The single list of entries in the deployer (plugin-deployer-impl.ts:124) is the
variable that overlapping deployments share. A host keeps the queue of messages
in both directions.

What may go wrong is counted by `failures`, and goes wrong as in the code:

- a resolver that rejects (plugin-deployer-impl.ts:121) or a file that cannot be
  unpacked (179) rejects the promise of its deployment, which is then `failed`: nothing of it
  is deployed, other files of it are still unpacked, and the browser, whose call is
  rejected, does not ask for the metadata;
- a plugin without readable metadata is passed over (`unreadable`), and the list is
  read on;
- a plugin that does not load is skipped by `$init`, and one that throws as it starts
  ends the loop over its batch (plugin-manager.ts:125-136); `$init` is then answered
  with an error, which the browser ignores. `Starts` lets any part of the batch be
  started, and `unstarted` notes the others, in a host or a worker;
- `$stopPlugin` throws with a plugin it stops (plugin-manager.ts:76-95), and keeps all
  as active. Its answer is an error, for which hosted-plugin-process.ts:101 has no
  handler: the host is not killed, and no later answer is waited for (`stopFailed`). The
  same comes of an error that is the late answer to the browser's first `$init`;
- a host exits by itself.

### DebugSessions

| code | action |
|---|---|
| `DebugSessionManager.start`, `doStart`, `DebugServiceImpl.createDebugSession` | `StartDebugging`, `ServeDebug`, `DebugAnswer` |
| `DebugSession.terminate`, `disconnect`, `exited`, `doRestart` | `Terminate`, `Restart`, `StopDebugging`, `Response`, `ExitTimesOut` |
| `DebugSessionConnection.doSendRequest`, `send`, `handleMessage` | `Requested`, `Becomes`, `DebugAnswer` |
| the `exited` event, `doDestroy`, `terminateDebugSession` | `Exited`, `Destroyed`, `ExitCalls`, `ServeDebug` |
| `DebugAdapterSessionImpl`, its process | `Says`, `Stopped`, `AdapterAnswers`, `AdapterTerminates`, `DebuggeeExits`, `AdapterExits` |
| loss of the channel at both ends | `DebugConnectionLost` |

`initialize`, `launch`, `restart`, `terminate` and `disconnect` are the requests
modelled; each is answered with success or failure. A refused `initialize` has no
capabilities and keeps `launch` from being sent (debug-session.tsx:244-262), a refused
`restart` changes nothing (333-340), a refused `launch` or `disconnect` ends the
session, a refused `terminate` leaves it (`stuck`). An adapter's exit is modelled by the close of its output, the one thing the backend
looks at (debug-adapter-session.ts:67). When the socket is lost, every session shown
tells the backend first that it is over; sessions whose restart waits for that exit
are created after these calls, for the wait goes on at a later turn.

## 3. Runs

Twelve runs, each for one question; some put two small instances in one run, told
apart by a variable of the MC module that never changes.

| run | instance | shows |
|---|---|---|
| `rpc` | two overlapping calls of any kind to a host that may exit; or a call to each of two hosts, one of which calls back | an answer settles its own call, nothing is lost, cancels arrive, `RemoteCall` is implemented, every call settles |
| `ws_channels` | two paths, three sockets, two closes; or one path, two sockets, data | a path is served exactly once, both ends agree on ids, no gap in the data, `ChannelSupply` is implemented |
| `ws_live` | two sockets, two closes, supervised, fair | half-open links are reaped, paths are served for good, services do not outlive their socket |
| `status` | timeout 50, ping after 40, latency up to 9, three pings | the status follows the silence, no false alarm, back online |
| `ring` | 3 bytes of room, 6 written, two readers, streams or not | the newest bytes are kept; what each reader was given, byte by byte, and when it is told that nothing is left is as `OutputLog` says |
| `ring_part` | the same | *violation*: a read gets more than it asked for |
| `editor` | two edits and any two of a save, a foreign write or deletion, a failing call; auto save on or off | changes are applied once and where they were made, unsaved text is shown, typed text is not overwritten, edits are written, foreign text is shown |
| `editor_overwrite` | the same | *violation*: foreign text overwritten unnoticed |
| `services` | two watches (one path missing at first), a restart of all, two connections; or a debug session that ends in two ways over two connections; or one that is restarted as another | what is watched is registered and in the end watched, ids are of the right server, closed servers are silent; sessions that end are destroyed, adapters do not leak |
| `tasks` | one task over three connections with a failing spawn; or two shells over two | listed tasks run, shown shells are not killed, widgets are served, shells do not leak, calls settle |
| `git` | two selections and a break; or one with two of a change, a git operation, a failure, a deletion, `init`, a break | polling goes on, the right status is shown in the end |
| `plugins` | two backend and one frontend plugin, three deployments over one connection; or two over three, or over two with one failure of any kind | plugins stop first, deployments deploy what they want, hosts end, loads are deployed |

`CHECK_DEADLOCK FALSE` throughout: an idle system stops when its bounds are used
up, and what has to go on is stated by the liveness properties.

### Bounds

Every bound is a constant named `Max...` and guards only actions of the
environment (users, the network, processes), never a handler; `MaxFailures` limits how
often a step goes wrong, never the step. They are the least
with which the interesting cases happen: two of whatever may be confused (calls,
hosts, paths, watchers, shells, repositories, sessions); one more connection than
breaks, so that stale ids of one connection meet fresh ids of the next; a third
connection or socket where a reaction to a break can itself be broken (`ws_channels`,
`tasks`, `plugins`); six bytes in three, so that the whole ring is overwritten; one
failure in `plugins`, any of those of section 2, for each is an exception of its own; three
pings, so that one overlaps another. In `editor`, `git`, `services`, `tasks` and
`plugins` not all that may happen does so in one behaviour: the MC modules bound the sum of the
unusual events and say how. In the `services` run at most one of the two handles is disposed of; the second
session of a restart only starts, and the first is stopped once by the user and
once by the adapter. Each property has been seen to fail when the code it is about is
changed to a plausible mistake, listed under `mutants`.

### Fairness

Weak fairness, of what the program or its runtime does by itself:

- messages that arrived are handled and timers fire (event loops of browser,
  backend and hosts);
- a broken connection is replaced, as the reconnecting web socket does; the last
  connection of the bound is not broken, which stands for a link that at last
  stays up;
- calls of the file system, resolvers, the unpacking of files and git end, well or
  badly; nsfw starts; the operating system starts a process or reports that it cannot;
- a process that was sent the signal ends, and a debug adapter answers requests, by success or failure;
- methods of plugins settle, those waiting for a token once it is cancelled.

Nobody has to type, save, open, close, select, deploy, stop or restart anything,
no other program writes a file, and no process that was left alone has to end.
Without fairness of the environment the liveness properties are false for trivial
reasons; no safety property uses it.

## 4. Proofs

Every safety property that a run checks, invariant or action property, and all
three refinements are proved, for *every* value of the constants. The type
invariants of the modules below are proved, and run only where another question
of the run needs them; `HostInUse` of `PluginHosts` is proved only. Assumptions are
the named `ASSUME`s of the modules: finiteness of sets, distinctness of null
values, bounds that are naturals, and for `ConnectionStatus`
`PingDelay + MaxLatency < offlineTimeout`. No proof uses fairness.

| module | theorem | inductive invariant |
|---|---|---|
| `RpcProtocolProofs` | `TypeCorrect`; `AnswersOwnCall`: `SettledByOwnCall` | `IdentityInv`: every message, handler and outcome carries the call number and the host id of the call it came from (`TrafficInv`, `HandlerInv`, `OutcomeInv`, `HostIdInv`). Needed because the numbers alone coincide |
| | `NothingLost`: `PendingIsSomewhere` | `CallInv`: the request, the handler or the answer of a pending call is somewhere (`KeptInv`), once (`OnceInv`), and agrees with how far the call has come (`StageInv`, `NumbersInv`) |
| | `CancelsArrive`: `CancelReachesHandler` | `CancelInv`, part of `CallInv`: a cancel never stands before the request it is about, in any queue, batch or inbox, and finds the token source of the handler; until it is handled it is on its way |
| | `ImplementsRemoteCall`: `RemoteCallSpec` | the two above: each step settles one call by the outcome its handler had, or changes nothing a caller sees |
| `WsChannelsProofs` | `TypeCorrect`; `EachServedOnce`; `BothEndsAgree` | `IInv`: type, each reconnecting path at one place (`Placed`), each id given out once (`Taken`), ends agree on what is on the wire, too (`Agree`) |
| | `DataArriveInOrder`: `NoGap` | `DataInv`: each id has one channel at each end (`Lone`, `OwnIds`, `Unused`), no data before the open and the ready (`Opening`, `Announced`), and per direction what is received and what is on the wire are all that was sent, in order (`DownLane`, `UpLane`) |
| | `SuppliesOneByOne`: `SuppliesChannels` | `SupplyInv`: a path has one channel (`Single`), the latest it was given (`Latest`), out of as many ids as are followed (`Counted`) |
| `ConnectionStatusProofs` | `TypeCorrect`; `StatusFollowsSilence`; `PingLoop`; `NoFalseAlarms` | `TimerInv`: the timer and the silence add up to the timeout; `PingInv`: on a good link the next ping or its answer comes in time |
| `EditorModelProofs` | `TypeCorrect`; `EditsShown`: `UnsavedIsShown` | the queue of operations is well formed (`QueueOK`), `OnWhileAlwaysOn`, and what the head of the queue took (`Shown`, `TookAll`) |
| | `TextKept`: `TextIsFileAndChanges` | `TextInv`: in each phase of a save or sync the file and what is not yet written are the text it held (`HeldText`, `ReadText`); a model that is not dirty has no changes left (`CleanTaken`). Needs that changes applied one after the other are those applied together |
| | `TypedKept`: `TypedNotOverwritten` | `TypedInv`: what was typed is written or among the changes (`Waiting`), which make the model dirty and are in its text (`TypedDirty`, `WaitingShown`, `HeldShown`) |
| `TasksProofs` | `TypeCorrect`; `OnlyRunningListed`; `ShownNeverKilled` | `IInv`: ids are consecutive (`Numbered`), `ListedTasksRun`, and a shell is in one place alone: to be created, answered, shown by one widget, or closed (`Owned`) |
| | `RingTypeCorrect`; `NewestKept`: `KeepsNewest` | `RingInv`: head, tail and the contents are those of the last bytes written |
| | `EveryByteOnce`: `ImplementsLog` | `ReadersInv`: a reader that is not left behind stands at the byte after the last it got, at the oldest kept if that is later, and has nothing to read exactly when it got all; then what `deq` returns is the run of bytes the log continues with, and the position it leaves is the one after that run. A stream reads as often as it can take more (`deqs`, a recursive function): by a least number of reads at which this would fail |
| `GitWatchingProofs` | `TypeCorrect`; `PollingNeverStops` | type and the property, which is inductive with it |
| `PluginHostsProofs` | `TypeCorrect`; `TheHostInUse`; `KilledAfterStop`; `UndisturbedDeploys` | `DeployInv`: a lone deployment owns the entries (`Solo`, `Kept`, `StartsFirst`); `HostInv`: what is queued between backend and host (`HostsFine`), and which host belongs to whom (`Owners`, `InUse`); `Connected` |
| `ServicesProofs` | `TypeCorrect`; `NothingForgotten`; `IdsAreOfThePresentServer`; `GoneServersAreSilent` | `WatchingInv`: nothing is under way without a connection (`LinkOK`), each local id is asked for once (`AskedOnce`) and by one handle (`OwnersOK`), so that they never run out (`Counted`); answers name watchers of the present server (`AnswersNameWatchers`); and the three properties |
| | `DebugTypesCorrect`; `SessionsBeginOnce` | `DebugInv`: the sessions spawned, asked for or owed to a restart are at most those there is room for (`Owed`), wherever in the queues, requests and waits a restart is; adapters take the next number (`InOrder`), are announced once (`CreatedOnce`), and the first answer alone brings the capabilities (`SessionsKnown`). Needed because the guards count only what is asked for when they are evaluated |
| | `TypesCorrect`: `TypesOK` | `WatchingInv` or `DebugInv`, whichever service is in use |

Each is proved action by action: one step per disjunct of `Next`, under it one
per conjunct it disturbs, and the temporal step by PTL. The ring and the numbers
of queued calls are counted with `FiniteSetTheorems`; what a sequence has after
`Append`, `Tail` and `\o` is in lemmas at the head of each module.

Model-checked only: the liveness properties (`CallSettles`, `HalfOpenReaped`,
`ServedForGood`, `NoOrphan`, `BackOnline`, `EditsWritten`, `ForeignShown`,
`HeldIsWatched`, `EndedIsDestroyed`, `NoAdapterLeaks`, `ShownIsServed`,
`NoShellLeaks`, `TaskCallsSettle`, `StatusShown`, `HostsEnd`, `LoadsDeployed`): they rest
on fairness and `ENABLED`, which is out of the prover's reach. The two expected
violations, `AtMostAsked` and `NoticedBeforeOverwrite`, are false, and TLC shows how.

## 5. What the models show

Two runs expect a violation:

- `ring_part`: when the unread bytes wrap, `deq(reader, size)` returns all up to the end
  of the buffer even if fewer were asked for (multi-ring-buffer.ts:204-209), while
  the position moves by the size asked for. A stream repeats bytes that way.
- `editor_overwrite`: `doSaveContents` passes the stat it has just asked for
  (file-resource.ts:89-95), so the backend never sees that the file changed since
  the text was read, and `shouldOverwrite` is not called.

Further deviations met while modelling are in the models as they are in the code.
Where a property would fail on them its premise names a history variable:

| what the code does | where | in the models |
|---|---|---|
| a write may set a reader in the middle of the kept bytes back to the tail, and leave one whose next bytes it overwrites where it is | multi-ring-buffer.ts:319 | `behind` |
| a partial read of bytes that wrap returns more than it moves by | multi-ring-buffer.ts:204 | `behind` |
| a save that gives up forgets the changes it popped | monaco-editor-model.ts:334 | `dropped` |
| a cancelled save leaves its participants' edits in a clean model | monaco-editor-model.ts:392 | `stranded` |
| a browser that never heard the backend stays online | connection-status-service.ts:148 | premise `heard` |
| a path no handler takes is not answered; the channel stays open | messaging-contribution.ts:130 | premise `Known` |
| after a reconnection an unwatch may name another's watcher by an old id | filesystem-watcher-protocol.ts:112, git-watcher.ts:118 | `stolen` |
| a disposed handle is watched again by a restart of all watchers | filesystem-watcher.ts:168 | `RestartAll` |
| a task that ended before its widget attached gets a new shell | terminal-widget-impl.ts:263 | premise of `ShownIsServed` |
| a process whose spawn throws stays registered | raw-process.ts:139 | `EmitThrown` |
| a shell whose close, or the answer to its creation, is lost runs on | terminal-widget-impl.ts:406 | `strays` |
| after a quick second selection the status of the first may be shown | git-repository-tracker.ts:46 | `overtaken` |
| overlapping deployments lose plugins | plugin-deployer-impl.ts:124 | `overlapped` |
| a host is killed before it stopped its plugins if it owed an answer numbered alike | hosted-plugin-process.ts:92 | `owedFirst` |
| a host is run for a connection that is closed, and nobody ends it | plugin-service.ts:68 | `late` |
| a host whose plugins throw as they are stopped, or whose late first answer is an error, is never killed | hosted-plugin-process.ts:101, plugin-manager.ts:76 | `stopFailed` |
| a plugin that throws at its start keeps the rest of its batch from starting, for good: all are noted as loaded | plugin-manager.ts:132, browser hosted-plugin.ts:186 | `unstarted` |
| one file that cannot be unpacked, or one resolver that rejects, drops the whole deployment | plugin-deployer-impl.ts:121, 179 | phase `failed` |
| plugins are not started anew after a reconnection, and may be started twice if two loads wait | browser hosted-plugin.ts:186 | premise of `LoadsDeployed` |
| a debug session whose channel is lost before it is ready, whose adapter exits before the channel opens, or refuses to terminate, stays | debug-session.tsx:296, debug-adapter-session.ts:67 | `stuck` |
| a debug adapter whose id is lost with the connection runs on: `DebugServiceImpl.dispose` is not called | debug-session-manager.ts:130 | `orphans` |
| a restart whose request is pending when the session exits is forgotten | debug-session-connection.ts:112 | `Destroyed` |

Besides: a call to a plugin host that has exited stays pending
(rpc-protocol.ts:129); a restarted worker process gets no calls, for the proxy
keeps the closed connection (proxy-factory.ts:141).

## 6. Plan

Done, in this order: the two transports (RPC, channels), connection status, the
output buffer, the editor model; then the proxies and the services over them:
file watching, terminals and tasks, git status, plugin deployment and hosts,
debug sessions.

The proofs follow: all safety properties of the runs and all refinements, section 4.

Next:

1. safety parts of the liveness properties, to be proved where liveness cannot be,
   such as that a shell which is not in `strays` is shown, announced or about to be
   closed;
2. worker processes over IPC as another kind of connection of `JsonRpcProxy`, then
   `FileWatching` over them;
3. references created asynchronously (`ReferenceCollection`, reference.ts:79), whose
   users are the editor models;
4. preferences (providers by scope, order of change events), search (cancelled
   searches and late results) and language clients, as instances that share a run
   with a service they resemble.

## 7. Not modelled

The share of the implementation that is modelled is small, as most of the
repository's lines are of a kind a state machine says nothing about:

- *views* (shell, widgets, trees, SCM, debug and outline views, navigator, menus,
  keymaps, theming): rendering of state held elsewhere, in one thread, most of it
  Phosphor's or React's;
- *adapters* (the plugin API's main and plugin sides, converters to monaco's and the
  language server protocol's types, `types-impl.ts`, `plugin-api.ts`): one call turned
  into another, carried by `RpcProtocol`; interfaces without behaviour;
- *single calls of libraries* (file system operations besides contents, git commands
  by dugite, downloads, npm): checks and one call; concurrency is the library's;
- *start-up, build time and output* (generators, command line, electron, logging,
  metrics, extension manager);
- *examples, tests, documentation*.

With state of their own and left out so far: worker processes over IPC,
asynchronous references, preferences, workspace and user storage, search,
language clients, editor navigation, breakpoints. They are in the plan, or are
sequential and small. Within the modelled components what is left out is listed
with each module in section 2 and with each component in `PROJECT.json`; the
status there is "partly" wherever an operation that changes state is missing.
