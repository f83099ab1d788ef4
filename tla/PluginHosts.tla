----------------------------- MODULE PluginHosts -----------------------------
(***************************************************************************)
(* The life of the plugin hosts: the browser's HostedPluginSupport asks    *)
(* the backend for the deployed plugins, which starts a plugin host for    *)
(* the connection, and has the host, or a worker of its own, start them.   *)
(* The backend's HostedPluginSupport and HostedPluginProcess belong to a   *)
(* connection; when it closes, the host is asked to stop its plugins and   *)
(* is then killed.                                                         *)
(*                                                                         *)
(* One proxy stands for those of the plugin server and the hosted plugin   *)
(* server.  Of the calls to a host the model has $init and $stopPlugin; a  *)
(* plugin may not load, and its start or stop may throw.                   *)
(***************************************************************************)
EXTENDS PluginDeployment, JsonRpcProxy

CONSTANT Startup  \* the deployment the backend makes as it starts

ASSUME HostsAssumption == Startup \in Deploys

Connections == 1 .. MaxConnections

VARIABLES
  \* HostedPluginSupport of the browser
  initialized,    \* checkAndLoadPlugin was called
  theiaReady,     \* theiaReadyPromise is resolved
  loads,          \* filtered plugins of the calls of loadPlugins that wait for it
  loadedPlugins,
  callId,         \* calls made over the RPC protocol to the hosts
  \* backend, per connection
  isPluginProcessRunning,
  childProcess,   \* index in hosts, 0 for none
  metadataCalls,  \* getDeployedMetadata under way: [connection, awaits]
  asker,          \* deployment -> the connection that asked for it, 0 for none
  \* the processes
  hosts,
  \* history
  runs,           \* plugin -> how often it was started
  unstarted,      \* plugins of a $init that ended without starting them
  overlapped      \* deployments that were prepared while another was

browser == <<initialized, theiaReady, loads, loadedPlugins, callId>>
support == <<isPluginProcessRunning, childProcess, metadataCalls>>
vars == <<deploymentVars, failures, proxyVars, browser, support, asker, hosts,
          runs, unstarted, overlapped>>

DeployCall(d) == [op |-> "deploy", deploy |-> d]
MetadataCall == [op |-> "metadata"]
\* onMessage with a call of $init.
InitCall(n, ps) == [op |-> "message", call |-> n, plugins |-> ps]

InitMessage(n, ps) == [type |-> "init", call |-> n, plugins |-> ps]
\* The stop is the first call of a second protocol on the same process.
StopMessage == [type |-> "stop", call |-> 1, plugins |-> {}]
Reply(m, ok) == [type |-> m.type, call |-> m.call, ok |-> ok]

Open(c) == isOpen /\ connection = c

Init ==
  /\ DeploymentInit /\ ProxyInit
  /\ initialized = FALSE /\ theiaReady = FALSE /\ loads = <<>> /\ loadedPlugins = {}
  /\ callId = 0
  /\ isPluginProcessRunning = [c \in Connections |-> FALSE]
  /\ childProcess = [c \in Connections |-> 0]
  /\ metadataCalls = {} /\ asker = [d \in Deploys |-> 0]
  /\ hosts = <<>>
  /\ runs = [x \in Plugins |-> 0] /\ unstarted = {} /\ overlapped = {}

-----------------------------------------------------------------------------
(* The browser.                                                            *)

\* initPlugins, at the start of the page.
CheckAndLoadPlugin ==
  /\ ~initialized
  /\ initialized' = TRUE
  /\ Call(<<MetadataCall>>)
  /\ UNCHANGED <<deploymentVars, connection, isOpen, connectionPromise, answers,
                 theiaReady, loads, loadedPlugins, callId, support, asker, hosts,
                 failures, runs, unstarted, overlapped>>

\* The user picks a plugin of the deploy command.
AskDeploy(d) ==
  /\ initialized /\ d # Startup /\ phase[d] = "none"
  /\ DeployCall(d) \notin ToSet(waiting) \cup ToSet(requests)
  /\ Call(<<DeployCall(d)>>)
  /\ UNCHANGED <<deploymentVars, connection, isOpen, connectionPromise, answers,
                 browser, support, asker, hosts, failures, runs, unstarted, overlapped>>

\* $init of PluginManagerExtImpl with plugins ps starts some of them.  A plugin that
\* does not load is passed over; one whose start throws is the last.
Starts(ps, started) ==
  /\ runs' = [x \in Plugins |-> IF x \in started THEN runs[x] + 1 ELSE runs[x]]
  /\ unstarted' = unstarted \cup (ps \ started)

\* loadPlugins from theiaReadyPromise on: a new worker starts the plugins of the
\* frontend, and the host is sent the others.  All are noted, whatever comes of it.
Load(batch) ==
  LET toHost == batch \cap Backend
      toWorker == batch \cap Frontend
  IN  /\ loadedPlugins' = loadedPlugins \cup batch
      /\ callId' = IF toHost = {} THEN callId ELSE callId + 1
      /\ Call(IF toHost = {} THEN <<>> ELSE <<InitCall(callId + 1, toHost)>>)
      /\ \E started \in SUBSET toWorker : Starts(toWorker, started) /\ Fails(started # toWorker)

\* getDeployedMetadata is answered.
LoadPlugins(ps) ==
  IF theiaReady
  THEN Load(ps \ loadedPlugins) /\ UNCHANGED loads
  ELSE /\ loads' = Append(loads, ps \ loadedPlugins)
       /\ UNCHANGED <<loadedPlugins, callId, waiting, requests, failures, runs, unstarted>>

Answered ==
  LET a == Head(answers)
  IN  /\ answers # <<>>
      /\ answers' = Tail(answers)
      /\ IF a.op = "metadata"
         THEN LoadPlugins(a.plugins)
         ELSE /\ Call(<<MetadataCall>>)
              /\ UNCHANGED <<loads, loadedPlugins, callId, failures, runs, unstarted>>
      /\ UNCHANGED <<deploymentVars, connection, isOpen, connectionPromise, initialized,
                     theiaReady, support, asker, hosts, overlapped>>

\* Preferences and workspace are there.
TheiaReady ==
  /\ initialized /\ ~theiaReady
  /\ theiaReady' = TRUE
  /\ UNCHANGED <<deploymentVars, proxyVars, initialized, loads, loadedPlugins, callId,
                 support, asker, hosts, failures, runs, unstarted, overlapped>>

\* Then the calls that waited go on, one after the other.
LoadGoesOn ==
  /\ theiaReady /\ loads # <<>>
  /\ loads' = Tail(loads)
  /\ Load(Head(loads))
  /\ UNCHANGED <<deploymentVars, connection, isOpen, connectionPromise, answers,
                 initialized, theiaReady, support, asker, hosts, overlapped>>

-----------------------------------------------------------------------------
(* The backend.                                                            *)

\* The connection is made; the first is made to a backend that has started.
Connect ==
  /\ phase[Startup] # "none"
  /\ Listen(<<>>)
  /\ UNCHANGED <<deploymentVars, browser, support, asker, hosts, failures,
                 runs, unstarted, overlapped>>

\* Deployments whose entries are being resolved or unpacked.
Preparing == {d \in Deploys : phase[d] \in {"resolving", "unpacking"}}
Overlapping == IF Cardinality(Preparing) > 1 THEN Preparing ELSE {}

StartBackend ==
  /\ StartDeploy(Startup)
  /\ UNCHANGED <<proxyVars, browser, support, asker, hosts, failures,
                 runs, unstarted, overlapped>>

ServeDeploy ==
  LET d == Head(requests).deploy
  IN  /\ requests # <<>> /\ Head(requests).op = "deploy"
      /\ StartDeploy(d) /\ asker' = [asker EXCEPT ![d] = connection]
      /\ Serve(<<>>)
      /\ overlapped' = overlapped \cup Overlapping'
      /\ UNCHANGED <<browser, support, hosts, runs, unstarted>>

\* A deployment goes on; its end is answered, if who asked is there.  The browser
\* does nothing about one that failed.
Deployment(d) ==
  /\ DeployStep(d)
  /\ answers' = IF phase'[d] = "done" /\ asker[d] # 0 /\ Open(asker[d])
                THEN Append(answers, [op |-> "deployed"]) ELSE answers
  /\ UNCHANGED <<connection, isOpen, connectionPromise, waiting, requests, browser,
                 support, asker, hosts, runs, unstarted, overlapped>>

ServeMetadata ==
  /\ requests # <<>> /\ Head(requests).op = "metadata"
  /\ Serve(<<>>)
  /\ metadataCalls' = metadataCalls \cup {[connection |-> connection, awaits |-> "backend"]}
  /\ UNCHANGED <<deploymentVars, browser, isPluginProcessRunning, childProcess, asker,
                 hosts, failures, runs, unstarted, overlapped>>

\* A message for a host goes to the process of its connection, if there is one.
Delivered(h, m) == [h EXCEPT !.toHost = IF h.state = "running" THEN Append(@, m) ELSE @]

ServeMessage ==
  LET r == Head(requests)
      child == childProcess[connection]
  IN  /\ requests # <<>> /\ r.op = "message"
      /\ Serve(<<>>)
      /\ hosts' = IF child = 0 THEN hosts
                  ELSE [hosts EXCEPT ![child] = Delivered(@, InitMessage(r.call, r.plugins))]
      /\ UNCHANGED <<deploymentVars, browser, support, asker, failures,
                     runs, unstarted, overlapped>>

\* Whether a host has still to answer the first call of the browser.
OwesFirst(h) == \E m \in ToSet(h.toHost) \cup ToSet(h.fromHost) : m.type = "init" /\ m.call = 1

\* Defects: the process is killed at once; its answer is not waited for.
KilledAtOnce(h) == [h EXCEPT !.state = IF @ = "running" THEN "killed" ELSE @, !.toHost = <<>>]
NeverHeard(h) == Delivered(h, StopMessage)
\* terminatePluginServer: a second protocol, which hears the process from now
\* on, asks it to stop its plugins.
AskedToStop(h) ==
  [Delivered(h, StopMessage) EXCEPT !.terminating = TRUE, !.owedFirst = OwesFirst(h)]

Terminated(c) ==
  IF childProcess[c] = 0 THEN hosts
  ELSE [hosts EXCEPT ![childProcess[c]] = AskedToStop(@)]

NewHost(c) ==
  [connection |-> c, state |-> "running", toHost |-> <<>>, fromHost |-> <<>>,
   active |-> {}, terminating |-> FALSE, stopFailed |-> FALSE, owedFirst |-> FALSE,
   late |-> ~Open(c)]

\* runPluginServer of the support does nothing if it did it before.
MayRun(c) == ~isPluginProcessRunning[c]

RunPluginServer(c) ==
  IF MayRun(c)
  THEN /\ hosts' = Append(Terminated(c), NewHost(c))
       /\ childProcess' = [childProcess EXCEPT ![c] = Len(hosts) + 1]
       /\ isPluginProcessRunning' = [isPluginProcessRunning EXCEPT ![c] = TRUE]
  ELSE UNCHANGED <<hosts, childProcess, isPluginProcessRunning>>

\* getDeployedMetadata after an await: with plugins for the backend deployed, the
\* host is run; then it waits for the frontend's, and answers.
CanGoOn(m) == m.awaits \in resolvedDeferreds
MetadataGoesOn(m) ==
  LET answered == "frontend" \in resolvedDeferreds
      next == IF answered THEN {} ELSE {[m EXCEPT !.awaits = "frontend"]}
  IN  /\ CanGoOn(m)
      /\ IF m.awaits = "backend" /\ deployed \cap Backend # {}
         THEN RunPluginServer(m.connection)
         ELSE UNCHANGED <<hosts, childProcess, isPluginProcessRunning>>
      /\ metadataCalls' = (metadataCalls \ {m}) \cup next
      /\ answers' = IF answered /\ Open(m.connection)
                    THEN Append(answers, [op |-> "metadata", plugins |-> deployed])
                    ELSE answers
      /\ UNCHANGED <<deploymentVars, connection, isOpen, connectionPromise, waiting, requests,
                     browser, asker, failures, runs, unstarted, overlapped>>

\* The connection closes, and with it the client: clientClosed.
ConnectionLost ==
  /\ Break /\ connection < MaxConnections
  /\ hosts' = Terminated(connection)
  /\ childProcess' = [childProcess EXCEPT ![connection] = 0]
  /\ isPluginProcessRunning' = [isPluginProcessRunning EXCEPT ![connection] = FALSE]
  /\ UNCHANGED <<deploymentVars, browser, metadataCalls, asker, failures,
                 runs, unstarted, overlapped>>

\* What a host says reaches the client, and the protocol of the stop, which takes
\* the first answer to call 1 for its own: whether it is or not, the process is
\* killed, unless it is an error, after which no other answer is waited for.
HeardFrom(h) ==
  LET m == Head(h.fromHost)
      settled == h.terminating /\ ~h.stopFailed /\ m.call = 1 /\ h.state = "running"
      kill == settled /\ m.ok
  IN  [h EXCEPT !.fromHost = Tail(@), !.state = IF kill THEN "killed" ELSE @,
                !.toHost = IF kill THEN <<>> ELSE @, !.stopFailed = @ \/ (settled /\ ~m.ok)]

BackendHears(i) ==
  /\ hosts[i].fromHost # <<>>
  /\ hosts' = [hosts EXCEPT ![i] = HeardFrom(@)]
  /\ UNCHANGED <<deploymentVars, proxyVars, browser, support, asker, failures,
                 runs, unstarted, overlapped>>

-----------------------------------------------------------------------------
(* A host process: PluginManagerExtImpl.                                   *)

\* $init starts plugins, $stopPlugin stops all that were started.  What a plugin
\* throws, as it starts or is stopped, is the answer, and all are kept as active.
Handled(h, started, ok) ==
  LET m == Head(h.toHost)
  IN  [h EXCEPT !.toHost = Tail(@), !.fromHost = Append(@, Reply(m, ok)),
                !.active = IF m.type = "init" THEN @ \cup started
                           ELSE IF ok THEN {} ELSE @]

MayThrow(h, m, started) ==
  IF m.type = "init" THEN started # m.plugins ELSE h.active # {}

HostHandles(i) ==
  LET h == hosts[i]
      m == Head(h.toHost)
  IN  /\ h.toHost # <<>>
      /\ \E started \in SUBSET m.plugins, ok \in BOOLEAN :
           /\ ok \/ MayThrow(h, m, started)
           /\ Fails(~ok \/ started # m.plugins)
           /\ Starts(m.plugins, started)
           /\ hosts' = [hosts EXCEPT ![i] = Handled(@, started, ok)]
      /\ UNCHANGED <<deploymentVars, proxyVars, browser, support, asker, overlapped>>

\* The process ends by itself; no one looks at that.
HostExits(i) ==
  /\ hosts[i].state = "running" /\ Fails(TRUE)
  /\ hosts' = [hosts EXCEPT ![i].state = "exited", ![i].toHost = <<>>]
  /\ UNCHANGED <<deploymentVars, proxyVars, browser, support, asker,
                 runs, unstarted, overlapped>>

\* What follows on a resolved promise runs before anything else.
Due == (theiaReady /\ loads # <<>>) \/ \E m \in metadataCalls : CanGoOn(m)

Next ==
  \/ LoadGoesOn
  \/ \E m \in metadataCalls : MetadataGoesOn(m)
  \/ /\ ~Due
     /\ \/ CheckAndLoadPlugin \/ Answered \/ TheiaReady
        \/ StartBackend \/ Connect \/ ConnectionLost
        \/ ServeDeploy \/ ServeMetadata \/ ServeMessage
        \/ \E d \in Deploys : AskDeploy(d) \/ Deployment(d)
        \/ \E i \in DOMAIN hosts : BackendHears(i) \/ HostHandles(i) \/ HostExits(i)

Spec == Init /\ [][Next]_vars

\* Preferences and workspace load, a broken connection is replaced, both ends and
\* the hosts handle what arrives, resolvers and files answer.  Nobody has to load
\* the page or to deploy.
Fairness ==
  /\ WF_vars(LoadGoesOn \/ \E m \in metadataCalls : MetadataGoesOn(m))
  /\ WF_vars(TheiaReady) /\ WF_vars(Connect) /\ WF_vars(Answered)
  /\ WF_vars(ServeDeploy \/ ServeMetadata \/ ServeMessage)
  /\ WF_vars(\E d \in Deploys : Deployment(d))
  /\ WF_vars(\E i \in DOMAIN hosts : HostHandles(i) \/ BackendHears(i))

FairSpec == Spec /\ Fairness
-----------------------------------------------------------------------------
(* Properties.                                                             *)

Calls == {DeployCall(d) : d \in Deploys} \cup {MetadataCall}
         \cup [op : {"message"}, call : Nat \ {0}, plugins : SUBSET Plugins]
Answers == {[op |-> "deployed"]} \cup [op : {"metadata"}, plugins : SUBSET Plugins]
Messages == [type : {"init", "stop"}, call : Nat \ {0}, plugins : SUBSET Plugins]
Host ==
  [connection : Connections, state : {"running", "killed", "exited"},
   toHost : Seq(Messages),
   fromHost : Seq([type : {"init", "stop"}, call : Nat \ {0}, ok : BOOLEAN]),
   active : SUBSET Plugins, terminating : BOOLEAN, stopFailed : BOOLEAN,
   owedFirst : BOOLEAN, late : BOOLEAN]

\* Every variable keeps its type.
TypeOK ==
  /\ phase \in [Deploys -> {"none", "resolving", "unpacking", "reading", "done", "failed"}]
  /\ pluginDeployerEntries \subseteq Deploys \X Plugins
  /\ unpacking \subseteq Deploys \X Files /\ unpacked \subseteq Deploys \X Files
  /\ toRead \in [Deploys -> SUBSET Plugins] /\ deployed \subseteq Plugins
  /\ resolvedDeferreds \subseteq {"backend", "frontend"}
  /\ failures \in 0 .. MaxFailures /\ unreadable \subseteq Plugins
  /\ connection \in 0 .. MaxConnections /\ isOpen \in BOOLEAN
  /\ connectionPromise \in {0, connection}
  /\ waiting \in Seq(Calls) /\ requests \in Seq(Calls) /\ answers \in Seq(Answers)
  /\ initialized \in BOOLEAN /\ theiaReady \in BOOLEAN
  /\ loads \in Seq(SUBSET Plugins) /\ loadedPlugins \subseteq Plugins /\ callId \in Nat
  /\ isPluginProcessRunning \in [Connections -> BOOLEAN]
  /\ childProcess \in [Connections -> 0 .. Len(hosts)]
  /\ metadataCalls \subseteq [connection : Connections, awaits : {"backend", "frontend"}]
  /\ asker \in [Deploys -> 0 .. MaxConnections]
  /\ hosts \in Seq(Host)
  /\ runs \in [Plugins -> Nat] /\ unstarted \subseteq Plugins
  /\ overlapped \subseteq Deploys

\* A host whose browser is connected is the one the browser's messages go to, and
\* nobody stops it: so no answer to a stop is ever taken for one of the browser's.
HostInUse ==
  \A i \in DOMAIN hosts :
    Open(hosts[i].connection) => childProcess[hosts[i].connection] = i /\ ~hosts[i].terminating

\* A host is killed after it stopped its plugins, unless it had not answered the
\* first call of the browser when it was asked to.
StoppedFirst ==
  \A i \in DOMAIN hosts :
    hosts[i].state = "killed" => hosts[i].active = {} \/ hosts[i].owedFirst

\* What a deployment wants is deployed when it ends well, but what has no metadata,
\* unless another deployment was prepared at the same time.
DeployedAtEnd ==
  \A d \in Deploys \ overlapped :
    phase[d] = "done" => Wanted[d] \subseteq deployed \cup unreadable

\* The host of a connection that closed ends, if it was started before, unless the
\* answer taken for that to its stop was an error: then nobody stops it any more.
HostsEnd ==
  \A i \in Connections :
    (i \in DOMAIN hosts /\ ~hosts[i].late /\ ~Open(hosts[i].connection))
      ~> i \in DOMAIN hosts /\ (hosts[i].state # "running" \/ hosts[i].stopFailed)

\* A plugin that is deployed when getDeployedMetadata looks whether to run a host is
\* started in the end, unless it was asked for before, the connection breaks, the
\* host exits, or the $init sent for it ends without it: it did not load, or it or
\* one before it in the batch threw.  (One deployed after that may be sent to a host
\* that was not run.)
AskedFor(c) ==
  Open(c) /\ \/ MetadataCall \in ToSet(requests)
             \/ [connection |-> c, awaits |-> "backend"] \in metadataCalls
LoadsDeployed ==
  \A x \in Plugins, c \in Connections :
    (x \in deployed \ (loadedPlugins \cup UNION ToSet(loads)) /\ AskedFor(c))
      ~> \/ runs[x] > 0 \/ x \in unstarted \/ ~Open(c)
         \/ \E i \in DOMAIN hosts : hosts[i].connection = c /\ hosts[i].state = "exited"
=============================================================================
