-------------------------- MODULE PluginDeployment --------------------------
(***************************************************************************)
(* Deploying plugins on the backend: the one PluginDeployerImpl, which     *)
(* resolves, unpacks and accepts the entries of each deployment, and the   *)
(* one HostedPluginDeployerHandler, which reads the metadata of accepted   *)
(* plugins and keeps it.  Deployments are the one made at the start of the *)
(* backend and those that browsers ask for.                                *)
(*                                                                         *)
(* An entry <<d, x>> is the PluginDeployerEntry of plugin x in deployment  *)
(* d.  Every entry has a resolver, and a directory handler accepts it once *)
(* it is a directory.  A resolver or the unpacking of a file may fail, and *)
(* the metadata of a plugin may not be there.                              *)
(***************************************************************************)
EXTENDS Integers, FiniteSets

CONSTANTS Plugins,
          Frontend,  \* plugins that run in the browser
          Files,     \* plugins that come as a file to unpack
          Deploys,   \* deployments
          Wanted,    \* deployment -> its plugins
          MaxFailures  \* bound: things that go wrong

ASSUME DeploymentAssumption ==
  /\ IsFiniteSet(Plugins) /\ IsFiniteSet(Deploys)
  /\ Frontend \subseteq Plugins /\ Files \subseteq Plugins
  /\ Wanted \in [Deploys -> SUBSET Plugins]
  /\ MaxFailures \in Nat

VARIABLES
  phase,                  \* "none", "resolving", "unpacking", "reading", "done",
                          \* "failed"
  pluginDeployerEntries,  \* the field of the deployer
  unpacking,              \* entries whose file is being unpacked
  unpacked,               \* entries whose file is unpacked
  toRead,                 \* deployment -> accepted plugins not yet read
  deployed,               \* the handler's metadata, backend and frontend
  resolvedDeferreds,      \* its deferreds that are resolved
  failures,               \* what went wrong so far
  unreadable              \* history: plugins without metadata

deploymentVars ==
  <<phase, pluginDeployerEntries, unpacking, unpacked, toRead, deployed,
    resolvedDeferreds, unreadable>>

EntriesOf(d) == {<<d, x>> : x \in Wanted[d]}
Backend == Plugins \ Frontend
\* The plugins of a list of deployBackendPlugins or deployFrontendPlugins.
OfKind(k) == IF k = "frontend" THEN Frontend ELSE Backend

DeploymentInit ==
  /\ phase = [d \in Deploys |-> "none"]
  /\ pluginDeployerEntries = {} /\ unpacking = {} /\ unpacked = {}
  /\ toRead = [d \in Deploys |-> {}]
  /\ deployed = {} /\ resolvedDeferreds = {}
  /\ failures = 0 /\ unreadable = {}

\* Whether a step goes wrong.
Fails(wrong) ==
  /\ failures' = IF wrong THEN failures + 1 ELSE failures
  /\ failures' <= MaxFailures

\* deployMultipleEntries is called: the resolvers go to work.
StartDeploy(d) ==
  /\ phase[d] = "none"
  /\ phase' = [phase EXCEPT ![d] = "resolving"]
  /\ UNCHANGED <<pluginDeployerEntries, unpacking, unpacked, toRead, deployed,
                 resolvedDeferreds, failures, unreadable>>

\* Its promise is rejected, and nothing more comes of it.
Rejected(d) == phase' = [phase EXCEPT ![d] = "failed"] /\ Fails(TRUE)

\* Defect: a list that is empty does not resolve its deferred.
NonemptyListRead(before, after, k) == before \cap OfKind(k) # {} /\ after \cap OfKind(k) = {}
\* The loop over a list has come to its end.
ListRead(before, after, k) == after \cap OfKind(k) = {}

\* What is left to read of deployment d becomes rest.
Reads(d, before, rest) ==
  /\ toRead' = [toRead EXCEPT ![d] = rest]
  /\ resolvedDeferreds' =
       resolvedDeferreds \cup {k \in {"backend", "frontend"} : ListRead(before, rest, k)}
  /\ phase' = [phase EXCEPT ![d] = IF rest = {} THEN "done" ELSE "reading"]

\* applyDirectoryFileHandlers and deployPlugins, with no other code in between:
\* they go by the field of the deployer, whosever entries it holds by now.
AcceptAndDeploy(d, entries, ready) ==
  LET accepted == {e[2] : e \in {f \in entries : f[2] \notin Files \/ f \in ready}}
  IN  Reads(d, accepted, accepted)

\* The resolvers of d have answered: the field is set, and the unpacking of
\* what are files starts.
Resolved(d) ==
  LET files == {e \in EntriesOf(d) : e[2] \in Files}
  IN  /\ phase[d] = "resolving"
      /\ pluginDeployerEntries' = EntriesOf(d)
      /\ unpacking' = unpacking \cup files
      /\ IF files = {}
         THEN AcceptAndDeploy(d, EntriesOf(d), unpacked)
         ELSE /\ phase' = [phase EXCEPT ![d] = "unpacking"]
              /\ UNCHANGED <<toRead, resolvedDeferreds>>
      /\ UNCHANGED <<unpacked, deployed, failures, unreadable>>

\* A resolver of d fails.
NotResolved(d) ==
  /\ phase[d] = "resolving" /\ Rejected(d)
  /\ UNCHANGED <<pluginDeployerEntries, unpacking, unpacked, toRead, deployed,
                 resolvedDeferreds, unreadable>>

\* Defect: the first entry unpacked is enough.
AnyUnpacked(d, ready) == TRUE
AllUnpacked(d, ready) == \A x \in Wanted[d] \cap Files : <<d, x>> \in ready

\* An entry is unpacked; after its last, a deployment that has not failed goes on.
Unpacked(e) ==
  LET d == e[1]
      now == unpacked \cup {e}
  IN  /\ e \in unpacking
      /\ unpacking' = unpacking \ {e} /\ unpacked' = now
      /\ IF phase[d] = "unpacking" /\ AllUnpacked(d, now)
         THEN AcceptAndDeploy(d, pluginDeployerEntries, now)
         ELSE UNCHANGED <<phase, toRead, resolvedDeferreds>>
      /\ UNCHANGED <<pluginDeployerEntries, deployed, failures, unreadable>>

\* The file cannot be unpacked; what else is being unpacked goes on.
NotUnpacked(e) ==
  /\ e \in unpacking
  /\ unpacking' = unpacking \ {e}
  /\ Rejected(e[1])
  /\ UNCHANGED <<pluginDeployerEntries, unpacked, toRead, deployed, resolvedDeferreds,
                 unreadable>>

\* getPluginMetadata has read a plugin: it is kept unless it is known.  Without
\* metadata the plugin is passed over.
MetadataRead(d, x) ==
  /\ phase[d] = "reading" /\ x \in toRead[d]
  /\ \/ deployed' = deployed \cup {x} /\ UNCHANGED <<failures, unreadable>>
     \/ unreadable' = unreadable \cup {x} /\ Fails(TRUE) /\ UNCHANGED deployed
  /\ Reads(d, toRead[d], toRead[d] \ {x})
  /\ UNCHANGED <<pluginDeployerEntries, unpacking, unpacked>>

DeployStep(d) ==
  \/ Resolved(d) \/ NotResolved(d)
  \/ \E e \in EntriesOf(d) \cap unpacking : Unpacked(e) \/ NotUnpacked(e)
  \/ \E x \in toRead[d] : MetadataRead(d, x)
=============================================================================
