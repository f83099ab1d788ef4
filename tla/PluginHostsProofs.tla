-------------------------- MODULE PluginHostsProofs --------------------------
(***************************************************************************)
(* Proofs about PluginHosts, with the deployments and the proxy it is      *)
(* composed of: the variables keep their types, a deployment that no other *)
(* disturbs deploys what it wants, the host of a connected browser is the  *)
(* one that its messages go to, and a host is killed after it stopped its  *)
(* plugins.                                                                *)
(***************************************************************************)
EXTENDS PluginHosts, FiniteSetTheorems, TLAPS

-----------------------------------------------------------------------------
(* Sequences.                                                              *)

LEMMA Appended ==
  ASSUME NEW T, NEW s \in Seq(T), NEW e \in T
  PROVE  Append(s, e) \in Seq(T) /\ ToSet(Append(s, e)) = ToSet(s) \cup {e}
<1>1. /\ Append(s, e) \in Seq(T) /\ Len(Append(s, e)) = Len(s) + 1
      /\ Append(s, e)[Len(s) + 1] = e
      /\ \A i \in 1 .. Len(s) : Append(s, e)[i] = s[i]
  OBVIOUS
<1>2. DOMAIN s = 1 .. Len(s) /\ DOMAIN Append(s, e) = 1 .. Len(s) + 1 /\ Len(s) \in Nat
  OBVIOUS
<1>3. ASSUME NEW x \in ToSet(Append(s, e)) PROVE x \in ToSet(s) \cup {e}
  BY <1>1, <1>2 DEF ToSet
<1>4. ASSUME NEW x \in ToSet(s) \cup {e} PROVE x \in ToSet(Append(s, e))
  <2>1. CASE x = e
    BY <1>1, <1>2, <2>1 DEF ToSet
  <2>2. CASE x \in ToSet(s)
    <3>1. PICK i \in 1 .. Len(s) : x = s[i]
      BY <1>2, <2>2 DEF ToSet
    <3> QED BY <1>1, <1>2, <3>1 DEF ToSet
  <2> QED BY <2>1, <2>2
<1> QED BY <1>1, <1>3, <1>4

LEMMA TakenApart ==
  ASSUME NEW T, NEW s \in Seq(T), s # <<>>
  PROVE  /\ Head(s) \in T /\ Head(s) \in ToSet(s)
         /\ Tail(s) \in Seq(T) /\ ToSet(Tail(s)) \subseteq ToSet(s)
<1>1. 1 \in DOMAIN s /\ Head(s) = s[1] /\ Tail(s) \in Seq(T)
  OBVIOUS
<1>2. \A i \in DOMAIN Tail(s) : i + 1 \in DOMAIN s /\ Tail(s)[i] = s[i + 1]
  OBVIOUS
<1> QED BY <1>1, <1>2 DEF ToSet

-----------------------------------------------------------------------------
(* Types, piece by piece.                                                  *)

Phases == {"none", "resolving", "unpacking", "reading", "done", "failed"}

DeploymentOK ==
  /\ phase \in [Deploys -> Phases]
  /\ pluginDeployerEntries \subseteq Deploys \X Plugins
  /\ unpacking \subseteq Deploys \X Files /\ unpacked \subseteq Deploys \X Files
  /\ toRead \in [Deploys -> SUBSET Plugins] /\ deployed \subseteq Plugins
  /\ resolvedDeferreds \subseteq {"backend", "frontend"}
  /\ failures \in 0 .. MaxFailures /\ unreadable \subseteq Plugins

ProxyOK ==
  /\ connection \in 0 .. MaxConnections /\ isOpen \in BOOLEAN
  /\ connectionPromise \in {0, connection}
  /\ waiting \in Seq(Calls) /\ requests \in Seq(Calls) /\ answers \in Seq(Answers)

BrowserOK ==
  /\ initialized \in BOOLEAN /\ theiaReady \in BOOLEAN
  /\ loads \in Seq(SUBSET Plugins) /\ loadedPlugins \subseteq Plugins /\ callId \in Nat
  /\ runs \in [Plugins -> Nat] /\ unstarted \subseteq Plugins

SupportOK ==
  /\ isPluginProcessRunning \in [Connections -> BOOLEAN]
  /\ childProcess \in [Connections -> 0 .. Len(hosts)]
  /\ hosts \in Seq(Host)

BackendOK ==
  /\ metadataCalls \subseteq [connection : Connections, awaits : {"backend", "frontend"}]
  /\ asker \in [Deploys -> 0 .. MaxConnections]
  /\ overlapped \subseteq Deploys

LEMMA Pieces ==
  TypeOK <=> DeploymentOK /\ ProxyOK /\ BrowserOK /\ SupportOK /\ BackendOK
BY DEF TypeOK, DeploymentOK, Phases, ProxyOK, BrowserOK, SupportOK, BackendOK

LEMMA PiecesKept ==
  ASSUME DeploymentOK', ProxyOK', BrowserOK', SupportOK', BackendOK'
  PROVE  TypeOK'
BY DEF TypeOK, DeploymentOK, Phases, ProxyOK, BrowserOK, SupportOK, BackendOK

-----------------------------------------------------------------------------
(* Deployments.                                                            *)

IsPreparing(d) == phase[d] \in {"resolving", "unpacking"}

\* Deployments that are prepared at the same time are known to be.
Solo ==
  \A d, e \in Deploys : d # e /\ IsPreparing(d) /\ IsPreparing(e) => d \in overlapped

\* What an undisturbed deployment wants is in the deployer's field, is to be read,
\* is deployed or could not be read.
KeptOf(d) ==
  /\ phase[d] = "unpacking" => pluginDeployerEntries = EntriesOf(d)
  /\ phase[d] \in {"reading", "done"} =>
       Wanted[d] \subseteq deployed \cup unreadable \cup toRead[d]
  /\ phase[d] = "done" => toRead[d] = {}

Kept == \A d \in Deploys \ overlapped : KeptOf(d)

\* Files are unpacked for deployments that have begun.
Begun == \A e \in unpacking : phase[e[1]] # "none"

\* Nothing is asked before the backend has started.
StartsFirst ==
  phase[Startup] = "none" =>
    connectionPromise = 0 /\ requests = <<>> /\ \A d \in Deploys : phase[d] = "none"

DeployInv == Solo /\ Kept /\ Begun /\ StartsFirst

LEMMA EntriesTyped ==
  ASSUME NEW d \in Deploys
  PROVE  EntriesOf(d) \subseteq Deploys \X Plugins /\ Wanted[d] \subseteq Plugins
BY DeploymentAssumption DEF EntriesOf

\* Both kinds of steps that leave a deployment with something to read.
LEMMA ReadsTyped ==
  ASSUME DeploymentOK, NEW d \in Deploys, NEW before, NEW rest \in SUBSET Plugins,
         Reads(d, before, rest)
  PROVE  /\ toRead' \in [Deploys -> SUBSET Plugins]
         /\ resolvedDeferreds' \subseteq {"backend", "frontend"}
         /\ phase' \in [Deploys -> Phases]
         /\ toRead'[d] = rest /\ \A e \in Deploys \ {d} : toRead'[e] = toRead[e]
         /\ phase'[d] = IF rest = {} THEN "done" ELSE "reading"
         /\ \A e \in Deploys \ {d} : phase'[e] = phase[e]
BY DEF Reads, DeploymentOK, Phases

\* What a step of a deployment does to it and to the others.
Progress(d) ==
  /\ DeploymentOK'
  /\ \A e \in Deploys \ {d} : phase'[e] = phase[e] /\ toRead'[e] = toRead[e]
  /\ phase[d] # "none" /\ phase'[d] # "none"
  /\ deployed \subseteq deployed' /\ unreadable \subseteq unreadable'
  /\ phase'[d] \in {"resolving", "unpacking"} => IsPreparing(d)
  /\ IsPreparing(d) \/ UNCHANGED pluginDeployerEntries
  /\ unpacking' \subseteq unpacking \cup EntriesOf(d)
  /\ KeptOf(d) => KeptOf(d)'

LEMMA Accepted ==
  ASSUME DeploymentOK, NEW d \in Deploys, NEW entries \in SUBSET (Deploys \X Plugins), NEW ready,
         AcceptAndDeploy(d, entries, ready)
  PROVE  /\ toRead' \in [Deploys -> SUBSET Plugins]
         /\ resolvedDeferreds' \subseteq {"backend", "frontend"}
         /\ phase' \in [Deploys -> Phases]
         /\ \A e \in Deploys \ {d} : phase'[e] = phase[e] /\ toRead'[e] = toRead[e]
         /\ phase'[d] \in {"reading", "done"} /\ (phase'[d] = "done" => toRead'[d] = {})
         /\ entries = EntriesOf(d) /\ (\A x \in Wanted[d] \cap Files : <<d, x>> \in ready)
              => Wanted[d] \subseteq toRead'[d]
<1> DEFINE accepted == {e[2] : e \in {f \in entries : f[2] \notin Files \/ f \in ready}}
<1>1. accepted \subseteq Plugins /\ Reads(d, accepted, accepted)
  BY DEF AcceptAndDeploy
<1>2. entries = EntriesOf(d) /\ (\A x \in Wanted[d] \cap Files : <<d, x>> \in ready)
        => Wanted[d] \subseteq accepted
  <2> SUFFICES ASSUME entries = EntriesOf(d), \A x \in Wanted[d] \cap Files : <<d, x>> \in ready,
                      NEW x \in Wanted[d]
               PROVE  x \in accepted
    OBVIOUS
  <2>1. PICK f : f = <<d, x>>
    OBVIOUS
  <2>2. f \in entries /\ f[2] = x /\ (x \notin Files \/ f \in ready)
    BY <2>1 DEF EntriesOf
  <2> QED BY <2>2
<1> HIDE DEF accepted
<1>3. PICK rest \in SUBSET Plugins : rest = accepted
  BY <1>1
<1>4. Reads(d, rest, rest)
  BY <1>1, <1>3
<1>5. /\ toRead' \in [Deploys -> SUBSET Plugins]
      /\ resolvedDeferreds' \subseteq {"backend", "frontend"}
      /\ phase' \in [Deploys -> Phases]
      /\ toRead'[d] = rest /\ \A e \in Deploys \ {d} : toRead'[e] = toRead[e]
      /\ phase'[d] = IF rest = {} THEN "done" ELSE "reading"
      /\ \A e \in Deploys \ {d} : phase'[e] = phase[e]
  BY <1>4, ReadsTyped
<1> QED BY <1>2, <1>3, <1>5

LEMMA ResolvedStep ==
  ASSUME DeploymentOK, NEW d \in Deploys, Resolved(d)
  PROVE  Progress(d)
<1> PICK files : files = {e \in EntriesOf(d) : e[2] \in Files}
  OBVIOUS
<1>1. /\ phase[d] = "resolving" /\ pluginDeployerEntries' = EntriesOf(d)
      /\ UNCHANGED <<unpacked, deployed, failures, unreadable>>
      /\ EntriesOf(d) \in SUBSET (Deploys \X Plugins)
      /\ unpacking' = unpacking \cup files
  BY EntriesTyped DEF Resolved
<1>2. unpacking' \subseteq Deploys \X Files
  BY <1>1 DEF DeploymentOK, EntriesOf
<1>3. files = {} => Wanted[d] \cap Files = {}
  <2> SUFFICES ASSUME NEW x \in Wanted[d] \cap Files PROVE <<d, x>> \in files
    OBVIOUS
  <2>1. <<d, x>> \in EntriesOf(d) /\ <<d, x>>[2] = x
    BY DEF EntriesOf
  <2> QED BY <2>1
<1>4. CASE files = {} /\ AcceptAndDeploy(d, EntriesOf(d), unpacked)
  <2>1. PICK entries \in SUBSET (Deploys \X Plugins) : entries = EntriesOf(d)
    BY <1>1
  <2>2. /\ toRead' \in [Deploys -> SUBSET Plugins]
        /\ resolvedDeferreds' \subseteq {"backend", "frontend"}
        /\ phase' \in [Deploys -> Phases]
        /\ \A e \in Deploys \ {d} : phase'[e] = phase[e] /\ toRead'[e] = toRead[e]
        /\ phase'[d] \in {"reading", "done"} /\ (phase'[d] = "done" => toRead'[d] = {})
        /\ Wanted[d] \subseteq toRead'[d]
    BY <1>3, <1>4, <2>1, Accepted
  <2> QED BY <1>1, <1>2, <2>2 DEF Progress, DeploymentOK, IsPreparing, KeptOf
<1>5. CASE /\ phase' = [phase EXCEPT ![d] = "unpacking"]
           /\ UNCHANGED <<toRead, resolvedDeferreds>>
  <2>1. DeploymentOK'
    BY <1>1, <1>2, <1>5 DEF DeploymentOK, Phases
  <2>2. phase'[d] = "unpacking" /\ \A e \in Deploys \ {d} : phase'[e] = phase[e]
    BY <1>5 DEF DeploymentOK
  <2>3. KeptOf(d)'
    BY <1>1, <2>2 DEF KeptOf, EntriesOf
  <2> QED BY <1>1, <1>5, <2>1, <2>2, <2>3 DEF Progress, IsPreparing
<1> QED BY <1>4, <1>5 DEF Resolved

\* A deployment that fails asks nothing of what it wanted.
LEMMA RejectedStep ==
  ASSUME DeploymentOK, NEW d \in Deploys, Rejected(d), phase[d] # "none",
         unpacking' \subseteq unpacking,
         UNCHANGED <<pluginDeployerEntries, unpacked, toRead, deployed, resolvedDeferreds,
                     unreadable>>
  PROVE  Progress(d)
<1>1. phase'[d] = "failed" /\ \A e \in Deploys \ {d} : phase'[e] = phase[e]
  BY DEF Rejected, DeploymentOK
<1>2. failures' \in 0 .. MaxFailures
  BY DeploymentAssumption DEF Rejected, Fails, DeploymentOK
<1>3. DeploymentOK'
  BY <1>2 DEF Rejected, DeploymentOK, Phases
<1>4. KeptOf(d)'
  BY <1>1 DEF KeptOf
<1> QED BY <1>1, <1>3, <1>4 DEF Progress

LEMMA NotResolvedStep ==
  ASSUME DeploymentOK, NEW d \in Deploys, NotResolved(d)
  PROVE  Progress(d)
<1>1. unpacking' \subseteq unpacking /\ phase[d] # "none"
  BY DEF NotResolved
<1> QED BY <1>1, RejectedStep DEF NotResolved

LEMMA NotUnpackedStep ==
  ASSUME DeploymentOK, Begun, NEW d \in Deploys, NEW e \in EntriesOf(d), NotUnpacked(e)
  PROVE  Progress(d)
<1>1. e[1] = d /\ phase[d] # "none" /\ unpacking' \subseteq unpacking
  BY DEF EntriesOf, NotUnpacked, Begun
<1> QED BY <1>1, RejectedStep DEF NotUnpacked

LEMMA UnpackedStep ==
  ASSUME DeploymentOK, Begun, NEW d \in Deploys, NEW e \in EntriesOf(d), Unpacked(e)
  PROVE  Progress(d)
<1>1. e[1] = d /\ phase[d] # "none"
  BY DEF EntriesOf, Unpacked, Begun
<1>2. PICK now : now = unpacked \cup {e}
  OBVIOUS
<1>3. /\ e \in unpacking /\ unpacking' = unpacking \ {e} /\ unpacked' = now
      /\ UNCHANGED <<pluginDeployerEntries, deployed, failures, unreadable>>
  BY <1>2 DEF Unpacked
<1>4. now \subseteq Deploys \X Files /\ unpacking' \subseteq Deploys \X Files
  BY <1>2, <1>3 DEF DeploymentOK
<1>5. CASE /\ phase[d] = "unpacking" /\ AllUnpacked(d, now)
           /\ AcceptAndDeploy(d, pluginDeployerEntries, now)
  <2>1. PICK entries \in SUBSET (Deploys \X Plugins) : entries = pluginDeployerEntries
    BY DEF DeploymentOK
  <2>2. /\ toRead' \in [Deploys -> SUBSET Plugins]
        /\ resolvedDeferreds' \subseteq {"backend", "frontend"}
        /\ phase' \in [Deploys -> Phases]
        /\ \A x \in Deploys \ {d} : phase'[x] = phase[x] /\ toRead'[x] = toRead[x]
        /\ phase'[d] \in {"reading", "done"} /\ (phase'[d] = "done" => toRead'[d] = {})
        /\ entries = EntriesOf(d) => Wanted[d] \subseteq toRead'[d]
    BY <1>5, <2>1, Accepted DEF AllUnpacked
  <2>3. DeploymentOK'
    BY <1>3, <1>4, <2>2 DEF DeploymentOK
  <2> QED BY <1>3, <1>5, <2>1, <2>2, <2>3 DEF Progress, IsPreparing, KeptOf
<1>6. CASE UNCHANGED <<phase, toRead, resolvedDeferreds>>
  <2>1. DeploymentOK'
    BY <1>3, <1>4, <1>6 DEF DeploymentOK
  <2>2. KeptOf(d)' <=> KeptOf(d)
    BY <1>3, <1>6 DEF KeptOf, EntriesOf
  <2> QED BY <1>1, <1>3, <1>6, <2>1, <2>2 DEF Progress, IsPreparing
<1> QED BY <1>1, <1>2, <1>5, <1>6 DEF Unpacked

LEMMA MetadataReadStep ==
  ASSUME DeploymentOK, NEW d \in Deploys, NEW x \in toRead[d], MetadataRead(d, x)
  PROVE  Progress(d)
<1>1. /\ phase[d] = "reading" /\ Reads(d, toRead[d], toRead[d] \ {x})
      /\ UNCHANGED <<pluginDeployerEntries, unpacking, unpacked>>
  BY DEF MetadataRead
<1>2. PICK rest \in SUBSET Plugins : rest = toRead[d] \ {x} /\ x \in Plugins
  BY DEF DeploymentOK
<1>3. /\ toRead' \in [Deploys -> SUBSET Plugins]
      /\ resolvedDeferreds' \subseteq {"backend", "frontend"}
      /\ phase' \in [Deploys -> Phases]
      /\ toRead'[d] = rest /\ \A e \in Deploys \ {d} : toRead'[e] = toRead[e]
      /\ phase'[d] = IF rest = {} THEN "done" ELSE "reading"
      /\ \A e \in Deploys \ {d} : phase'[e] = phase[e]
  BY <1>1, <1>2, ReadsTyped
<1>4. /\ deployed' \subseteq Plugins /\ unreadable' \subseteq Plugins
      /\ failures' \in 0 .. MaxFailures
      /\ deployed \subseteq deployed' /\ unreadable \subseteq unreadable'
      /\ x \in deployed' \cup unreadable'
  <2>1. CASE deployed' = deployed \cup {x} /\ UNCHANGED <<failures, unreadable>>
    BY <1>2, <2>1 DEF DeploymentOK
  <2>2. CASE unreadable' = unreadable \cup {x} /\ Fails(TRUE) /\ UNCHANGED deployed
    BY <1>2, <2>2, DeploymentAssumption DEF DeploymentOK, Fails
  <2> QED BY <2>1, <2>2 DEF MetadataRead
<1>5. DeploymentOK'
  BY <1>1, <1>3, <1>4 DEF DeploymentOK
<1>6. KeptOf(d) => KeptOf(d)'
  BY <1>1, <1>2, <1>3, <1>4 DEF KeptOf
<1> QED BY <1>1, <1>3, <1>4, <1>5, <1>6 DEF Progress

\* A deployment makes a step, and nothing else of it changes.
LEMMA DeployStepKeeps ==
  ASSUME DeploymentOK, DeployInv, NEW d \in Deploys, DeployStep(d),
         UNCHANGED <<overlapped, connectionPromise, requests>>
  PROVE  DeploymentOK' /\ DeployInv'
<1>1. Progress(d)
  BY ResolvedStep, NotResolvedStep, UnpackedStep, NotUnpackedStep, MetadataReadStep
  DEF DeployStep, DeployInv
<1>2. \A e \in Deploys : IsPreparing(e)' => IsPreparing(e)
  BY <1>1 DEF Progress, IsPreparing
<1>3. Solo'
  BY <1>2 DEF DeployInv, Solo
<1>4. ASSUME NEW e \in Deploys \ overlapped PROVE KeptOf(e)'
  <2>1. KeptOf(e)
    BY DEF DeployInv, Kept
  <2>2. CASE e = d
    BY <1>1, <2>1, <2>2 DEF Progress
  <2>3. CASE e # d
    <3>1. /\ phase'[e] = phase[e] /\ toRead'[e] = toRead[e]
          /\ deployed \subseteq deployed' /\ unreadable \subseteq unreadable'
      BY <1>1, <2>3 DEF Progress
    <3>2. phase[e] = "unpacking" => UNCHANGED pluginDeployerEntries
      BY <1>1, <2>3 DEF Progress, IsPreparing, DeployInv, Solo
    <3> QED BY <2>1, <3>1, <3>2 DEF KeptOf, EntriesOf
  <2> QED BY <2>2, <2>3
<1>5. Kept'
  BY <1>4 DEF Kept
<1>6. StartsFirst'
  <2>1. phase[Startup] # "none" /\ Startup \in Deploys
    BY <1>1, HostsAssumption DEF DeployInv, StartsFirst, Progress
  <2>2. phase'[Startup] # "none"
    BY <1>1, <2>1 DEF Progress
  <2> QED BY <2>2 DEF StartsFirst
<1>7. Begun'
  <2>1. ASSUME NEW e \in unpacking' PROVE phase'[e[1]] # "none"
    <3>1. CASE e \in EntriesOf(d)
      BY <1>1, <3>1 DEF Progress, EntriesOf
    <3>2. CASE e \in unpacking
      <4>1. phase[e[1]] # "none" /\ e[1] \in Deploys
        BY <3>2 DEF DeployInv, Begun, DeploymentOK
      <4> QED BY <1>1, <4>1 DEF Progress
    <3> QED BY <1>1, <3>1, <3>2 DEF Progress
  <2> QED BY <2>1 DEF Begun
<1>8. DeploymentOK'
  BY <1>1 DEF Progress
<1> QED BY <1>3, <1>5, <1>6, <1>7, <1>8 DEF DeployInv

LEMMA StartTyped ==
  ASSUME DeploymentOK, NEW d \in Deploys, StartDeploy(d)
  PROVE  /\ DeploymentOK'
         /\ phase[d] = "none" /\ phase'[d] = "resolving"
         /\ \A e \in Deploys \ {d} : phase'[e] = phase[e]
         /\ UNCHANGED <<pluginDeployerEntries, toRead, deployed, unreadable>>
BY DEF StartDeploy, DeploymentOK, Phases

LEMMA StartKeeps ==
  ASSUME DeploymentOK, Kept, Begun, NEW d \in Deploys, StartDeploy(d),
         overlapped \subseteq overlapped'
  PROVE  Kept' /\ Begun'
<1>1. /\ phase'[d] = "resolving" /\ \A e \in Deploys \ {d} : phase'[e] = phase[e]
      /\ UNCHANGED <<pluginDeployerEntries, toRead, deployed, unreadable>>
  BY StartTyped
<1>2. ASSUME NEW e \in Deploys \ overlapped' PROVE KeptOf(e)'
  <2>1. KeptOf(e)
    BY DEF Kept
  <2> QED BY <1>1, <2>1 DEF KeptOf, EntriesOf
<1>3. Begun'
  <2>1. UNCHANGED unpacking
    BY DEF StartDeploy
  <2>2. \A e \in unpacking : e[1] \in Deploys
    BY DEF DeploymentOK
  <2> QED BY <1>1, <2>1, <2>2 DEF Begun
<1> QED BY <1>2, <1>3 DEF Kept

LEMMA TwoOrMore ==
  ASSUME NEW P \in SUBSET Deploys, NEW d \in P, NEW e \in P, d # e
  PROVE  Cardinality(P) > 1
<1>1. IsFiniteSet(P) /\ {d, e} \subseteq P
  BY DeploymentAssumption, FS_Subset
<1>2. IsFiniteSet({d, e}) /\ Cardinality({d, e}) <= Cardinality(P)
  BY <1>1, FS_Subset
<1>3. IsFiniteSet({d}) /\ Cardinality({d}) = 1 /\ e \notin {d} /\ {d} \cup {e} = {d, e}
  BY FS_Singleton
<1>4. Cardinality({d} \cup {e}) = Cardinality({d}) + 1
  BY <1>3, FS_AddElement
<1>5. Cardinality(P) \in Nat
  BY <1>1, FS_CardinalityType
<1> QED BY <1>2, <1>3, <1>4, <1>5

-----------------------------------------------------------------------------
(* One host.                                                               *)

ReplyOK == [type : {"init", "stop"}, call : Nat \ {0}, ok : BOOLEAN]

\* A host that was not asked to stop has only calls and answers of the browser.  One
\* that was, and owed no first answer then, has the stop as the last it will handle,
\* and stopped its plugins when a good answer to call 1 is on its way.
Fine(h) ==
  /\ h.state # "running" => h.toHost = <<>>
  /\ h.state = "killed" => h.active = {} \/ h.owedFirst
  /\ ~h.terminating =>
       /\ h.state # "killed"
       /\ \A m \in ToSet(h.toHost) \cup ToSet(h.fromHost) : m.type = "init"
  /\ h.terminating /\ ~h.owedFirst =>
       /\ \A m \in ToSet(h.fromHost) : m.call = 1 /\ m.ok => h.toHost = <<>> /\ h.active = {}
       /\ \A k \in DOMAIN h.toHost :
            h.toHost[k].call = 1 => k = Len(h.toHost) /\ h.toHost[k].type = "stop"

LEMMA Fields ==
  ASSUME NEW h \in Host
  PROVE  /\ h.connection \in Connections /\ h.state \in {"running", "killed", "exited"}
         /\ h.toHost \in Seq(Messages) /\ h.fromHost \in Seq(ReplyOK)
         /\ h.active \in SUBSET Plugins /\ h.terminating \in BOOLEAN
         /\ h.stopFailed \in BOOLEAN /\ h.owedFirst \in BOOLEAN /\ h.late \in BOOLEAN
BY DEF Host, ReplyOK

\* A call of the browser is handed to the host.
LEMMA DeliveredFine ==
  ASSUME NEW h \in Host, Fine(h), ~h.terminating, NEW m \in Messages, m.type = "init"
  PROVE  /\ Delivered(h, m) \in Host /\ Fine(Delivered(h, m))
         /\ Delivered(h, m).connection = h.connection
         /\ ~Delivered(h, m).terminating
<1> PICK g : g = Delivered(h, m)
  OBVIOUS
<1>1. /\ h.toHost \in Seq(Messages) /\ Append(h.toHost, m) \in Seq(Messages)
      /\ ToSet(Append(h.toHost, m)) = ToSet(h.toHost) \cup {m}
  BY Fields, Appended
<1>2. /\ g \in Host /\ g.connection = h.connection
      /\ g.state = h.state /\ g.fromHost = h.fromHost
      /\ g.toHost = IF h.state = "running" THEN Append(h.toHost, m) ELSE h.toHost
  BY <1>1 DEF Delivered, Host
<1>3. ~g.terminating
  BY Zenon DEF Delivered, Host
<1>4. Fine(g)
  BY <1>1, <1>2, <1>3 DEF Fine
<1> QED BY <1>2, <1>3, <1>4

\* The host is asked to stop, and heard from now on.
LEMMA AskedFine ==
  ASSUME NEW h \in Host, Fine(h), ~h.terminating
  PROVE  /\ AskedToStop(h) \in Host /\ Fine(AskedToStop(h))
         /\ AskedToStop(h).connection = h.connection
<1> PICK g : g = AskedToStop(h)
  OBVIOUS
<1> PICK f : f = Delivered(h, StopMessage)
  OBVIOUS
<1>1. StopMessage \in Messages /\ StopMessage.type = "stop"
  BY DEF StopMessage, Messages
<1>2. /\ h.toHost \in Seq(Messages) /\ Append(h.toHost, StopMessage) \in Seq(Messages)
  BY <1>1, Fields, Appended
<1>3. /\ f \in Host /\ f.connection = h.connection /\ f.active = h.active
      /\ f.state = h.state /\ f.fromHost = h.fromHost
      /\ f.toHost = IF h.state = "running" THEN Append(h.toHost, StopMessage) ELSE h.toHost
  BY <1>2 DEF Delivered, Host
<1>4. OwesFirst(h) \in BOOLEAN
  BY DEF OwesFirst
<1>5. g = [f EXCEPT !.terminating = TRUE, !.owedFirst = OwesFirst(h)]
  BY DEF AskedToStop
<1>6. /\ g \in Host /\ g.connection = f.connection /\ g.active = f.active
      /\ g.state = f.state /\ g.fromHost = f.fromHost /\ g.toHost = f.toHost
  BY <1>3, <1>4, <1>5 DEF Host
<1>7. g.terminating /\ (g.owedFirst <=> OwesFirst(h))
  BY <1>3, <1>5, Zenon DEF Host
<1>8. Fine(g)
  <2>1. g.state # "running" => g.toHost = <<>>
    BY <1>3, <1>6 DEF Fine
  <2>2. g.state # "killed"
    BY <1>3, <1>6 DEF Fine
  <2>3. ASSUME ~OwesFirst(h)
        PROVE  /\ \A m \in ToSet(g.fromHost) : m.call # 1
               /\ \A k \in DOMAIN g.toHost :
                    g.toHost[k].call = 1 => k = Len(g.toHost) /\ g.toHost[k].type = "stop"
    <3>1. \A m \in ToSet(h.toHost) \cup ToSet(h.fromHost) : m.call # 1
      BY <2>3 DEF OwesFirst, Fine
    <3>2. \A k \in DOMAIN h.toHost : h.toHost[k].call # 1
      BY <3>1 DEF ToSet
    <3>3. CASE h.state = "running"
      <4>1. /\ DOMAIN h.toHost = 1 .. Len(h.toHost) /\ Len(h.toHost) \in Nat
            /\ DOMAIN g.toHost = 1 .. Len(h.toHost) + 1 /\ Len(g.toHost) = Len(h.toHost) + 1
            /\ g.toHost[Len(h.toHost) + 1] = StopMessage
            /\ \A k \in 1 .. Len(h.toHost) : g.toHost[k] = h.toHost[k]
        BY <1>1, <1>2, <1>3, <1>6, <3>3
      <4> QED BY <1>1, <1>3, <1>6, <3>1, <3>2, <4>1
    <3>4. CASE h.state # "running"
      BY <1>3, <1>6, <3>1, <3>2, <3>4
    <3> QED BY <3>3, <3>4
  <2> QED BY <1>7, <2>1, <2>2, <2>3 DEF Fine
<1> QED BY <1>3, <1>6, <1>8

\* What a host said is heard.
LEMMA HeardFine ==
  ASSUME NEW h \in Host, Fine(h), h.fromHost # <<>>
  PROVE  /\ HeardFrom(h) \in Host /\ Fine(HeardFrom(h))
         /\ HeardFrom(h).connection = h.connection
         /\ HeardFrom(h).terminating <=> h.terminating
<1> PICK g : g = HeardFrom(h)
  OBVIOUS
<1> PICK m : m = Head(h.fromHost)
  OBVIOUS
<1> DEFINE settled == h.terminating /\ ~h.stopFailed /\ m.call = 1 /\ h.state = "running"
<1> PICK failed \in BOOLEAN : failed = (h.stopFailed \/ (settled /\ ~m.ok))
  OBVIOUS
<1>1. /\ m \in ToSet(h.fromHost)
      /\ Tail(h.fromHost) \in Seq(ReplyOK) /\ ToSet(Tail(h.fromHost)) \subseteq ToSet(h.fromHost)
  BY Fields, TakenApart
<1>2. CASE settled /\ m.ok
  <2>1. g = [h EXCEPT !.fromHost = Tail(h.fromHost), !.state = "killed", !.toHost = <<>>,
                      !.stopFailed = failed]
    BY <1>2, Zenon DEF HeardFrom
  <2>2. <<>> \in Seq(Messages) /\ ToSet(<<>>) = {}
    BY DEF ToSet
  <2>3. /\ g \in Host /\ g.connection = h.connection /\ g.active = h.active
        /\ g.fromHost = Tail(h.fromHost) /\ g.state = "killed" /\ g.toHost = <<>>
    BY <1>1, <2>1, <2>2 DEF Host, ReplyOK
  <2>4. (g.terminating <=> h.terminating) /\ (g.owedFirst <=> h.owedFirst)
    BY <2>1, Zenon DEF Host
  <2>5. Fine(g)
    BY <1>1, <1>2, <2>2, <2>3, <2>4 DEF Fine
  <2> QED BY <2>3, <2>4, <2>5
<1>3. CASE ~(settled /\ m.ok)
  <2>1. g = [h EXCEPT !.fromHost = Tail(h.fromHost), !.state = h.state, !.toHost = h.toHost,
                      !.stopFailed = failed]
    BY <1>3, Zenon DEF HeardFrom
  <2>2. /\ g \in Host /\ g.connection = h.connection /\ g.active = h.active
        /\ g.fromHost = Tail(h.fromHost) /\ g.state = h.state /\ g.toHost = h.toHost
    BY <1>1, <2>1 DEF Host, ReplyOK
  <2>3. (g.terminating <=> h.terminating) /\ (g.owedFirst <=> h.owedFirst)
    BY <2>1, Zenon DEF Host
  <2>4. Fine(g)
    BY <1>1, <2>2, <2>3 DEF Fine
  <2> QED BY <2>2, <2>3, <2>4
<1> QED BY <1>2, <1>3

\* The host handles a call.
LEMMA HandledFine ==
  ASSUME NEW h \in Host, Fine(h), h.toHost # <<>>, NEW ok \in BOOLEAN,
         NEW started \in SUBSET Head(h.toHost).plugins
  PROVE  /\ Handled(h, started, ok) \in Host /\ Fine(Handled(h, started, ok))
         /\ Handled(h, started, ok).connection = h.connection
         /\ Handled(h, started, ok).terminating <=> h.terminating
<1> PICK g : g = Handled(h, started, ok)
  OBVIOUS
<1> PICK m : m = Head(h.toHost)
  OBVIOUS
<1> PICK a : a = Reply(m, ok)
  OBVIOUS
<1>1. /\ m \in Messages /\ m \in ToSet(h.toHost) /\ m = h.toHost[1]
      /\ Tail(h.toHost) \in Seq(Messages) /\ ToSet(Tail(h.toHost)) \subseteq ToSet(h.toHost)
  BY Fields, TakenApart
<1>2. a \in ReplyOK /\ a.type = m.type /\ a.call = m.call
  BY <1>1 DEF Reply, ReplyOK, Messages
<1>11. a.ok <=> ok
  BY Zenon DEF Reply
<1>3. /\ Append(h.fromHost, a) \in Seq(ReplyOK)
      /\ ToSet(Append(h.fromHost, a)) = ToSet(h.fromHost) \cup {a}
  BY <1>2, Fields, Appended
<1>4. /\ g.connection = h.connection /\ g.state = h.state
      /\ g.toHost = Tail(h.toHost) /\ g.fromHost = Append(h.fromHost, a)
      /\ m.type # "init" /\ ok => g.active = {}
  BY DEF Handled, Host
<1>5. (g.terminating <=> h.terminating) /\ (g.owedFirst <=> h.owedFirst)
  BY Zenon DEF Handled, Host
<1>6. g \in Host
  <2>1. started \subseteq Plugins /\ h.active \subseteq Plugins
    BY <1>1, Fields DEF Messages
  <2>2. PICK act \in SUBSET Plugins :
          act = IF m.type = "init" THEN h.active \cup started ELSE IF ok THEN {} ELSE h.active
    BY <2>1
  <2>3. g = [h EXCEPT !.toHost = Tail(h.toHost), !.fromHost = Append(h.fromHost, a),
                      !.active = act]
    BY <2>2 DEF Handled
  <2> QED BY <1>1, <1>3, <2>3 DEF Host, ReplyOK
<1>7. h.state = "running"
  BY Fields DEF Fine
<1>8. ~g.terminating => \A x \in ToSet(g.toHost) \cup ToSet(g.fromHost) : x.type = "init"
  BY <1>1, <1>2, <1>3, <1>4, <1>5 DEF Fine
<1>9. ASSUME h.terminating, ~h.owedFirst
      PROVE  /\ \A x \in ToSet(g.fromHost) : x.call = 1 /\ x.ok => g.toHost = <<>> /\ g.active = {}
             /\ \A k \in DOMAIN g.toHost :
                  g.toHost[k].call = 1 => k = Len(g.toHost) /\ g.toHost[k].type = "stop"
  <2>1. /\ Len(h.toHost) \in Nat \ {0} /\ Len(g.toHost) = Len(h.toHost) - 1
        /\ DOMAIN g.toHost = 1 .. Len(g.toHost) /\ DOMAIN h.toHost = 1 .. Len(h.toHost)
        /\ \A k \in DOMAIN g.toHost : g.toHost[k] = h.toHost[k + 1]
    BY <1>4, Fields
  <2> PICK n \in Nat \ {0} : n = Len(h.toHost)
    BY <2>1
  <2>4. \A k \in 1 .. n : h.toHost[k].call = 1 => k = n /\ h.toHost[k].type = "stop"
    BY <1>9, <2>1 DEF Fine
  <2>5. /\ Len(g.toHost) = n - 1 /\ DOMAIN g.toHost = 1 .. n - 1
        /\ \A k \in 1 .. n - 1 : g.toHost[k] = h.toHost[k + 1]
    BY <2>1
  <2>2. ASSUME NEW k \in DOMAIN g.toHost, g.toHost[k].call = 1
        PROVE  k = Len(g.toHost) /\ g.toHost[k].type = "stop"
    <3>1. k \in 1 .. n - 1 /\ k + 1 \in 1 .. n /\ g.toHost[k] = h.toHost[k + 1]
      BY <2>5
    <3>2. k + 1 = n /\ h.toHost[k + 1].type = "stop"
      BY <2>2, <2>4, <3>1
    <3> QED BY <2>5, <3>1, <3>2
  <2>3. ASSUME NEW x \in ToSet(g.fromHost), x.call = 1, x.ok
        PROVE  g.toHost = <<>> /\ g.active = {}
    <3>1. x \notin ToSet(h.fromHost)
      BY <1>9, <2>3 DEF Fine
    <3>8. x = a
      BY <1>3, <1>4, <3>1
    <3>2. m.call = 1 /\ ok
      BY <1>2, <1>11, <2>3, <3>8
    <3>5. 1 \in 1 .. n /\ h.toHost[1] = m
      BY <1>1
    <3>3. n = 1 /\ m.type = "stop"
      BY <2>4, <3>2, <3>5
    <3>4. g.toHost \in Seq(Messages) /\ Len(g.toHost) = 0
      BY <1>1, <1>4, <2>5, <3>3
    <3>6. g.toHost = <<>>
      BY <3>4
    <3>7. g.active = {}
      BY <1>4, <3>2, <3>3
    <3> QED BY <3>6, <3>7
  <2> QED BY <2>2, <2>3
<1>10. Fine(g)
  BY <1>4, <1>5, <1>7, <1>8, <1>9 DEF Fine
<1> QED BY <1>4, <1>5, <1>6, <1>10

\* The process exits.
LEMMA ExitedFine ==
  ASSUME NEW h \in Host, Fine(h), NEW g, g = [h EXCEPT !.state = "exited", !.toHost = <<>>]
  PROVE  /\ g \in Host /\ Fine(g) /\ g.connection = h.connection
         /\ g.terminating <=> h.terminating
<1>1. <<>> \in Seq(Messages) /\ ToSet(<<>>) = {}
  BY DEF ToSet
<1>2. /\ g \in Host /\ g.connection = h.connection /\ g.state = "exited" /\ g.toHost = <<>>
      /\ g.fromHost = h.fromHost /\ g.active = h.active
  BY <1>1 DEF Host
<1>3. (g.terminating <=> h.terminating) /\ (g.owedFirst <=> h.owedFirst)
  BY Zenon DEF Host
<1>4. Fine(g)
  BY <1>1, <1>2, <1>3 DEF Fine
<1> QED BY <1>2, <1>3, <1>4

LEMMA NewFine ==
  ASSUME NEW c \in Connections
  PROVE  /\ NewHost(c) \in Host /\ Fine(NewHost(c)) /\ NewHost(c).connection = c
         /\ ~NewHost(c).terminating
<1> PICK g : g = NewHost(c)
  OBVIOUS
<1>1. <<>> \in Seq(Messages) /\ <<>> \in Seq(ReplyOK) /\ ToSet(<<>>) = {} /\ (~Open(c)) \in BOOLEAN
  BY DEF ToSet, Open
<1>2. /\ g.connection = c /\ g.state = "running" /\ g.toHost = <<>> /\ g.fromHost = <<>>
  BY DEF NewHost
<1>3. ~g.terminating
  BY Zenon DEF NewHost
<1>4. g \in Host
  BY <1>1 DEF NewHost, Host, ReplyOK
<1>5. Fine(g)
  BY <1>1, <1>2, <1>3 DEF Fine
<1> QED BY <1>2, <1>3, <1>4, <1>5

-----------------------------------------------------------------------------
(* All hosts.                                                              *)

HostsFine == \A i \in DOMAIN hosts : Fine(hosts[i])

\* A connection that runs a host runs one of its own, that nobody asked to stop.
Owners ==
  \A c \in Connections :
    /\ childProcess[c] = 0 <=> ~isPluginProcessRunning[c]
    /\ childProcess[c] # 0 =>
         hosts[childProcess[c]].connection = c /\ ~hosts[childProcess[c]].terminating

\* Hosts are of connections that were made; that of the open one is its child process.
InUse ==
  /\ \A i \in DOMAIN hosts :
       /\ hosts[i].connection <= connection
       /\ Open(hosts[i].connection) => childProcess[hosts[i].connection] = i
  /\ \A m \in metadataCalls : m.connection <= connection

HostInv == HostsFine /\ Owners /\ InUse

LEMMA HostsTyped ==
  ASSUME SupportOK
  PROVE  /\ hosts \in Seq(Host) /\ Len(hosts) \in Nat /\ DOMAIN hosts = 1 .. Len(hosts)
         /\ \A i \in DOMAIN hosts : hosts[i] \in Host
         /\ \A c \in Connections : childProcess[c] # 0 => childProcess[c] \in DOMAIN hosts
BY DEF SupportOK

\* Hosts rest, while connections come and go.
LEMMA HostsRest ==
  ASSUME SupportOK, HostInv, connection \in Nat, connection' \in Nat,
         UNCHANGED <<hosts, childProcess, isPluginProcessRunning>>,
         connection' >= connection,
         isOpen' => (isOpen /\ connection' = connection) \/ connection' > connection,
         \A m \in metadataCalls' : m \in metadataCalls \/ m.connection = connection'
                                  \/ \E n \in metadataCalls : m.connection = n.connection,
         metadataCalls \subseteq [connection : Connections, awaits : {"backend", "frontend"}]
  PROVE  SupportOK' /\ HostInv'
<1>1. SupportOK'
  BY DEF SupportOK
<1>2. HostsFine' /\ Owners'
  BY DEF HostInv, HostsFine, Fine, Owners
<1>3. ASSUME NEW i \in DOMAIN hosts
      PROVE  /\ hosts[i].connection <= connection'
             /\ Open(hosts[i].connection)' => childProcess[hosts[i].connection] = i
  <2>1. hosts[i].connection \in Nat /\ hosts[i].connection <= connection
    BY HostsTyped, Fields DEF HostInv, InUse, Connections
  <2>2. Open(hosts[i].connection)' => Open(hosts[i].connection)
    BY <2>1 DEF Open
  <2> QED BY <2>1, <2>2 DEF HostInv, InUse
<1>4. ASSUME NEW m \in metadataCalls' PROVE m.connection <= connection'
  <2>1. \A n \in metadataCalls : n.connection \in Nat /\ n.connection <= connection
    BY DEF HostInv, InUse, Connections
  <2> QED BY <2>1
<1>5. InUse'
  BY <1>3, <1>4 DEF InUse
<1> QED BY <1>1, <1>2, <1>5 DEF HostInv

\* One host changes.
LEMMA OneHost ==
  ASSUME SupportOK, HostInv, NEW i \in DOMAIN hosts, NEW h \in Host, Fine(h),
         h.connection = hosts[i].connection, h.terminating => hosts[i].terminating,
         hosts' = [hosts EXCEPT ![i] = h],
         UNCHANGED <<childProcess, isPluginProcessRunning, connection, isOpen, metadataCalls>>
  PROVE  SupportOK' /\ HostInv'
<1>1. /\ hosts' \in Seq(Host) /\ Len(hosts') = Len(hosts) /\ DOMAIN hosts' = DOMAIN hosts
      /\ hosts'[i] = h /\ \A j \in DOMAIN hosts \ {i} : hosts'[j] = hosts[j]
  BY HostsTyped
<1>2. SupportOK'
  BY <1>1 DEF SupportOK
<1>3. \A j \in DOMAIN hosts : /\ hosts'[j].connection = hosts[j].connection
                              /\ hosts'[j].terminating => hosts[j].terminating
  BY <1>1
<1>4. HostsFine'
  <2>1. ASSUME NEW j \in DOMAIN hosts PROVE Fine(hosts'[j])
    BY <1>1 DEF HostInv, HostsFine
  <2> QED BY <1>1, <2>1 DEF HostsFine, Fine
<1>5. Owners'
  BY <1>3, HostsTyped DEF HostInv, Owners
<1>6. InUse'
  BY <1>1, <1>3 DEF HostInv, InUse, Open
<1> QED BY <1>2, <1>4, <1>5, <1>6 DEF HostInv

\* A host is run for a connection of a call of getDeployedMetadata.
LEMMA RunHost ==
  ASSUME SupportOK, HostInv, NEW c \in Connections, RunPluginServer(c), c <= connection,
         connection \in Nat,
         UNCHANGED <<connection, isOpen>>,
         \A m \in metadataCalls' : \E n \in metadataCalls : m.connection = n.connection
  PROVE  SupportOK' /\ HostInv'
<1>1. \A m \in metadataCalls' : m.connection <= connection'
  BY DEF HostInv, InUse
<1>2. CASE MayRun(c)
  <2>1. childProcess[c] = 0
    BY <1>2 DEF MayRun, HostInv, Owners
  <2>2. PICK n \in Nat : n = Len(hosts) + 1
    BY HostsTyped
  <2>3. PICK h : h = NewHost(c)
    OBVIOUS
  <2>4. h \in Host /\ Fine(h) /\ h.connection = c /\ ~h.terminating
    BY <2>3, NewFine
  <2>5. /\ hosts' = Append(hosts, h)
        /\ childProcess' = [childProcess EXCEPT ![c] = n]
        /\ isPluginProcessRunning' = [isPluginProcessRunning EXCEPT ![c] = TRUE]
    BY <1>2, <2>1, <2>2, <2>3 DEF RunPluginServer, Terminated
  <2>6. /\ hosts' \in Seq(Host) /\ Len(hosts') = n /\ DOMAIN hosts' = DOMAIN hosts \cup {n}
        /\ hosts'[n] = h /\ n \notin DOMAIN hosts /\ n # 0
        /\ \A i \in DOMAIN hosts : hosts'[i] = hosts[i]
    BY <2>2, <2>4, <2>5, HostsTyped
  <2>7. SupportOK'
    <3>1. \A x \in Connections : childProcess'[x] \in 0 .. n
      BY <2>2, <2>5 DEF SupportOK
    <3> QED BY <2>5, <2>6, <3>1 DEF SupportOK
  <2>8. HostsFine'
    <3>1. \A i \in DOMAIN hosts' : Fine(hosts'[i])
      BY <2>4, <2>6 DEF HostInv, HostsFine
    <3> QED BY <3>1 DEF HostsFine, Fine
  <2>9. Owners'
    <3>1. ASSUME NEW x \in Connections
          PROVE  /\ childProcess'[x] = 0 <=> ~isPluginProcessRunning'[x]
                 /\ childProcess'[x] # 0 => /\ hosts'[childProcess'[x]].connection = x
                                           /\ ~hosts'[childProcess'[x]].terminating
      <4>1. CASE x = c
        <5>1. childProcess'[x] = n /\ isPluginProcessRunning'[x]
          BY <2>5, <4>1 DEF SupportOK
        <5> QED BY <2>4, <2>6, <4>1, <5>1
      <4>2. CASE x # c
        <5>1. childProcess'[x] = childProcess[x]
          BY <2>5, <4>2 DEF SupportOK
        <5>2. isPluginProcessRunning'[x] <=> isPluginProcessRunning[x]
          BY <2>5, <4>2 DEF SupportOK
        <5>3. childProcess[x] # 0 => hosts'[childProcess[x]] = hosts[childProcess[x]]
          BY <2>6, HostsTyped
        <5> QED BY <5>1, <5>2, <5>3 DEF HostInv, Owners
      <4> QED BY <4>1, <4>2
    <3> QED BY <3>1 DEF Owners
  <2>10. InUse'
    <3>1. ASSUME NEW i \in DOMAIN hosts'
          PROVE  /\ hosts'[i].connection <= connection
                 /\ Open(hosts'[i].connection) => childProcess'[hosts'[i].connection] = i
      <4>1. CASE i = n
        BY <2>4, <2>5, <2>6, <4>1 DEF SupportOK
      <4>2. CASE i # n
        <5>1. /\ i \in DOMAIN hosts /\ hosts'[i] = hosts[i] /\ hosts[i].connection <= connection
              /\ hosts[i].connection \in Connections
          BY <2>6, <4>2, HostsTyped, Fields DEF HostInv, InUse
        <5>2. Open(hosts[i].connection) => childProcess[hosts[i].connection] = i /\ i # 0
          BY <5>1, HostsTyped DEF HostInv, InUse
        <5>3. Open(hosts[i].connection) => hosts[i].connection # c
          BY <2>1, <5>2
        <5> QED BY <2>5, <5>1, <5>2, <5>3 DEF SupportOK
      <4> QED BY <4>1, <4>2
    <3> QED BY <1>1, <3>1 DEF InUse, Open
  <2> QED BY <2>7, <2>8, <2>9, <2>10 DEF HostInv
<1>3. CASE ~MayRun(c)
  <2>1. UNCHANGED <<hosts, childProcess, isPluginProcessRunning>>
    BY <1>3 DEF RunPluginServer
  <2>2. SupportOK' /\ HostsFine' /\ Owners'
    BY <2>1 DEF SupportOK, HostInv, HostsFine, Fine, Owners
  <2>3. InUse'
    BY <1>1, <2>1 DEF HostInv, InUse, Open
  <2> QED BY <2>2, <2>3 DEF HostInv
<1> QED BY <1>2, <1>3

\* The connection closes and its host is asked to stop.
LEMMA LostHost ==
  ASSUME SupportOK, HostInv, connection \in Connections, hosts' = Terminated(connection),
         childProcess' = [childProcess EXCEPT ![connection] = 0],
         isPluginProcessRunning' = [isPluginProcessRunning EXCEPT ![connection] = FALSE],
         ~isOpen', UNCHANGED <<connection, metadataCalls>>
  PROVE  SupportOK' /\ HostInv'
<1> PICK c \in Connections : c = connection
  OBVIOUS
<1>1. \E i \in {0} \cup DOMAIN hosts :
        /\ i = childProcess[c]
        /\ DOMAIN hosts' = DOMAIN hosts /\ Len(hosts') = Len(hosts) /\ hosts' \in Seq(Host)
        /\ \A j \in DOMAIN hosts \ {i} : hosts'[j] = hosts[j]
        /\ i # 0 => hosts'[i].connection = c /\ hosts[i].connection = c /\ Fine(hosts'[i])
  <2>1. CASE childProcess[c] = 0
    BY <2>1, HostsTyped DEF Terminated
  <2>2. CASE childProcess[c] # 0
    <3>1. PICK i \in DOMAIN hosts : i = childProcess[c]
      BY <2>2, HostsTyped
    <3>2. PICK h : h = AskedToStop(hosts[i])
      OBVIOUS
    <3>3. /\ hosts[i] \in Host /\ Fine(hosts[i]) /\ hosts[i].connection = c
          /\ ~hosts[i].terminating
      BY <2>2, <3>1, HostsTyped DEF HostInv, HostsFine, Owners
    <3>4. h \in Host /\ Fine(h) /\ h.connection = c
      BY <3>2, <3>3, AskedFine
    <3>5. hosts' = [hosts EXCEPT ![i] = h]
      BY <2>2, <3>1, <3>2 DEF Terminated
    <3>6. /\ hosts' \in Seq(Host) /\ Len(hosts') = Len(hosts) /\ DOMAIN hosts' = DOMAIN hosts
          /\ hosts'[i] = h /\ \A j \in DOMAIN hosts \ {i} : hosts'[j] = hosts[j]
      BY <3>4, <3>5, HostsTyped
    <3> QED BY <3>1, <3>3, <3>4, <3>6
  <2> QED BY <2>1, <2>2
<1>2. PICK i \in {0} \cup DOMAIN hosts :
        /\ i = childProcess[c]
        /\ DOMAIN hosts' = DOMAIN hosts /\ Len(hosts') = Len(hosts) /\ hosts' \in Seq(Host)
        /\ \A j \in DOMAIN hosts \ {i} : hosts'[j] = hosts[j]
        /\ i # 0 => hosts'[i].connection = c /\ hosts[i].connection = c /\ Fine(hosts'[i])
  BY <1>1
<1>3. 0 \notin DOMAIN hosts
  BY HostsTyped
<1>4. \A j \in DOMAIN hosts : hosts'[j].connection = hosts[j].connection
  BY <1>2, <1>3
<1>5. SupportOK'
  <2>1. childProcess' \in [Connections -> 0 .. Len(hosts)]
    BY HostsTyped DEF SupportOK
  <2> QED BY <1>2, <2>1 DEF SupportOK
<1>6. HostsFine'
  <2>1. \A j \in DOMAIN hosts : Fine(hosts'[j])
    BY <1>2, <1>3 DEF HostInv, HostsFine
  <2> QED BY <1>2, <2>1 DEF HostsFine, Fine
<1>7. Owners'
  <2>1. ASSUME NEW x \in Connections
        PROVE  /\ childProcess'[x] = 0 <=> ~isPluginProcessRunning'[x]
               /\ childProcess'[x] # 0 => /\ hosts'[childProcess'[x]].connection = x
                                         /\ ~hosts'[childProcess'[x]].terminating
    <3>1. CASE x = c
      <4>1. childProcess'[x] = 0 /\ ~isPluginProcessRunning'[x]
        BY <3>1 DEF SupportOK
      <4> QED BY <4>1
    <3>2. CASE x # c
      <4>1. childProcess'[x] = childProcess[x]
        BY <3>2 DEF SupportOK
      <4>2. isPluginProcessRunning'[x] <=> isPluginProcessRunning[x]
        BY <3>2 DEF SupportOK
      <4>3. childProcess[x] # 0 => hosts[childProcess[x]].connection = x
        BY DEF HostInv, Owners
      <4>4. childProcess[x] # 0 => childProcess[x] # i
        BY <1>2, <3>2, <4>3
      <4>5. childProcess[x] # 0 => hosts'[childProcess[x]] = hosts[childProcess[x]]
        BY <1>2, <4>4, HostsTyped
      <4> QED BY <4>1, <4>2, <4>5 DEF HostInv, Owners
    <3> QED BY <3>1, <3>2
  <2> QED BY <2>1 DEF Owners
<1>8. InUse'
  BY <1>2, <1>4 DEF HostInv, InUse, Open
<1> QED BY <1>5, <1>6, <1>7, <1>8 DEF HostInv

-----------------------------------------------------------------------------
(* The invariant, and the steps.                                           *)

\* Nothing arrives before the first connection.
Connected == connection = 0 => ~isOpen /\ requests = <<>>

IInv == TypeOK /\ DeployInv /\ HostInv /\ Connected

LEMMA FewFailures ==
  ASSUME IInv
  PROVE  failures \in 0 .. MaxFailures
BY Pieces DEF IInv, DeploymentOK

LEMMA Counted ==
  ASSUME IInv, NEW wrong \in BOOLEAN, Fails(wrong)
  PROVE  failures' \in 0 .. MaxFailures
BY FewFailures, DeploymentAssumption DEF Fails

LEMMA StartsTyped ==
  ASSUME IInv, NEW ps \in SUBSET Plugins, NEW started \in SUBSET ps, Starts(ps, started)
  PROVE  runs' \in [Plugins -> Nat] /\ unstarted' \subseteq Plugins
BY Pieces DEF IInv, BrowserOK, Starts

\* What a call leaves on the way.
Sent ==
  /\ waiting' \in Seq(Calls) /\ requests' \in Seq(Calls)
  /\ connectionPromise = 0 => requests' = requests

LEMMA CallPuts ==
  ASSUME ProxyOK, NEW cs \in Seq(Calls), Call(cs)
  PROVE  Sent
<1>1. waiting \o cs \in Seq(Calls) /\ requests \o cs \in Seq(Calls)
  BY DEF ProxyOK
<1> QED BY <1>1 DEF Call, Sent, ProxyOK

LEMMA ShortSeqs ==
  /\ <<>> \in Seq(Calls) /\ <<>> \in Seq(Answers)
  /\ \A c \in Calls : <<c>> \in Seq(Calls)
OBVIOUS

\* Nothing of deployments changes, and before the start nothing is sent.
LEMMA DeploymentsRest ==
  ASSUME DeploymentOK, DeployInv, UNCHANGED <<deploymentVars, overlapped>>,
         failures' \in 0 .. MaxFailures,
         \/ phase[Startup] # "none"
         \/ (connectionPromise = 0 /\ requests = <<>> =>
               connectionPromise' = 0 /\ requests' = <<>>)
  PROVE  DeploymentOK' /\ DeployInv'
<1>1. /\ UNCHANGED <<phase, pluginDeployerEntries, unpacking, unpacked, toRead, deployed,
                     resolvedDeferreds, unreadable>>
      /\ UNCHANGED overlapped
  BY DEF deploymentVars
<1>2. DeploymentOK'
  BY <1>1 DEF DeploymentOK
<1>3. Solo'
  BY <1>1 DEF DeployInv, Solo, IsPreparing
<1>4. Kept'
  BY <1>1 DEF DeployInv, Kept, KeptOf, EntriesOf
<1>5. StartsFirst' /\ Begun'
  BY <1>1 DEF DeployInv, StartsFirst, Begun
<1> QED BY <1>2, <1>3, <1>4, <1>5 DEF DeployInv

\* A step of the browser.
LEMMA BrowserStep ==
  ASSUME IInv, Sent, answers' \in Seq(Answers), BrowserOK', failures' \in 0 .. MaxFailures,
         UNCHANGED <<connection, isOpen, connectionPromise>>,
         UNCHANGED <<deploymentVars, support, asker, hosts, overlapped>>
  PROVE  IInv'
<1>1. DeploymentOK /\ ProxyOK /\ SupportOK /\ BackendOK
  BY Pieces DEF IInv
<1>2. ProxyOK'
  BY <1>1 DEF Sent, ProxyOK
<1>3. DeploymentOK' /\ DeployInv'
  BY <1>1, DeploymentsRest DEF IInv, Sent
<1>4. SupportOK' /\ HostInv'
  <2>1. connection \in Nat /\ UNCHANGED <<childProcess, isPluginProcessRunning, metadataCalls>>
    BY <1>1, ProxyAssumption DEF support, ProxyOK
  <2> QED BY <1>1, <2>1, HostsRest DEF IInv, BackendOK
<1>5. BackendOK'
  BY <1>1 DEF BackendOK, support
<1>6. Connected'
  BY <1>1 DEF IInv, Connected, Sent, ProxyOK
<1> QED BY <1>2, <1>3, <1>4, <1>5, <1>6, PiecesKept DEF IInv

LEMMA CheckAndLoadPluginStep ==
  ASSUME IInv, CheckAndLoadPlugin
  PROVE  IInv'
<1>1. ProxyOK /\ BrowserOK
  BY Pieces DEF IInv
<1>2. PICK c \in Calls : c = MetadataCall
  BY DEF Calls
<1>3. Sent
  BY <1>1, <1>2, CallPuts, ShortSeqs DEF CheckAndLoadPlugin
<1>4. BrowserOK' /\ answers' \in Seq(Answers)
  BY <1>1 DEF BrowserOK, ProxyOK, CheckAndLoadPlugin
<1> QED BY <1>3, <1>4, FewFailures, BrowserStep DEF CheckAndLoadPlugin

LEMMA AskDeployStep ==
  ASSUME IInv, NEW d \in Deploys, AskDeploy(d)
  PROVE  IInv'
<1>1. ProxyOK /\ BrowserOK
  BY Pieces DEF IInv
<1>2. PICK c \in Calls : c = DeployCall(d)
  BY DEF Calls
<1>3. Sent
  BY <1>1, <1>2, CallPuts, ShortSeqs DEF AskDeploy
<1>4. BrowserOK' /\ answers' \in Seq(Answers)
  BY <1>1 DEF BrowserOK, browser, ProxyOK, AskDeploy
<1> QED BY <1>3, <1>4, FewFailures, BrowserStep DEF AskDeploy

LEMMA LoadTyped ==
  ASSUME IInv, NEW batch \in SUBSET Plugins, Load(batch)
  PROVE  /\ Sent /\ loadedPlugins' \subseteq Plugins /\ callId' \in Nat
         /\ runs' \in [Plugins -> Nat] /\ unstarted' \subseteq Plugins
         /\ failures' \in 0 .. MaxFailures
<1>1. ProxyOK /\ BrowserOK
  BY Pieces DEF IInv
<1>2. PICK n \in Nat \ {0} : n = callId + 1
  BY <1>1 DEF BrowserOK
<1>3. PICK ps \in SUBSET Plugins : ps = batch \cap Backend
  OBVIOUS
<1>4. InitCall(n, ps) \in Calls
  BY DEF InitCall, Calls
<1>5. PICK cs \in Seq(Calls) : cs = IF ps = {} THEN <<>> ELSE <<InitCall(n, ps)>>
  BY <1>4, ShortSeqs
<1>6. Call(cs)
  BY <1>2, <1>3, <1>5 DEF Load
<1>7. Sent
  BY <1>1, <1>6, CallPuts
<1>8. /\ runs' \in [Plugins -> Nat] /\ unstarted' \subseteq Plugins
      /\ failures' \in 0 .. MaxFailures
  <2>1. PICK started \in SUBSET (batch \cap Frontend) :
          Starts(batch \cap Frontend, started) /\ Fails(started # batch \cap Frontend)
    BY DEF Load
  <2>2. batch \cap Frontend \in SUBSET Plugins
    OBVIOUS
  <2> QED BY <2>1, <2>2, StartsTyped, Counted
<1> QED BY <1>1, <1>7, <1>8 DEF BrowserOK, Load

LEMMA AnsweredStep ==
  ASSUME IInv, Answered
  PROVE  IInv'
<1>1. ProxyOK /\ BrowserOK
  BY Pieces DEF IInv
<1>2. PICK a : a = Head(answers)
  OBVIOUS
<1>3. /\ answers # <<>> /\ a \in Answers /\ answers' = Tail(answers)
      /\ answers' \in Seq(Answers)
      /\ UNCHANGED <<connection, isOpen, connectionPromise>>
      /\ UNCHANGED <<deploymentVars, support, asker, hosts, overlapped>>
      /\ UNCHANGED <<initialized, theiaReady>>
  BY <1>1, <1>2, TakenApart DEF Answered, ProxyOK
<1>4. CASE a.op = "metadata" /\ LoadPlugins(a.plugins)
  <2>1. PICK batch \in SUBSET Plugins : batch = a.plugins \ loadedPlugins
    <3>1. a # [op |-> "deployed"]
      BY <1>4
    <3>2. a \in [op : {"metadata"}, plugins : SUBSET Plugins]
      BY <1>3, <3>1 DEF Answers
    <3> QED BY <3>2
  <2>2. CASE Load(batch) /\ UNCHANGED loads
    <3>1. Sent /\ BrowserOK' /\ failures' \in 0 .. MaxFailures
      BY <1>1, <1>3, <2>2, LoadTyped DEF BrowserOK
    <3> QED BY <1>3, <3>1, BrowserStep
  <2>3. CASE /\ loads' = Append(loads, batch)
             /\ UNCHANGED <<loadedPlugins, callId, waiting, requests, failures, runs, unstarted>>
    <3>1. Sent /\ BrowserOK' /\ failures' \in 0 .. MaxFailures
      BY <1>1, <1>3, <2>3, FewFailures, Appended DEF BrowserOK, Sent, ProxyOK
    <3> QED BY <1>3, <3>1, BrowserStep
  <2> QED BY <1>4, <2>1, <2>2, <2>3 DEF LoadPlugins
<1>5. CASE /\ Call(<<MetadataCall>>)
           /\ UNCHANGED <<loads, loadedPlugins, callId, failures, runs, unstarted>>
  <2>1. PICK c \in Calls : c = MetadataCall
    BY DEF Calls
  <2>2. Sent /\ BrowserOK' /\ failures' \in 0 .. MaxFailures
    BY <1>1, <1>3, <1>5, <2>1, CallPuts, FewFailures, ShortSeqs DEF BrowserOK
  <2> QED BY <1>3, <2>2, BrowserStep
<1> QED BY <1>2, <1>4, <1>5 DEF Answered

LEMMA TheiaReadyStep ==
  ASSUME IInv, TheiaReady
  PROVE  IInv'
<1>1. ProxyOK /\ BrowserOK
  BY Pieces DEF IInv
<1>2. BrowserOK' /\ Sent /\ answers' \in Seq(Answers)
      /\ UNCHANGED <<connection, isOpen, connectionPromise>>
  BY <1>1 DEF BrowserOK, TheiaReady, proxyVars, Sent, ProxyOK
<1> QED BY <1>2, FewFailures, BrowserStep DEF TheiaReady

LEMMA LoadGoesOnStep ==
  ASSUME IInv, LoadGoesOn
  PROVE  IInv'
<1>1. ProxyOK /\ BrowserOK
  BY Pieces DEF IInv
<1>2. PICK batch \in SUBSET Plugins : batch = Head(loads)
  BY <1>1, TakenApart DEF LoadGoesOn, BrowserOK
<1>3. Sent /\ loads' \in Seq(SUBSET Plugins)
  BY <1>1, <1>2, LoadTyped, TakenApart DEF LoadGoesOn, BrowserOK
<1>4. BrowserOK' /\ answers' \in Seq(Answers) /\ failures' \in 0 .. MaxFailures
  BY <1>1, <1>2, <1>3, LoadTyped DEF LoadGoesOn, BrowserOK, ProxyOK
<1> QED BY <1>3, <1>4, BrowserStep DEF LoadGoesOn

LEMMA ConnectStep ==
  ASSUME IInv, Connect
  PROVE  IInv'
<1>1. DeploymentOK /\ ProxyOK /\ BrowserOK /\ SupportOK /\ BackendOK /\ MaxConnections \in Nat
  BY Pieces, ProxyAssumption DEF IInv
<1>2. requests' \in Seq(Calls) /\ waiting' \in Seq(Calls) /\ answers' \in Seq(Answers)
  BY <1>1 DEF Connect, Listen, ProxyOK
<1>3. /\ connection \in Nat /\ connection' = connection + 1 /\ connection' \in 0 .. MaxConnections
      /\ isOpen' = TRUE /\ connectionPromise' = connection'
  BY <1>1 DEF Connect, Listen, ProxyOK
<1>4. ProxyOK'
  BY <1>2, <1>3 DEF ProxyOK
<1>5. DeploymentOK' /\ DeployInv'
  BY <1>1, FewFailures, DeploymentsRest DEF IInv, Connect
<1>6. SupportOK' /\ HostInv'
  BY <1>1, <1>3, HostsRest DEF IInv, Connect, support, BackendOK
<1>7. BrowserOK' /\ BackendOK'
  BY <1>1 DEF Connect, browser, BrowserOK, support, BackendOK
<1>8. Connected'
  BY <1>3 DEF Connected
<1> QED BY <1>4, <1>5, <1>6, <1>7, <1>8, PiecesKept DEF IInv

LEMMA ConnectionLostStep ==
  ASSUME IInv, ConnectionLost
  PROVE  IInv'
<1>1. DeploymentOK /\ ProxyOK /\ BrowserOK /\ SupportOK /\ BackendOK
  BY Pieces DEF IInv
<1>2. connection \in Connections /\ ~isOpen' /\ UNCHANGED connection
  BY <1>1 DEF IInv, Connected, ConnectionLost, Break, ProxyOK, Connections
<1>3. requests' = <<>> /\ answers' = <<>> /\ connectionPromise' = 0 /\ UNCHANGED waiting
  BY DEF ConnectionLost, Break
<1>4. ProxyOK'
  <2>1. isOpen' \in BOOLEAN
    BY DEF ConnectionLost, Break
  <2> QED BY <1>1, <1>2, <1>3, <2>1, ShortSeqs DEF ProxyOK
<1>5. DeploymentOK' /\ DeployInv'
  BY <1>1, <1>3, FewFailures, DeploymentsRest DEF IInv, ConnectionLost
<1>6. SupportOK' /\ HostInv'
  BY <1>1, <1>2, LostHost DEF IInv, ConnectionLost
<1>7. BrowserOK' /\ BackendOK'
  BY <1>1 DEF ConnectionLost, browser, BrowserOK, BackendOK
<1>8. Connected'
  BY <1>2, <1>3 DEF Connected
<1> QED BY <1>4, <1>5, <1>6, <1>7, <1>8, PiecesKept DEF IInv

LEMMA StartBackendStep ==
  ASSUME IInv, StartBackend
  PROVE  IInv'
<1>1. DeploymentOK /\ ProxyOK /\ BrowserOK /\ SupportOK /\ BackendOK
  BY Pieces DEF IInv
<1>2. /\ DeploymentOK' /\ phase[Startup] = "none" /\ phase'[Startup] = "resolving"
      /\ \A e \in Deploys \ {Startup} : phase'[e] = phase[e]
  BY <1>1, StartTyped, HostsAssumption DEF StartBackend
<1>3. Kept' /\ Begun'
  BY <1>1, StartKeeps, HostsAssumption DEF StartBackend, IInv, DeployInv
<1>4. Solo'
  <2>1. \A e \in Deploys : phase[e] = "none"
    BY <1>2 DEF IInv, DeployInv, StartsFirst
  <2>2. \A e \in Deploys : IsPreparing(e)' => e = Startup
    BY <1>2, <2>1 DEF IsPreparing
  <2> QED BY <2>2 DEF Solo
<1>5. StartsFirst'
  BY <1>2 DEF StartsFirst
<1>6. ProxyOK' /\ Connected'
  BY <1>1 DEF StartBackend, proxyVars, ProxyOK, IInv, Connected
<1>7. BrowserOK' /\ BackendOK'
  BY <1>1 DEF StartBackend, browser, BrowserOK, support, BackendOK
<1>8. SupportOK' /\ HostInv'
  <2>1. connection \in Nat /\ UNCHANGED <<connection, isOpen, childProcess,
                                        isPluginProcessRunning, metadataCalls>>
    BY <1>1, ProxyAssumption DEF StartBackend, proxyVars, support, ProxyOK
  <2> QED BY <1>1, <2>1, HostsRest DEF IInv, StartBackend, BackendOK
<1> QED BY <1>2, <1>3, <1>4, <1>5, <1>6, <1>7, <1>8, PiecesKept DEF IInv, DeployInv

\* The backend takes a request.
LEMMA ServeTyped ==
  ASSUME IInv, requests # <<>>, Serve(<<>>)
  PROVE  /\ ProxyOK' /\ Connected' /\ connection \in Connections
         /\ Head(requests) \in Calls /\ phase[Startup] # "none"
         /\ UNCHANGED <<connection, isOpen, connectionPromise>>
<1>1. ProxyOK
  BY Pieces DEF IInv
<1>2. Head(requests) \in Calls /\ Tail(requests) \in Seq(Calls)
  BY <1>1, TakenApart DEF ProxyOK
<1>3. answers' \in Seq(Answers)
  <2>1. answers \o <<>> \in Seq(Answers)
    BY <1>1 DEF ProxyOK
  <2> QED BY <2>1 DEF Serve
<1>4. ProxyOK'
  BY <1>1, <1>2, <1>3 DEF Serve, ProxyOK
<1>5. connection \in Connections
  BY <1>1, ProxyAssumption DEF IInv, Connected, ProxyOK, Connections
<1> QED BY <1>2, <1>4, <1>5 DEF Serve, Connected, IInv, DeployInv, StartsFirst, Connections

LEMMA ServeDeployStep ==
  ASSUME IInv, ServeDeploy
  PROVE  IInv'
<1>1. DeploymentOK /\ ProxyOK /\ BrowserOK /\ SupportOK /\ BackendOK
  BY Pieces DEF IInv
<1>2. /\ ProxyOK' /\ Connected' /\ connection \in Connections /\ Head(requests) \in Calls
      /\ phase[Startup] # "none" /\ UNCHANGED <<connection, isOpen, connectionPromise>>
  BY ServeTyped DEF ServeDeploy
<1>3. PICK d \in Deploys : d = Head(requests).deploy
  <2>1. Head(requests).op = "deploy"
    BY DEF ServeDeploy
  <2>2. PICK d \in Deploys : Head(requests) = DeployCall(d)
    BY <1>2, <2>1 DEF Calls, MetadataCall
  <2> QED BY <2>2 DEF DeployCall
<1>4. /\ StartDeploy(d) /\ asker' = [asker EXCEPT ![d] = connection]
      /\ overlapped' = overlapped \cup Overlapping'
      /\ UNCHANGED <<browser, support, hosts, runs, unstarted>>
  BY <1>3 DEF ServeDeploy
<1>5. /\ DeploymentOK' /\ phase[d] = "none" /\ phase'[d] = "resolving"
      /\ \A e \in Deploys \ {d} : phase'[e] = phase[e]
  BY <1>1, <1>4, StartTyped
<1>6. Kept' /\ Begun'
  BY <1>1, <1>4, StartKeeps DEF IInv, DeployInv
<1>7. Solo'
  <2>1. ASSUME NEW x \in Deploys, NEW y \in Deploys, x # y, IsPreparing(x)', IsPreparing(y)'
        PROVE  x \in Overlapping'
    <3>1. PICK P : P = Preparing'
      OBVIOUS
    <3>2. P \in SUBSET Deploys /\ x \in P /\ y \in P
      BY <2>1, <3>1 DEF Preparing, IsPreparing
    <3>3. Cardinality(P) > 1
      BY <2>1, <3>2, TwoOrMore
    <3> QED BY <3>1, <3>2, <3>3 DEF Overlapping
  <2> QED BY <1>4, <2>1 DEF Solo
<1>8. StartsFirst'
  BY <1>2, <1>5, HostsAssumption DEF StartsFirst
<1>9. BrowserOK' /\ BackendOK'
  <2>1. overlapped' \subseteq Deploys
    BY <1>1, <1>4 DEF BackendOK, Overlapping, Preparing
  <2>2. asker' \in [Deploys -> 0 .. MaxConnections]
    BY <1>1, <1>4 DEF BackendOK, ProxyOK
  <2> QED BY <1>1, <1>4, <2>1, <2>2 DEF browser, BrowserOK, support, BackendOK
<1>10. SupportOK' /\ HostInv'
  <2>1. connection \in Nat /\ UNCHANGED <<childProcess, isPluginProcessRunning, metadataCalls>>
    BY <1>2, <1>4 DEF support, Connections
  <2> QED BY <1>1, <1>2, <1>4, <2>1, HostsRest DEF IInv, BackendOK
<1> QED BY <1>2, <1>5, <1>6, <1>7, <1>8, <1>9, <1>10, PiecesKept DEF IInv, DeployInv

LEMMA DeploymentStep ==
  ASSUME IInv, NEW d \in Deploys, Deployment(d)
  PROVE  IInv'
<1>1. DeploymentOK /\ ProxyOK /\ BrowserOK /\ SupportOK /\ BackendOK
  BY Pieces DEF IInv
<1>2. DeploymentOK' /\ DeployInv'
  BY <1>1, DeployStepKeeps DEF IInv, Deployment
<1>3. answers' \in Seq(Answers)
  <2>1. PICK a \in Answers : a = [op |-> "deployed"]
    BY DEF Answers
  <2> QED BY <1>1, <2>1, Appended DEF ProxyOK, Deployment
<1>4. ProxyOK' /\ Connected'
  BY <1>1, <1>3 DEF Deployment, ProxyOK, IInv, Connected
<1>5. BrowserOK' /\ BackendOK'
  BY <1>1 DEF Deployment, browser, BrowserOK, support, BackendOK
<1>6. SupportOK' /\ HostInv'
  <2>1. connection \in Nat /\ UNCHANGED <<childProcess, isPluginProcessRunning, metadataCalls>>
    BY <1>1, ProxyAssumption DEF Deployment, support, ProxyOK
  <2> QED BY <1>1, <2>1, HostsRest DEF IInv, Deployment, BackendOK
<1> QED BY <1>2, <1>4, <1>5, <1>6, PiecesKept DEF IInv

LEMMA ServeMetadataStep ==
  ASSUME IInv, ServeMetadata
  PROVE  IInv'
<1>1. DeploymentOK /\ ProxyOK /\ BrowserOK /\ SupportOK /\ BackendOK
  BY Pieces DEF IInv
<1>2. /\ ProxyOK' /\ Connected' /\ connection \in Connections
      /\ phase[Startup] # "none" /\ UNCHANGED <<connection, isOpen, connectionPromise>>
  BY ServeTyped DEF ServeMetadata
<1>3. DeploymentOK' /\ DeployInv'
  BY <1>1, <1>2, FewFailures, DeploymentsRest DEF IInv, ServeMetadata
<1>4. PICK m \in [connection : Connections, awaits : {"backend", "frontend"}] :
        m = [connection |-> connection, awaits |-> "backend"]
  BY <1>2
<1>5. metadataCalls' = metadataCalls \cup {m} /\ m.connection = connection
  BY <1>4 DEF ServeMetadata
<1>6. BrowserOK' /\ BackendOK'
  BY <1>1, <1>5 DEF ServeMetadata, browser, BrowserOK, BackendOK
<1>7. SupportOK' /\ HostInv'
  <2>1. connection \in Nat
    BY <1>2 DEF Connections
  <2> QED BY <1>1, <1>2, <1>5, <2>1, HostsRest DEF IInv, ServeMetadata, BackendOK
<1> QED BY <1>2, <1>3, <1>6, <1>7, PiecesKept DEF IInv

LEMMA ServeMessageStep ==
  ASSUME IInv, ServeMessage
  PROVE  IInv'
<1>1. DeploymentOK /\ ProxyOK /\ BrowserOK /\ SupportOK /\ BackendOK
  BY Pieces DEF IInv
<1>2. /\ ProxyOK' /\ Connected' /\ connection \in Connections /\ Head(requests) \in Calls
      /\ phase[Startup] # "none" /\ UNCHANGED <<connection, isOpen, connectionPromise>>
  BY ServeTyped DEF ServeMessage
<1>3. DeploymentOK' /\ DeployInv'
  BY <1>1, <1>2, FewFailures, DeploymentsRest DEF IInv, ServeMessage
<1>4. PICK m \in Messages : m.type = "init" /\
        m = InitMessage(Head(requests).call, Head(requests).plugins)
  <2>1. Head(requests).op = "message"
    BY DEF ServeMessage
  <2>2. /\ \A d \in Deploys : Head(requests) # DeployCall(d)
        /\ Head(requests) # MetadataCall
    BY <2>1 DEF DeployCall, MetadataCall
  <2>3. Head(requests) \in [op : {"message"}, call : Nat \ {0}, plugins : SUBSET Plugins]
    BY <1>2, <2>2 DEF Calls
  <2> QED BY <2>3 DEF InitMessage, Messages
<1>5. BrowserOK' /\ BackendOK'
  BY <1>1 DEF ServeMessage, browser, BrowserOK, support, BackendOK
<1>6. UNCHANGED <<childProcess, isPluginProcessRunning, metadataCalls>>
  BY DEF ServeMessage, support
<1>7. SupportOK' /\ HostInv'
  <2>1. CASE childProcess[connection] = 0
    <3>1. connection \in Nat /\ UNCHANGED hosts
      BY <1>2, <2>1 DEF Connections, ServeMessage
    <3> QED BY <1>1, <1>2, <1>6, <3>1, HostsRest DEF IInv, BackendOK
  <2>2. CASE childProcess[connection] # 0
    <3>1. PICK i \in DOMAIN hosts : i = childProcess[connection]
      BY <1>1, <1>2, <2>2, HostsTyped
    <3>2. hosts[i] \in Host /\ Fine(hosts[i]) /\ ~hosts[i].terminating
      BY <1>1, <1>2, <2>2, <3>1, HostsTyped DEF IInv, HostInv, HostsFine, Owners
    <3>3. PICK h : h = Delivered(hosts[i], m)
      OBVIOUS
    <3>4. h \in Host /\ Fine(h) /\ h.connection = hosts[i].connection /\ ~h.terminating
      BY <1>4, <3>2, <3>3, DeliveredFine
    <3>5. hosts' = [hosts EXCEPT ![i] = h]
      BY <1>4, <2>2, <3>1, <3>3 DEF ServeMessage
    <3> QED BY <1>1, <1>2, <1>6, <3>4, <3>5, OneHost DEF IInv
  <2> QED BY <2>1, <2>2
<1> QED BY <1>2, <1>3, <1>5, <1>7, PiecesKept DEF IInv

LEMMA MetadataGoesOnStep ==
  ASSUME IInv, NEW m \in metadataCalls, MetadataGoesOn(m)
  PROVE  IInv'
<1>1. DeploymentOK /\ ProxyOK /\ BrowserOK /\ SupportOK /\ BackendOK
  BY Pieces DEF IInv
<1>2. DeploymentOK' /\ DeployInv'
  BY <1>1, FewFailures, DeploymentsRest DEF IInv, MetadataGoesOn
<1>3. /\ m \in [connection : Connections, awaits : {"backend", "frontend"}]
      /\ m.connection \in Connections /\ m.connection <= connection /\ connection \in Nat
  BY <1>1, ProxyAssumption DEF BackendOK, IInv, HostInv, InUse, ProxyOK
<1>4. PICK n \in [connection : Connections, awaits : {"backend", "frontend"}] :
        n = [m EXCEPT !.awaits = "frontend"] /\ n.connection = m.connection
  <2>1. /\ [m EXCEPT !.awaits = "frontend"] \in
             [connection : Connections, awaits : {"backend", "frontend"}]
        /\ [m EXCEPT !.awaits = "frontend"].connection = m.connection
    BY <1>3
  <2> QED BY <2>1
<1>5. metadataCalls' \subseteq (metadataCalls \ {m}) \cup {n}
  BY <1>4 DEF MetadataGoesOn
<1>6. answers' \in Seq(Answers)
  <2>1. PICK a \in Answers : a = [op |-> "metadata", plugins |-> deployed]
    BY <1>1 DEF Answers, DeploymentOK
  <2> QED BY <1>1, <2>1, Appended DEF ProxyOK, MetadataGoesOn
<1>7. /\ UNCHANGED <<connection, isOpen, connectionPromise, waiting, requests,
                    browser, asker, runs, unstarted, overlapped>>
  BY DEF MetadataGoesOn
<1>8. ProxyOK' /\ Connected'
  BY <1>1, <1>6, <1>7 DEF ProxyOK, IInv, Connected
<1>9. BrowserOK' /\ BackendOK'
  BY <1>1, <1>5, <1>7 DEF browser, BrowserOK, BackendOK
<1>10. SupportOK' /\ HostInv'
  <2>1. CASE RunPluginServer(m.connection)
    BY <1>1, <1>3, <1>4, <1>5, <1>7, <2>1, RunHost DEF IInv
  <2>2. CASE UNCHANGED <<hosts, childProcess, isPluginProcessRunning>>
    BY <1>1, <1>3, <1>4, <1>5, <1>7, <2>2, HostsRest DEF IInv, BackendOK
  <2> QED BY <2>1, <2>2 DEF MetadataGoesOn
<1> QED BY <1>2, <1>8, <1>9, <1>10, PiecesKept DEF IInv

\* A step of one host, or of the backend that hears it.
LEMMA HostStep ==
  ASSUME IInv, NEW i \in DOMAIN hosts, NEW h \in Host, Fine(h),
         h.connection = hosts[i].connection, h.terminating => hosts[i].terminating,
         hosts' = [hosts EXCEPT ![i] = h], failures' \in 0 .. MaxFailures,
         runs' \in [Plugins -> Nat], unstarted' \subseteq Plugins,
         UNCHANGED <<deploymentVars, proxyVars, browser, support, asker, overlapped>>
  PROVE  IInv'
<1>1. DeploymentOK /\ ProxyOK /\ BrowserOK /\ SupportOK /\ BackendOK
  BY Pieces DEF IInv
<1>2. DeploymentOK' /\ DeployInv'
  BY <1>1, DeploymentsRest DEF IInv, proxyVars
<1>3. ProxyOK' /\ Connected'
  BY <1>1 DEF proxyVars, ProxyOK, IInv, Connected
<1>4. BrowserOK' /\ BackendOK'
  BY <1>1 DEF browser, BrowserOK, support, BackendOK
<1>5. SupportOK' /\ HostInv'
  <2>1. UNCHANGED <<childProcess, isPluginProcessRunning, connection, isOpen, metadataCalls>>
    BY DEF support, proxyVars
  <2> QED BY <1>1, <2>1, OneHost DEF IInv
<1> QED BY <1>2, <1>3, <1>4, <1>5, PiecesKept DEF IInv

LEMMA AHost ==
  ASSUME IInv, NEW i \in DOMAIN hosts
  PROVE  /\ hosts[i] \in Host /\ Fine(hosts[i])
         /\ runs \in [Plugins -> Nat] /\ unstarted \subseteq Plugins
BY Pieces, HostsTyped DEF IInv, HostInv, HostsFine, SupportOK, BrowserOK

LEMMA BackendHearsStep ==
  ASSUME IInv, NEW i \in DOMAIN hosts, BackendHears(i)
  PROVE  IInv'
<1>1. hosts[i] \in Host /\ Fine(hosts[i]) /\ hosts[i].fromHost # <<>>
  BY AHost DEF BackendHears
<1>2. PICK h : h = HeardFrom(hosts[i])
  OBVIOUS
<1>3. /\ h \in Host /\ Fine(h) /\ h.connection = hosts[i].connection
      /\ h.terminating => hosts[i].terminating
  BY <1>1, <1>2, HeardFine
<1>4. hosts' = [hosts EXCEPT ![i] = h]
  BY <1>2 DEF BackendHears
<1>5. /\ failures' \in 0 .. MaxFailures
      /\ runs' \in [Plugins -> Nat] /\ unstarted' \subseteq Plugins
  BY AHost, FewFailures DEF BackendHears
<1> QED BY <1>3, <1>4, <1>5, HostStep DEF BackendHears

LEMMA HostHandlesStep ==
  ASSUME IInv, NEW i \in DOMAIN hosts, HostHandles(i)
  PROVE  IInv'
<1> PICK m : m = Head(hosts[i].toHost)
  OBVIOUS
<1>1. hosts[i] \in Host /\ Fine(hosts[i]) /\ hosts[i].toHost # <<>>
  BY AHost DEF HostHandles
<1>2. PICK started \in SUBSET m.plugins, ok \in BOOLEAN :
        /\ Fails(~ok \/ started # m.plugins) /\ Starts(m.plugins, started)
        /\ hosts' = [hosts EXCEPT ![i] = Handled(@, started, ok)]
  BY DEF HostHandles
<1>3. PICK h : h = Handled(hosts[i], started, ok)
  OBVIOUS
<1>4. /\ h \in Host /\ Fine(h) /\ h.connection = hosts[i].connection
      /\ h.terminating => hosts[i].terminating
  BY <1>1, <1>3, HandledFine
<1>5. hosts' = [hosts EXCEPT ![i] = h]
  BY <1>2, <1>3
<1>6. m \in Messages /\ m.plugins \in SUBSET Plugins
  <2>1. hosts[i].toHost \in Seq(Messages) /\ hosts[i].toHost # <<>>
    BY <1>1, Fields
  <2>2. m \in Messages
    BY <2>1, TakenApart
  <2> QED BY <2>2 DEF Messages
<1>7. failures' \in 0 .. MaxFailures
  BY <1>2, Counted
<1>8. runs' \in [Plugins -> Nat] /\ unstarted' \subseteq Plugins
  BY <1>2, <1>6, StartsTyped
<1> QED BY <1>4, <1>5, <1>7, <1>8, HostStep DEF HostHandles

LEMMA HostExitsStep ==
  ASSUME IInv, NEW i \in DOMAIN hosts, HostExits(i)
  PROVE  IInv'
<1>1. hosts[i] \in Host /\ Fine(hosts[i])
  BY AHost
<1>2. PICK h : h = [hosts[i] EXCEPT !.state = "exited", !.toHost = <<>>]
  OBVIOUS
<1>3. /\ h \in Host /\ Fine(h) /\ h.connection = hosts[i].connection
      /\ h.terminating => hosts[i].terminating
  BY <1>1, <1>2, ExitedFine
<1>4. hosts' = [hosts EXCEPT ![i] = h]
  BY <1>1, <1>2 DEF HostExits
<1>5. /\ failures' \in 0 .. MaxFailures
      /\ runs' \in [Plugins -> Nat] /\ unstarted' \subseteq Plugins
  BY AHost, Counted DEF HostExits
<1> QED BY <1>3, <1>4, <1>5, HostStep DEF HostExits

-----------------------------------------------------------------------------
(* The theorems.                                                           *)

LEMMA Initially ==
  Init => IInv
<1> SUFFICES ASSUME Init PROVE IInv
  OBVIOUS
<1>1. /\ DeploymentInit /\ ProxyInit /\ hosts = <<>> /\ metadataCalls = {}
  BY DEF Init
<1>2. DeploymentOK
  BY <1>1, DeploymentAssumption DEF DeploymentInit, DeploymentOK, Phases
<1>3. ProxyOK
  <2>1. 0 \in 0 .. MaxConnections
    BY ProxyAssumption
  <2> QED BY <1>1, <2>1, ShortSeqs DEF ProxyInit, ProxyOK
<1>4. BrowserOK
  <2>1. <<>> \in Seq(SUBSET Plugins) /\ 0 \in Nat
    OBVIOUS
  <2> QED BY <2>1 DEF Init, BrowserOK
<1>5. SupportOK
  <2>1. <<>> \in Seq(Host) /\ Len(hosts) = 0
    BY <1>1
  <2> QED BY <2>1 DEF Init, SupportOK
<1>6. BackendOK
  BY ProxyAssumption DEF Init, BackendOK
<1>7. DeployInv
  BY <1>1 DEF DeploymentInit, ProxyInit, DeployInv, Solo, Kept, KeptOf, Begun, StartsFirst,
               IsPreparing
<1>8. HostInv
  <2>1. DOMAIN hosts = {}
    BY <1>1
  <2> QED BY <1>1, <2>1 DEF Init, HostInv, HostsFine, Owners, InUse
<1>9. Connected
  BY <1>1 DEF ProxyInit, Connected
<1> QED BY <1>2, <1>3, <1>4, <1>5, <1>6, <1>7, <1>8, <1>9, Pieces DEF IInv

LEMMA Stuttering ==
  ASSUME IInv, UNCHANGED vars
  PROVE  IInv'
<1>1. ProxyOK /\ BrowserOK
  BY Pieces DEF IInv
<1>2. Sent /\ BrowserOK' /\ answers' \in Seq(Answers)
      /\ UNCHANGED <<connection, isOpen, connectionPromise>>
  BY <1>1 DEF vars, proxyVars, browser, ProxyOK, BrowserOK, Sent
<1> QED BY <1>2, FewFailures, BrowserStep DEF vars

LEMMA Inductive ==
  IInv /\ [Next]_vars => IInv'
<1> SUFFICES ASSUME IInv, [Next]_vars PROVE IInv'
  OBVIOUS
<1>1. CASE LoadGoesOn
  BY <1>1, LoadGoesOnStep
<1>2. CASE \E m \in metadataCalls : MetadataGoesOn(m)
  BY <1>2, MetadataGoesOnStep
<1>3. CASE CheckAndLoadPlugin \/ Answered \/ TheiaReady
  BY <1>3, CheckAndLoadPluginStep, AnsweredStep, TheiaReadyStep
<1>4. CASE StartBackend \/ Connect \/ ConnectionLost
  BY <1>4, StartBackendStep, ConnectStep, ConnectionLostStep
<1>5. CASE ServeDeploy \/ ServeMetadata \/ ServeMessage
  BY <1>5, ServeDeployStep, ServeMetadataStep, ServeMessageStep
<1>6. CASE \E d \in Deploys : AskDeploy(d) \/ Deployment(d)
  BY <1>6, AskDeployStep, DeploymentStep
<1>7. CASE \E i \in DOMAIN hosts : BackendHears(i) \/ HostHandles(i) \/ HostExits(i)
  BY <1>7, BackendHearsStep, HostHandlesStep, HostExitsStep
<1>8. CASE UNCHANGED vars
  BY <1>8, Stuttering
<1> QED BY <1>1, <1>2, <1>3, <1>4, <1>5, <1>6, <1>7, <1>8 DEF Next

LEMMA Invariant ==
  Spec => []IInv
<1>1. Init => IInv
  BY Initially
<1>2. IInv /\ [Next]_vars => IInv'
  BY Inductive
<1> QED BY <1>1, <1>2, PTL DEF Spec

\* Every variable keeps its type, for any plugins, deployments, connections and
\* failures: a call is always of a connection there is, to a host there is.
THEOREM TypeCorrect ==
  Spec => []TypeOK
<1>1. IInv => TypeOK
  BY DEF IInv
<1> QED BY <1>1, Invariant, PTL

\* The host of the connected browser is the one its messages go to, and nobody
\* stops it, however late it was run for the connection.
THEOREM TheHostInUse ==
  Spec => []HostInUse
<1>1. IInv => HostInUse
  <2> SUFFICES ASSUME IInv, NEW i \in DOMAIN hosts, Open(hosts[i].connection)
               PROVE  childProcess[hosts[i].connection] = i /\ ~hosts[i].terminating
    BY DEF HostInUse
  <2>1. /\ hosts[i].connection \in Connections /\ i # 0
    BY Pieces, HostsTyped, Fields DEF IInv
  <2>2. childProcess[hosts[i].connection] = i
    BY DEF IInv, HostInv, InUse
  <2> QED BY <2>1, <2>2 DEF IInv, HostInv, Owners
<1> QED BY <1>1, Invariant, PTL

\* A host is killed after it stopped its plugins, unless it owed the answer to the
\* first call of the browser: that answer is taken for the one to the stop.
THEOREM KilledAfterStop ==
  Spec => []StoppedFirst
<1>1. IInv => StoppedFirst
  BY DEF IInv, HostInv, HostsFine, Fine, StoppedFirst
<1> QED BY <1>1, Invariant, PTL

\* A deployment that was not prepared at the same time as another has deployed what
\* it wants, but what has no metadata, when it is done.
THEOREM UndisturbedDeploys ==
  Spec => []DeployedAtEnd
<1>1. IInv => DeployedAtEnd
  BY DEF IInv, DeployInv, Kept, KeptOf, DeployedAtEnd
<1> QED BY <1>1, Invariant, PTL
=============================================================================
