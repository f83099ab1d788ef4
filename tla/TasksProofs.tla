----------------------------- MODULE TasksProofs -----------------------------
(***************************************************************************)
(* Proofs about Tasks, with the terminals, the processes and the proxies   *)
(* it is composed of: the variables keep their types, the listed tasks are *)
(* those that run, and a terminal that is shown is never killed.  And      *)
(* about MultiRingBuffer, in which a process of a task or terminal keeps   *)
(* its output, for every size of the buffer and writes of any size.        *)
(***************************************************************************)
EXTENDS Tasks, MultiRingBuffer, FiniteSetTheorems, SequenceTheorems, WellFoundedInduction, TLAPS

\* Every message on its way, in either direction.
InFlight == ToSet(waiting) \cup ToSet(requests) \cup ToSet(answers)

ProxyOK ==
  /\ connection \in 0 .. MaxConnections /\ isOpen \in BOOLEAN
  /\ connectionPromise \in {0, connection}
  /\ waiting \in Seq(Messages) /\ requests \in Seq(Messages) /\ answers \in Seq(Messages)

-----------------------------------------------------------------------------
(* Sequences.                                                              *)

LEMMA Concatenated ==
  ASSUME NEW T, NEW s \in Seq(T), NEW t \in Seq(T)
  PROVE  s \o t \in Seq(T) /\ ToSet(s \o t) \subseteq ToSet(s) \cup ToSet(t)
<1>1. ASSUME NEW i \in DOMAIN (s \o t)
      PROVE  (s \o t)[i] \in ToSet(s) \cup ToSet(t)
  <2>1. CASE i \in DOMAIN s
    BY <2>1 DEF ToSet
  <2>2. CASE i \notin DOMAIN s
    <3>1. i - Len(s) \in DOMAIN t /\ (s \o t)[i] = t[i - Len(s)]
      BY <2>2
    <3> QED BY <3>1 DEF ToSet
  <2> QED BY <2>1, <2>2
<1> QED BY <1>1 DEF ToSet

LEMMA TakenApart ==
  ASSUME NEW T, NEW s \in Seq(T), s # <<>>
  PROVE  /\ Head(s) \in T /\ Head(s) \in ToSet(s)
         /\ Tail(s) \in Seq(T) /\ ToSet(Tail(s)) \subseteq ToSet(s)
<1>1. 1 \in DOMAIN s /\ Head(s) = s[1] /\ Tail(s) \in Seq(T)
  OBVIOUS
<1>2. \A i \in DOMAIN Tail(s) : i + 1 \in DOMAIN s /\ Tail(s)[i] = s[i + 1]
  OBVIOUS
<1> QED BY <1>1, <1>2 DEF ToSet

LEMMA ShortSeqs ==
  /\ <<>> \in Seq(Messages) /\ ToSet(<<>>) = {}
  /\ \A m \in Messages : <<m>> \in Seq(Messages) /\ ToSet(<<m>>) = {m}
<1>1. ASSUME NEW m \in Messages PROVE <<m>> \in Seq(Messages) /\ ToSet(<<m>>) = {m}
  <2>1. DOMAIN <<m>> = {1} /\ <<m>>[1] = m
    OBVIOUS
  <2> QED BY <2>1 DEF ToSet
<1> QED BY <1>1 DEF ToSet

\* A set is listed by SetToSeq.
LEMMA Listed ==
  ASSUME NEW S, IsFiniteSet(S)
  PROVE  SetToSeq(S) \in Seq(S)
<1>1. Cardinality(S) \in Nat /\ \E f : f \in Bijection(1 .. Cardinality(S), S)
  BY FS_CardinalityType DEF ExistsBijection
<1>2. \E f \in [1 .. Cardinality(S) -> S] : IsInjective(f)
  BY <1>1 DEF Bijection, Injection, Surjection
<1>3. SetToSeq(S) \in [1 .. Cardinality(S) -> S]
  BY <1>2 DEF SetToSeq
<1> QED BY <1>1, <1>3

-----------------------------------------------------------------------------
(* The proxy: what its operations put on the way.                          *)

LEMMA CallPuts ==
  ASSUME ProxyOK, NEW cs \in Seq(Messages), Call(cs)
  PROVE  /\ waiting' \in Seq(Messages) /\ requests' \in Seq(Messages)
         /\ ToSet(waiting') \cup ToSet(requests')
              \subseteq ToSet(waiting) \cup ToSet(requests) \cup ToSet(cs)
<1>1. /\ waiting \o cs \in Seq(Messages)
      /\ ToSet(waiting \o cs) \subseteq ToSet(waiting) \cup ToSet(cs)
      /\ requests \o cs \in Seq(Messages)
      /\ ToSet(requests \o cs) \subseteq ToSet(requests) \cup ToSet(cs)
  BY Concatenated DEF ProxyOK
<1> QED BY <1>1 DEF Call, ProxyOK

\* A caller's step: it may handle an answer.
LEMMA CallStep ==
  ASSUME ProxyOK, NEW cs \in Seq(Messages), Call(cs),
         UNCHANGED <<connection, isOpen, connectionPromise>>,
         answers' = answers \/ (answers # <<>> /\ answers' = Tail(answers))
  PROVE  ProxyOK' /\ InFlight' \subseteq InFlight \cup ToSet(cs)
<1>1. answers' \in Seq(Messages) /\ ToSet(answers') \subseteq ToSet(answers)
  BY TakenApart DEF ProxyOK
<1> QED BY <1>1, CallPuts DEF ProxyOK, InFlight

LEMMA ServeStep ==
  ASSUME ProxyOK, NEW as \in Seq(Messages), Serve(as)
  PROVE  /\ ProxyOK' /\ InFlight' \subseteq InFlight \cup ToSet(as)
         /\ Head(requests) \in Messages /\ Head(requests) \in InFlight
<1>1. /\ requests' \in Seq(Messages) /\ ToSet(requests') \subseteq ToSet(requests)
      /\ Head(requests) \in Messages /\ Head(requests) \in ToSet(requests)
  BY TakenApart DEF Serve, ProxyOK
<1>2. answers' \in Seq(Messages) /\ ToSet(answers') \subseteq ToSet(answers) \cup ToSet(as)
  BY Concatenated DEF Serve, ProxyOK
<1> QED BY <1>1, <1>2 DEF Serve, ProxyOK, InFlight

LEMMA NotifyStep ==
  ASSUME ProxyOK, NEW as \in Seq(Messages), Notify(as)
  PROVE  ProxyOK' /\ InFlight' \subseteq InFlight \cup ToSet(as)
<1>1. answers' \in Seq(Messages) /\ ToSet(answers') \subseteq ToSet(answers) \cup ToSet(as)
  BY Concatenated DEF Notify, ProxyOK
<1> QED BY <1>1 DEF Notify, ProxyOK, InFlight

LEMMA ListenStep ==
  ASSUME ProxyOK, NEW cs \in Seq(Messages), Listen(cs)
  PROVE  ProxyOK' /\ InFlight' \subseteq InFlight \cup ToSet(cs)
<1>1. /\ requests' \in Seq(Messages) /\ ToSet(requests') \subseteq ToSet(waiting) \cup ToSet(cs)
  BY Concatenated DEF Listen, ProxyOK
<1>2. waiting' \in Seq(Messages) /\ ToSet(waiting') = {}
  BY ShortSeqs DEF Listen
<1>3. /\ connection' \in 0 .. MaxConnections /\ isOpen' \in BOOLEAN
      /\ connectionPromise' \in {0, connection'}
  BY ProxyAssumption DEF Listen, ProxyOK
<1> QED BY <1>1, <1>2, <1>3 DEF Listen, ProxyOK, InFlight

LEMMA BreakStep ==
  ASSUME ProxyOK, Break
  PROVE  ProxyOK' /\ InFlight' \subseteq InFlight
BY ShortSeqs DEF Break, ProxyOK, InFlight

-----------------------------------------------------------------------------
(* The invariant.                                                          *)

Process ==
  [kind : {"none", "shell"} \cup TaskKinds,
   os : {"none", "spawned", "failing", "threw", "running", "dead"},
   killed : BOOLEAN, signalled : BOOLEAN, registered : BOOLEAN]

\* Ids are given out in their order.
Numbered == \E n \in Nat : Used = 0 .. n - 1

IsShell(id) == id \in Ids /\ processes[id].kind = "shell"
IsTask(id) == id \in Ids /\ processes[id].kind \in TaskKinds

\* A message is about a process that was spawned, of the kind it tells.
Fits(m) ==
  /\ m.id \in Used \cup {-1}
  /\ m.op = "created" => IsShell(m.id)
  /\ m.op \in {"terminalRan", "rawRan"} => IsTask(m.id)
  /\ m.op \in TaskKinds => m.of \in Runs

\* The widget w has the terminal id, or a message on its way is about them both.
Holding == {"created", "attach", "attached", "stream", "close"}
Holds(w, id) ==
  \/ w \in Widgets /\ terminalId[w] = id
  \/ \E m \in InFlight : m.op \in Holding /\ m.of = w /\ m.id = id

\* The shell id was sent the signal, or a close will send it.
Doomed(id) ==
  processes[id].signalled \/ \E m \in InFlight : m.op = "close" /\ m.id = id

\* A shell is held by one widget, which is gone when the shell is doomed.
Owned ==
  /\ \A m \in InFlight : Fits(m)
  /\ \A w \in Widgets : terminalId[w] \in Used \cup {-1}
  /\ \A r \in Runs : taskOf[r] \in Used \cup {-1}
  /\ \A id, w, v : IsShell(id) /\ Holds(w, id) /\ Holds(v, id) => w = v
  /\ \A id : \A w \in Widgets :
       IsShell(id) /\ Holds(w, id) /\ Doomed(id) => widget[w] = "disposed"

IInv == TypeOK /\ Numbered /\ ListedTasksRun /\ Owned

LEMMA TypeParts ==
  TypeOK => ProxyOK /\ processes \in [Ids -> Process]
BY DEF TypeOK, ProxyOK, Process

\* A step that spawns nothing: what it sends is about shells the receiver holds
\* already, and closes are sent for widgets that are disposed.
LEMMA OwnedStep ==
  ASSUME TypeOK, Owned, NEW new, InFlight' \subseteq InFlight \cup new,
         \A i \in Ids : processes'[i].kind = processes[i].kind,
         \A i \in Ids : IsShell(i) /\ processes'[i].signalled => Doomed(i),
         \A w \in Widgets : widget[w] = "disposed" => widget'[w] = "disposed",
         \A w \in Widgets :
           \/ terminalId'[w] = terminalId[w]
           \/ \E m \in InFlight : m.op \in Holding /\ m.of = w /\ m.id = terminalId'[w],
         \A r \in Runs : taskOf'[r] \in Used \cup {-1},
         \A m \in new : Fits(m),
         \A m \in new : m.op \in Holding /\ IsShell(m.id) => Holds(m.of, m.id),
         \A m \in new : m.op = "close" /\ IsShell(m.id) => widget'[m.of] = "disposed"
  PROVE  Owned'
<1>1. Used' = Used
  BY DEF Used
<1>2. \A i : (IsShell(i)' <=> IsShell(i)) /\ (IsTask(i)' <=> IsTask(i))
  BY DEF IsShell, IsTask
<1>3. \A m : Fits(m)' <=> Fits(m)
  BY <1>1, <1>2 DEF Fits
<1>4. ASSUME NEW w, NEW id, IsShell(id), Holds(w, id)'
      PROVE  Holds(w, id)
  BY <1>4 DEF Holds
<1>5. \A m \in InFlight' : Fits(m)'
  BY <1>3 DEF Owned
<1>6. ASSUME NEW w \in Widgets PROVE terminalId'[w] \in Used' \cup {-1}
  <2>1. \A m \in InFlight : m.id \in Used \cup {-1}
    BY DEF Owned, Fits
  <2> QED BY <1>1, <2>1 DEF Owned
<1>7. \A id, w, v : IsShell(id)' /\ Holds(w, id)' /\ Holds(v, id)' => w = v
  BY <1>2, <1>4 DEF Owned
<1>8. ASSUME NEW id, NEW w \in Widgets, IsShell(id)', Holds(w, id)', Doomed(id)'
      PROVE  widget'[w] = "disposed"
  <2>1. IsShell(id) /\ Holds(w, id) /\ id \in Ids
    BY <1>2, <1>4, <1>8 DEF IsShell
  <2>2. CASE Doomed(id)
    BY <2>1, <2>2 DEF Owned
  <2>3. CASE ~Doomed(id)
    <3>1. PICK m \in new : m.op = "close" /\ m.id = id
      BY <1>8, <2>1, <2>3 DEF Doomed
    <3>2. Holds(m.of, id) /\ widget'[m.of] = "disposed"
      BY <2>1, <3>1 DEF Holding
    <3> QED BY <2>1, <3>2 DEF Owned
  <2> QED BY <2>2, <2>3
<1> QED BY <1>1, <1>5, <1>6, <1>7, <1>8 DEF Owned

\* What Spawn does: the next id, used by none, gets a process.
LEMMA Spawned ==
  ASSUME TypeOK, Numbered, NEW kind \in {"shell"} \cup TaskKinds, Spawn(kind)
  PROVE  /\ NextId \in Ids /\ NextId \notin Used
         /\ Used' = Used \cup {NextId} /\ Numbered'
         /\ processes' \in [Ids -> Process]
         /\ failures' \in 0 .. MaxFailures
         /\ \A i \in Ids \ {NextId} : processes'[i] = processes[i]
         /\ processes'[NextId].kind = kind
         /\ processes'[NextId].os \in {"spawned", "failing", "threw"}
         /\ ~processes'[NextId].signalled
<1>1. PICK n \in Nat : Used = 0 .. n - 1
  BY DEF Numbered
<1>2. NextId = n
  BY <1>1, FS_Interval DEF NextId
<1>3. n \in Ids /\ n \notin Used /\ processes \in [Ids -> Process]
  BY <1>1, <1>2, TypeParts DEF Spawn
<1>4. PICK os \in {"spawned", "failing", "threw"} :
        /\ processes' = [processes EXCEPT ![n] =
             [NoProcess EXCEPT !.kind = kind, !.os = os, !.registered = TRUE]]
        /\ os # "spawned" => failures < MaxFailures
        /\ failures' = failures + (IF os = "spawned" THEN 0 ELSE 1)
  <2>1. failures \in Nat /\ MaxFailures \in Nat
    BY ProcessesAssumption DEF TypeOK
  <2>2. PICK os \in {"spawned"} \cup (IF failures >= MaxFailures THEN {}
                 ELSE {"failing"} \cup IF kind = "raw" THEN {"threw"} ELSE {}) :
          /\ processes' = [processes EXCEPT ![NextId] =
               [NoProcess EXCEPT !.kind = kind, !.os = os, !.registered = TRUE]]
          /\ failures' = failures + (IF os = "spawned" THEN 0 ELSE 1)
    BY DEF Spawn
  <2>3. os \in {"spawned", "failing", "threw"} /\ (os # "spawned" => failures < MaxFailures)
    BY <2>1, <2>2
  <2> QED BY <1>2, <2>2, <2>3
<1> DEFINE p == [NoProcess EXCEPT !.kind = kind, !.os = os, !.registered = TRUE]
<1>5. p \in Process /\ p.kind = kind /\ p.os = os /\ ~p.signalled /\ p.kind # "none"
  BY DEF NoProcess, Process, TaskKinds
<1> HIDE DEF p
<1>6. /\ processes' \in [Ids -> Process] /\ processes'[n] = p
      /\ \A i \in Ids \ {n} : processes'[i] = processes[i]
  BY <1>3, <1>4, <1>5 DEF p
<1>7. Used' = Used \cup {n}
  BY <1>3, <1>5, <1>6 DEF Used
<1>8. Used' = 0 .. (n + 1) - 1
  BY <1>1, <1>7
<1>9. failures' \in 0 .. MaxFailures
  BY <1>4, ProcessesAssumption DEF TypeOK
<1>10. Numbered'
  <2>1. n + 1 \in Nat
    OBVIOUS
  <2> QED BY <1>8, <2>1 DEF Numbered
<1> QED BY <1>2, <1>3, <1>5, <1>6, <1>7, <1>9, <1>10

\* A process is spawned, and told of, if it is a shell, to who asked.
LEMMA SpawnStep ==
  ASSUME TypeOK, Numbered, Owned, NEW kind \in {"shell"} \cup TaskKinds, Spawn(kind), NEW new,
         InFlight' \subseteq InFlight \cup new,
         NEW of, \A m \in new : kind = "shell" /\ m = Message("created", of, NextId),
         UNCHANGED <<widget, terminalId, taskOf>>
  PROVE  Owned'
<1>1. PICK n \in Ids :
        /\ n = NextId /\ n \notin Used /\ Used' = Used \cup {n}
        /\ \A i \in Ids \ {n} : processes'[i] = processes[i]
        /\ processes'[n].kind = kind /\ ~processes'[n].signalled
  BY Spawned
<1>2. \A m \in new : kind = "shell" /\ m.op = "created" /\ m.id = n /\ m.of = of
  BY <1>1 DEF Message
<1>3. n # -1
  BY <1>1 DEF Ids
<1>4. /\ \A m \in InFlight : m.id # n
      /\ \A w \in Widgets : terminalId[w] # n
  BY <1>1, <1>3 DEF Owned, Fits
<1>5. \A i : i # n => (IsShell(i)' <=> IsShell(i)) /\ (IsTask(i)' <=> IsTask(i))
  BY <1>1 DEF IsShell, IsTask
<1>6. \A m \in InFlight' : Fits(m)'
  <2>1. \A m \in InFlight : Fits(m)'
    BY <1>1, <1>4, <1>5 DEF Owned, Fits
  <2>2. \A m \in new : Fits(m)'
    BY <1>1, <1>2 DEF Fits, IsShell, TaskKinds
  <2> QED BY <2>1, <2>2
<1>7. /\ \A w \in Widgets : terminalId'[w] \in Used' \cup {-1}
      /\ \A r \in Runs : taskOf'[r] \in Used' \cup {-1}
  BY <1>1 DEF Owned
<1>8. \A i, w : i # n /\ Holds(w, i)' => Holds(w, i)
  BY <1>2 DEF Holds
<1>9. \A i : i # n /\ i \in Ids /\ Doomed(i)' => Doomed(i)
  BY <1>1, <1>2 DEF Doomed
<1>10. ~Doomed(n)'
  BY <1>1, <1>2, <1>4 DEF Doomed
<1>11. ASSUME NEW w, Holds(w, n)' PROVE w = of
  <2>1. ~(w \in Widgets /\ terminalId'[w] = n)
    BY <1>4
  <2>2. PICK m \in InFlight' : m.of = w /\ m.id = n
    BY <1>11, <2>1 DEF Holds
  <2> QED BY <1>2, <1>4, <2>2
<1>12. ASSUME NEW id, NEW w, NEW v, IsShell(id)', Holds(w, id)', Holds(v, id)'
       PROVE  w = v
  <2>1. CASE id = n
    BY <1>11, <1>12, <2>1
  <2>2. CASE id # n
    BY <1>5, <1>8, <1>12, <2>2 DEF Owned
  <2> QED BY <2>1, <2>2
<1>13. ASSUME NEW id, NEW w \in Widgets, IsShell(id)', Holds(w, id)', Doomed(id)'
       PROVE  widget'[w] = "disposed"
  <2>1. id # n /\ id \in Ids
    BY <1>10, <1>13 DEF IsShell
  <2>2. IsShell(id) /\ Holds(w, id) /\ Doomed(id)
    BY <1>5, <1>8, <1>9, <1>13, <2>1
  <2> QED BY <2>2 DEF Owned
<1> QED BY <1>6, <1>7, <1>12, <1>13 DEF Owned

-----------------------------------------------------------------------------
(* Types, piece by piece.                                                  *)

WidgetsOK ==
  /\ widget \in [Widgets -> {"none", "shown", "disposed"}]
  /\ terminalId \in [Widgets -> Ids \cup {-1}] /\ stream \in [Widgets -> Ids \cup {-1}]
  /\ toReconnect \subseteq Widgets /\ strays \subseteq Ids

RunsOK ==
  /\ run \in [Runs -> {"none", "asked", "launched", "failed"}]
  /\ kill \in [Runs -> {"none", "asked", "settled"}] /\ taskOf \in [Runs -> Ids \cup {-1}]
  /\ tasks \subseteq Ids /\ killer \in [Ids -> 0 .. MaxConnections]
  /\ caller \in [Ids -> [run : Runs \cup {NoOne}, connection : 0 .. MaxConnections]]

LEMMA Pieces ==
  TypeOK <=> /\ ProxyOK /\ processes \in [Ids -> Process] /\ failures \in 0 .. MaxFailures
             /\ WidgetsOK /\ RunsOK
BY DEF TypeOK, ProxyOK, Process, WidgetsOK, RunsOK

LEMMA PiecesKept ==
  ASSUME ProxyOK', (processes \in [Ids -> Process])', (failures \in 0 .. MaxFailures)',
         WidgetsOK', RunsOK'
  PROVE  TypeOK'
BY DEF TypeOK, ProxyOK, Process, WidgetsOK, RunsOK

\* One process changes its state and keeps its kind.
LEMMA OneChanges ==
  ASSUME processes \in [Ids -> Process], NEW id \in Ids, NEW p \in Process,
         p.kind = processes[id].kind, processes' = [processes EXCEPT ![id] = p]
  PROVE  /\ processes' \in [Ids -> Process] /\ processes'[id] = p
         /\ \A i \in Ids : processes'[i].kind = processes[i].kind
         /\ \A i \in Ids \ {id} : processes'[i] = processes[i]
OBVIOUS

\* The events of processes: none is signalled, a start and an exit change what runs.
LEMMA EventStep ==
  ASSUME processes \in [Ids -> Process], NEW id \in Ids,
         EmitOnStarted(id) \/ EmitOnError(id) \/ EmitThrown(id) \/ EmitOnExit(id)
  PROVE  /\ processes' \in [Ids -> Process] /\ failures' = failures
         /\ \A i \in Ids : processes'[i].kind = processes[i].kind
         /\ \A i \in Ids : processes'[i].signalled <=> processes[i].signalled
         /\ \A i \in Ids \ {id} : processes'[i] = processes[i]
         /\ EmitOnStarted(id) => processes'[id].os = "running"
         /\ EmitOnError(id) \/ EmitThrown(id) =>
              processes'[id].os = "dead" /\ processes[id].os # "running"
         /\ EmitOnExit(id) => processes'[id].os = "dead"
<1>1. processes[id] \in Process
  OBVIOUS
<1>2. ASSUME NEW p \in Process, processes' = [processes EXCEPT ![id] = p],
             p.kind = processes[id].kind, p.signalled <=> processes[id].signalled
      PROVE  /\ processes' \in [Ids -> Process] /\ processes'[id] = p
             /\ \A i \in Ids : processes'[i].kind = processes[i].kind
             /\ \A i \in Ids : processes'[i].signalled <=> processes[i].signalled
             /\ \A i \in Ids \ {id} : processes'[i] = processes[i]
  <2>1. /\ processes' \in [Ids -> Process] /\ processes'[id] = p
        /\ \A i \in Ids : processes'[i].kind = processes[i].kind
        /\ \A i \in Ids \ {id} : processes'[i] = processes[i]
    BY <1>2, OneChanges
  <2> QED BY <1>2, <2>1
<1>3. CASE EmitOnStarted(id)
  <2> DEFINE p == [processes[id] EXCEPT !.os = "running"]
  <2>1. /\ p \in Process /\ p.kind = processes[id].kind /\ p.os = "running"
        /\ p.signalled <=> processes[id].signalled
    BY <1>1 DEF Process
  <2>2. processes' = [processes EXCEPT ![id] = p] /\ failures' = failures /\ processes[id].os = "spawned"
    BY <1>3 DEF EmitOnStarted
  <2>3. ~EmitOnError(id) /\ ~EmitThrown(id) /\ ~EmitOnExit(id)
    BY <2>2 DEF EmitOnError, EmitThrown, EmitOnExit
  <2> HIDE DEF p
  <2> QED BY <1>2, <2>1, <2>2, <2>3
<1>4. CASE EmitThrown(id)
  <2> DEFINE p == [processes[id] EXCEPT !.os = "dead"]
  <2>1. /\ p \in Process /\ p.kind = processes[id].kind /\ p.os = "dead"
        /\ p.signalled <=> processes[id].signalled
    BY <1>1 DEF Process
  <2>2. processes' = [processes EXCEPT ![id] = p] /\ failures' = failures /\ processes[id].os = "threw"
    BY <1>4 DEF EmitThrown
  <2>3. ~EmitOnStarted(id)
    BY <2>2 DEF EmitOnStarted
  <2> HIDE DEF p
  <2> QED BY <1>2, <2>1, <2>2, <2>3
<1>5. CASE EmitOnError(id) \/ EmitOnExit(id)
  <2> DEFINE p == [processes[id] EXCEPT !.os = "dead", !.killed = TRUE, !.registered = FALSE]
  <2>1. /\ p \in Process /\ p.kind = processes[id].kind /\ p.os = "dead"
        /\ p.signalled <=> processes[id].signalled
    BY <1>1 DEF Process
  <2>2. /\ processes' = [processes EXCEPT ![id] = p] /\ failures' = failures
        /\ processes[id].os \in {"failing", "running"}
        /\ EmitOnError(id) => processes[id].os = "failing"
    BY <1>5 DEF EmitOnError, EmitOnExit, Unregistered
  <2>3. ~EmitOnStarted(id) /\ ~EmitThrown(id)
    BY <2>2 DEF EmitOnStarted, EmitThrown
  <2> HIDE DEF p
  <2> QED BY <1>2, <2>1, <2>2, <2>3
<1> QED BY <1>3, <1>4, <1>5

LEMMA KillStep ==
  ASSUME processes \in [Ids -> Process], NEW id \in Ids, processes' = Killed(id)
  PROVE  /\ processes' \in [Ids -> Process]
         /\ \A i \in Ids : processes'[i].kind = processes[i].kind
         /\ \A i \in Ids : processes'[i].os = processes[i].os
         /\ \A i \in Ids \ {id} : processes'[i] = processes[i]
<1>1. processes[id] \in Process
  OBVIOUS
<1> DEFINE p == [processes[id] EXCEPT !.signalled = TRUE]
<1>2. p \in Process /\ p.kind = processes[id].kind /\ p.os = processes[id].os
  BY <1>1 DEF Process
<1>3. processes' = processes \/ processes' = [processes EXCEPT ![id] = p]
  BY DEF Killed
<1> HIDE DEF p
<1>4. CASE processes' = processes
  BY <1>4
<1>5. CASE processes' = [processes EXCEPT ![id] = p]
  <2>1. /\ processes' \in [Ids -> Process] /\ processes'[id] = p
        /\ \A i \in Ids : processes'[i].kind = processes[i].kind
        /\ \A i \in Ids \ {id} : processes'[i] = processes[i]
    BY <1>2, <1>5, OneChanges
  <2> QED BY <1>2, <2>1
<1> QED BY <1>3, <1>4, <1>5

\* A step after which the same tasks run.
LEMMA ListKept ==
  ASSUME ListedTasksRun,
         \A i \in Ids : processes'[i].kind = processes[i].kind,
         \A i \in Ids : processes[i].kind \in TaskKinds =>
           (processes'[i].os = "running" <=> processes[i].os = "running"),
         tasks' = tasks,
         \A i \in Ids : killer'[i] # 0 => killer[i] # 0 \/ i \in tasks
  PROVE  ListedTasksRun'
BY DEF ListedTasksRun

\* Nothing of processes changes.
LEMMA ProcessesRest ==
  ASSUME TypeOK, Numbered, ListedTasksRun, UNCHANGED <<processVars, tasks, killer>>
  PROVE  /\ Numbered' /\ ListedTasksRun'
         /\ (processes \in [Ids -> Process])' /\ (failures \in 0 .. MaxFailures)'
         /\ \A i \in Ids : processes'[i].kind = processes[i].kind
         /\ \A i \in Ids : IsShell(i) /\ processes'[i].signalled => Doomed(i)
BY TypeParts DEF Numbered, ListedTasksRun, Used, processVars, TypeOK, Doomed

\* A message handled is one that was on its way.
LEMMA Arrived ==
  ASSUME TypeOK, Owned
  PROVE  /\ answers # <<>> =>
              Head(answers) \in Messages /\ Head(answers) \in InFlight /\ Fits(Head(answers))
         /\ requests # <<>> =>
              Head(requests) \in Messages /\ Head(requests) \in InFlight /\ Fits(Head(requests))
BY TakenApart DEF TypeOK, InFlight, Owned

\* A step of the browser that sends the calls cs.
LEMMA BrowserStep ==
  ASSUME IInv, NEW cs \in Seq(Messages), Call(cs), WidgetsOK', RunsOK',
         UNCHANGED <<connection, isOpen, connectionPromise, processVars, tasks, killer>>,
         answers' = answers \/ (answers # <<>> /\ answers' = Tail(answers)),
         \A w \in Widgets : widget[w] = "disposed" => widget'[w] = "disposed",
         \A w \in Widgets :
           \/ terminalId'[w] = terminalId[w]
           \/ \E m \in InFlight : m.op \in Holding /\ m.of = w /\ m.id = terminalId'[w],
         \A r \in Runs : taskOf'[r] \in Used \cup {-1},
         \A m \in ToSet(cs) : Fits(m),
         \A m \in ToSet(cs) : m.op \in Holding /\ IsShell(m.id) => Holds(m.of, m.id),
         \A m \in ToSet(cs) : m.op = "close" /\ IsShell(m.id) => widget'[m.of] = "disposed"
  PROVE  IInv'
<1>1. ProxyOK' /\ InFlight' \subseteq InFlight \cup ToSet(cs)
  BY CallStep, TypeParts DEF IInv
<1>2. /\ Numbered' /\ ListedTasksRun'
      /\ (processes \in [Ids -> Process])' /\ (failures \in 0 .. MaxFailures)'
      /\ \A i \in Ids : processes'[i].kind = processes[i].kind
      /\ \A i \in Ids : IsShell(i) /\ processes'[i].signalled => Doomed(i)
  BY ProcessesRest DEF IInv
<1>3. Owned'
  BY <1>1, <1>2, OwnedStep DEF IInv
<1>4. TypeOK'
  BY <1>1, <1>2, PiecesKept
<1> QED BY <1>2, <1>3, <1>4 DEF IInv

LEMMA OpenShellStep ==
  ASSUME IInv, NEW s \in Shells, OpenShell(s)
  PROVE  IInv'
<1> DEFINE m == Create(s)
<1>1. s \in Widgets
  BY TasksAssumption
<1>2. m \in Messages /\ m.op = "create" /\ m.id = -1
  BY <1>1 DEF Create, Message, Messages
<1>3. WidgetsOK' /\ RunsOK'
  BY Pieces DEF IInv, OpenShell, Open, taskVars, WidgetsOK, RunsOK
<1>4. /\ Call(<<m>>)
      /\ UNCHANGED <<connection, isOpen, connectionPromise, answers, processVars, tasks, killer,
                    terminalId, taskOf>>
      /\ \A w \in Widgets : widget[w] = "disposed" => widget'[w] = "disposed"
  BY Pieces DEF IInv, OpenShell, Open, taskVars, WidgetsOK
<1> HIDE DEF m
<1>5. <<m>> \in Seq(Messages) /\ ToSet(<<m>>) = {m}
  BY <1>2, ShortSeqs
<1>6. Fits(m) /\ ~(m.op \in Holding)
  BY <1>2 DEF Fits, Holding, TaskKinds
<1>7. \A r \in Runs : taskOf'[r] \in Used \cup {-1}
  BY <1>4 DEF IInv, Owned
<1> QED BY <1>2, <1>3, <1>4, <1>5, <1>6, <1>7, BrowserStep

LEMMA RunTaskStep ==
  ASSUME IInv, NEW r \in Runs, NEW kind \in TaskKinds, RunTask(r, kind)
  PROVE  IInv'
<1> DEFINE m == Message(kind, r, -1)
<1>1. r \in Widgets
  BY TasksAssumption
<1>2. m \in Messages /\ m.op = kind /\ m.id = -1 /\ m.of = r
  BY <1>1 DEF Message, Messages
<1>3. WidgetsOK' /\ RunsOK'
  BY Pieces DEF IInv, RunTask, widgetVars, WidgetsOK, RunsOK
<1>4. /\ Call(<<m>>)
      /\ UNCHANGED <<connection, isOpen, connectionPromise, answers, processVars, tasks, killer,
                    widget, terminalId, taskOf>>
  BY DEF RunTask, widgetVars
<1> HIDE DEF m
<1>5. <<m>> \in Seq(Messages) /\ ToSet(<<m>>) = {m}
  BY <1>2, ShortSeqs
<1>6. Fits(m) /\ ~(m.op \in Holding) /\ m.op # "close"
  BY <1>2 DEF Fits, Holding, TaskKinds
<1>7. \A x \in Runs : taskOf'[x] \in Used \cup {-1}
  BY <1>4 DEF IInv, Owned
<1> QED BY <1>2, <1>3, <1>4, <1>5, <1>6, <1>7, BrowserStep

LEMMA KillTaskStep ==
  ASSUME IInv, NEW r \in Runs, KillTask(r)
  PROVE  IInv'
<1> DEFINE m == Message("kill", r, taskOf[r])
<1>1. r \in Widgets /\ taskOf[r] \in Used \cup {-1} /\ taskOf[r] \in Ids \cup {-1}
  BY TasksAssumption, Pieces DEF IInv, Owned, RunsOK
<1>2. m \in Messages /\ m.op = "kill" /\ m.id \in Used \cup {-1}
  BY <1>1 DEF Message, Messages
<1>3. WidgetsOK' /\ RunsOK'
  BY Pieces DEF IInv, KillTask, widgetVars, WidgetsOK, RunsOK
<1>4. /\ Call(<<m>>)
      /\ UNCHANGED <<connection, isOpen, connectionPromise, answers, processVars, tasks, killer,
                    widget, terminalId, taskOf>>
  BY DEF KillTask, widgetVars
<1> HIDE DEF m
<1>5. <<m>> \in Seq(Messages) /\ ToSet(<<m>>) = {m}
  BY <1>2, ShortSeqs
<1>6. Fits(m) /\ ~(m.op \in Holding)
  BY <1>2 DEF Fits, Holding, TaskKinds
<1>7. \A x \in Runs : taskOf'[x] \in Used \cup {-1}
  BY <1>4 DEF IInv, Owned
<1> QED BY <1>2, <1>3, <1>4, <1>5, <1>6, <1>7, BrowserStep

\* The calls that close the terminals of the widgets ws.
LEMMA Closes ==
  ASSUME TypeOK, NEW ws \in SUBSET Widgets
  PROVE  /\ CloseCalls(ws) \in Seq(Messages)
         /\ \A m \in ToSet(CloseCalls(ws)) :
              m.op = "close" /\ m.of \in ws /\ m.id = terminalId[m.of]
<1> DEFINE of == SetToSeq(ws)
           M(v) == Message("close", v, terminalId[v])
<1>1. of \in Seq(ws)
  BY Listed, TasksAssumption, FS_Subset
<1>2. CloseCalls(ws) = [i \in DOMAIN of |-> M(of[i])]
  BY DEF CloseCalls
<1>3. \A v \in ws : M(v) \in Messages /\ M(v).op = "close" /\ M(v).of = v
                    /\ M(v).id = terminalId[v]
  BY Pieces DEF WidgetsOK, Message, Messages
<1> HIDE DEF of, M
<1>4. \A i \in DOMAIN of : of[i] \in ws
  BY <1>1
<1>5. CloseCalls(ws) \in Seq(Messages)
  BY <1>1, <1>2, <1>3, <1>4
<1>6. ASSUME NEW m \in ToSet(CloseCalls(ws))
      PROVE  m.op = "close" /\ m.of \in ws /\ m.id = terminalId[m.of]
  <2>1. PICK i \in DOMAIN of : m = M(of[i])
    BY <1>2 DEF ToSet
  <2> QED BY <1>3, <1>4, <2>1
<1> QED BY <1>5, <1>6

LEMMA Reconnects ==
  ASSUME TypeOK
  PROVE  /\ ReconnectCalls \in Seq(Messages)
         /\ \A m \in ToSet(ReconnectCalls) :
              m.op = "attach" /\ m.of \in Widgets /\ m.id = terminalId[m.of]
<1> DEFINE of == SetToSeq(toReconnect)
           M(v) == Attach(v, terminalId[v])
<1>1. of \in Seq(toReconnect) /\ toReconnect \subseteq Widgets
  BY Listed, TasksAssumption, FS_Subset, Pieces DEF WidgetsOK
<1>2. ReconnectCalls = [i \in DOMAIN of |-> M(of[i])]
  BY DEF ReconnectCalls
<1>3. \A v \in Widgets : M(v) \in Messages /\ M(v).op = "attach" /\ M(v).of = v
                         /\ M(v).id = terminalId[v]
  BY Pieces DEF WidgetsOK, Attach, Message, Messages
<1> HIDE DEF of, M
<1>4. \A i \in DOMAIN of : of[i] \in Widgets
  BY <1>1
<1>5. ReconnectCalls \in Seq(Messages)
  BY <1>1, <1>2, <1>3, <1>4
<1>6. ASSUME NEW m \in ToSet(ReconnectCalls)
      PROVE  m.op = "attach" /\ m.of \in Widgets /\ m.id = terminalId[m.of]
  <2>1. PICK i \in DOMAIN of : m = M(of[i])
    BY <1>2 DEF ToSet
  <2> QED BY <1>3, <1>4, <2>1
<1> QED BY <1>5, <1>6

\* Widgets are disposed of, and their terminals closed.
LEMMA DisposeStep ==
  ASSUME IInv, NEW ws \in SUBSET Widgets, DisposedWidgets(ws), Call(CloseCalls(ws)),
         UNCHANGED <<connection, isOpen, connectionPromise, processVars, taskVars>>,
         answers' = answers \/ (answers # <<>> /\ answers' = Tail(answers))
  PROVE  IInv'
<1>1. /\ CloseCalls(ws) \in Seq(Messages)
      /\ \A m \in ToSet(CloseCalls(ws)) :
           m.op = "close" /\ m.of \in ws /\ m.id = terminalId[m.of]
  BY Closes DEF IInv
<1>2. WidgetsOK' /\ RunsOK'
  BY Pieces DEF IInv, DisposedWidgets, Disposed, taskVars, WidgetsOK, RunsOK
<1>3. /\ \A w \in Widgets : widget[w] = "disposed" => widget'[w] = "disposed"
      /\ \A w \in ws : widget'[w] = "disposed"
      /\ UNCHANGED <<terminalId, taskOf, tasks, killer>>
  BY DEF DisposedWidgets, Disposed, taskVars
<1>4. \A r \in Runs : taskOf'[r] \in Used \cup {-1}
  BY <1>3 DEF IInv, Owned
<1>5. ASSUME NEW m \in ToSet(CloseCalls(ws))
      PROVE  /\ Fits(m) /\ Holds(m.of, m.id) /\ widget'[m.of] = "disposed"
  BY <1>1, <1>3 DEF Fits, Holds, IInv, Owned, TaskKinds
<1> HIDE DEF IInv
<1> QED BY <1>1, <1>2, <1>3, <1>4, <1>5, BrowserStep

LEMMA UserClosesStep ==
  ASSUME IInv, NEW w \in Widgets, UserCloses(w), UNCHANGED taskVars
  PROVE  IInv'
BY DisposeStep DEF UserCloses

LEMMA TerminalAnswerStep ==
  ASSUME IInv, TerminalAnswer, UNCHANGED taskVars
  PROVE  IInv'
<1> DEFINE a == Head(answers)
<1>1. PICK w : w = a.of
  OBVIOUS
<1>2. /\ answers # <<>> /\ answers' = Tail(answers)
      /\ a \in Messages /\ a \in InFlight /\ Fits(a)
      /\ UNCHANGED <<connection, isOpen, connectionPromise, processVars, taskVars>>
  BY Arrived DEF IInv, TerminalAnswer
<1>3. /\ RunsOK' /\ UNCHANGED <<taskOf, tasks, killer>>
      /\ \A r \in Runs : taskOf'[r] \in Used \cup {-1}
  BY <1>2, Pieces DEF IInv, Owned, taskVars, RunsOK
<1>4. a.of \in Widgets \cup {NoOne} /\ a.id \in Ids \cup {-1} /\ a.id \in Used \cup {-1}
  BY <1>2 DEF Messages, Fits
<1>5. CASE /\ a.op \in {"created", "attached"} /\ a.id # -1
           /\ terminalId' = [terminalId EXCEPT ![w] = a.id]
           /\ stream' = [stream EXCEPT ![w] = -1]
           /\ strays' = IF widget[w] = "shown" THEN strays ELSE strays \cup {a.id}
           /\ Call(<<Message("stream", w, a.id)>>)
           /\ UNCHANGED <<widget, toReconnect>>
  <2> DEFINE m == Message("stream", w, a.id)
  <2>1. /\ m \in Messages /\ m.op = "stream" /\ m.of = w /\ m.id = a.id
    BY <1>1, <1>4 DEF Message, Messages
  <2>2. WidgetsOK'
    BY <1>4, <1>5, Pieces DEF IInv, WidgetsOK
  <2>3. ASSUME NEW v \in Widgets
        PROVE  \/ terminalId'[v] = terminalId[v]
               \/ \E x \in InFlight : x.op \in Holding /\ x.of = v /\ x.id = terminalId'[v]
    <3>1. terminalId'[v] = terminalId[v] \/ (v = w /\ terminalId'[v] = a.id)
      BY <1>5, Pieces DEF IInv, WidgetsOK
    <3> QED BY <1>1, <1>2, <1>5, <3>1 DEF Holding
  <2>4. Holds(w, a.id)
    BY <1>1, <1>2, <1>5 DEF Holds, Holding
  <2>5. Call(<<m>>) /\ UNCHANGED widget
    BY <1>5
  <2> HIDE DEF m
  <2>6. <<m>> \in Seq(Messages) /\ ToSet(<<m>>) = {m}
    BY <2>1, ShortSeqs
  <2>7. Fits(m)
    BY <1>4, <2>1 DEF Fits, TaskKinds
  <2> HIDE DEF a, IInv
  <2> QED BY <1>2, <1>3, <2>1, <2>2, <2>3, <2>4, <2>5, <2>6, <2>7, BrowserStep DEF a
<1>6. CASE a.op = "attached" /\ a.id = -1 /\ Call(<<Create(w)>>) /\ UNCHANGED widgetVars
  <2> DEFINE m == Create(w)
  <2>1. m \in Messages /\ m.op = "create" /\ m.id = -1
    BY <1>1, <1>4 DEF Create, Message, Messages
  <2>2. WidgetsOK' /\ UNCHANGED <<widget, terminalId>>
    BY <1>6, Pieces DEF IInv, widgetVars, WidgetsOK
  <2>3. Call(<<m>>)
    BY <1>6
  <2> HIDE DEF m
  <2>4. <<m>> \in Seq(Messages) /\ ToSet(<<m>>) = {m}
    BY <2>1, ShortSeqs
  <2>5. Fits(m) /\ ~(m.op \in Holding)
    BY <2>1 DEF Fits, Holding, TaskKinds
  <2> HIDE DEF a, IInv
  <2> QED BY <1>2, <1>3, <2>1, <2>2, <2>3, <2>4, <2>5, BrowserStep DEF a
<1>7. CASE /\ a.op = "streaming"
           /\ stream' = IF widget[w] = "shown" THEN [stream EXCEPT ![w] = a.id] ELSE stream
           /\ Call(<<>>)
           /\ UNCHANGED <<widget, terminalId, toReconnect, strays>>
  <2>1. WidgetsOK' /\ UNCHANGED <<widget, terminalId>>
    BY <1>4, <1>7, Pieces DEF IInv, WidgetsOK
  <2>2. Call(<<>>)
    BY <1>7
  <2>3. <<>> \in Seq(Messages) /\ ToSet(<<>>) = {}
    BY ShortSeqs
  <2> HIDE DEF a, IInv
  <2> QED BY <1>2, <1>3, <2>1, <2>2, <2>3, BrowserStep DEF a
<1>8. CASE \E gone \in SUBSET Widgets : DisposedWidgets(gone) /\ Call(CloseCalls(gone))
  <2> HIDE DEF IInv
  <2> QED BY <1>2, <1>8, DisposeStep
<1>9. Shown \subseteq Widgets
  BY DEF Shown
<1>10. {v \in Shown : terminalId[v] = a.id} \in SUBSET Widgets
  BY <1>9
<1> QED BY <1>1, <1>5, <1>6, <1>7, <1>8, <1>10 DEF TerminalAnswer

LEMMA TaskAnswerStep ==
  ASSUME IInv, TaskAnswer
  PROVE  IInv'
<1> DEFINE a == Head(answers)
<1>1. PICK r : r = a.of
  OBVIOUS
<1>2. /\ answers # <<>> /\ answers' = Tail(answers)
      /\ a \in Messages /\ a \in InFlight /\ Fits(a)
      /\ UNCHANGED <<connection, isOpen, connectionPromise, processVars, tasks, caller, killer>>
  BY Arrived DEF IInv, TaskAnswer
<1>3. a.of \in Widgets \cup {NoOne} /\ a.id \in Ids \cup {-1} /\ a.id \in Used \cup {-1}
  BY <1>2 DEF Messages, Fits
<1>4. RunsOK'
  <2>1. run' \in [Runs -> {"none", "asked", "launched", "failed"}]
    BY Pieces DEF IInv, RunsOK, TaskAnswer
  <2>2. kill' \in [Runs -> {"none", "asked", "settled"}]
    BY Pieces DEF IInv, RunsOK, TaskAnswer
  <2>3. taskOf' \in [Runs -> Ids \cup {-1}]
    BY <1>3, Pieces DEF IInv, RunsOK, TaskAnswer
  <2> QED BY <1>2, <2>1, <2>2, <2>3, Pieces DEF IInv, RunsOK
<1>5. ASSUME NEW x \in Runs PROVE taskOf'[x] \in Used \cup {-1}
  <2>1. taskOf' = [taskOf EXCEPT ![r] = a.id]
    BY <1>1 DEF TaskAnswer
  <2> QED BY <1>3, <2>1, Pieces DEF IInv, Owned, RunsOK
<1>6. CASE a.op = "terminalRan" /\ Open(r, Attach(r, a.id))
  <2> DEFINE m == Attach(r, a.id)
  <2>1. m \in Messages /\ m.op = "attach" /\ m.id = a.id
    BY <1>1, <1>3 DEF Attach, Message, Messages
  <2>2. /\ WidgetsOK' /\ UNCHANGED terminalId /\ Call(<<m>>)
        /\ \A w \in Widgets : widget[w] = "disposed" => widget'[w] = "disposed"
    BY <1>6, Pieces DEF IInv, Open, WidgetsOK
  <2> HIDE DEF m
  <2>3. <<m>> \in Seq(Messages) /\ ToSet(<<m>>) = {m}
    BY <2>1, ShortSeqs
  <2>4. ~IsShell(m.id)
    BY <1>2, <1>6, <2>1 DEF Fits, IsShell, IsTask, TaskKinds
  <2>5. Fits(m)
    BY <1>3, <2>1 DEF Fits, TaskKinds
  <2> HIDE DEF a, IInv
  <2> QED BY <1>2, <1>4, <1>5, <2>1, <2>2, <2>3, <2>4, <2>5, BrowserStep DEF a
<1>7. CASE Call(<<>>) /\ UNCHANGED widgetVars
  <2>1. WidgetsOK' /\ UNCHANGED <<widget, terminalId>>
    BY <1>7, Pieces DEF IInv, widgetVars, WidgetsOK
  <2>2. <<>> \in Seq(Messages) /\ ToSet(<<>>) = {}
    BY ShortSeqs
  <2> HIDE DEF a, IInv
  <2> QED BY <1>2, <1>4, <1>5, <1>7, <2>1, <2>2, BrowserStep DEF a
<1> QED BY <1>1, <1>6, <1>7 DEF TaskAnswer

LEMMA ReconnectedStep ==
  ASSUME IInv, Reconnected, UNCHANGED taskVars
  PROVE  IInv'
<1>1. /\ ReconnectCalls \in Seq(Messages)
      /\ \A m \in ToSet(ReconnectCalls) :
           m.op = "attach" /\ m.of \in Widgets /\ m.id = terminalId[m.of]
  BY Reconnects DEF IInv
<1>2. ProxyOK' /\ InFlight' \subseteq InFlight \cup ToSet(ReconnectCalls)
  BY <1>1, ListenStep, TypeParts DEF IInv, Reconnected
<1>3. /\ Numbered' /\ ListedTasksRun'
      /\ (processes \in [Ids -> Process])' /\ (failures \in 0 .. MaxFailures)'
      /\ \A i \in Ids : processes'[i].kind = processes[i].kind
      /\ \A i \in Ids : IsShell(i) /\ processes'[i].signalled => Doomed(i)
  BY ProcessesRest DEF IInv, Reconnected, taskVars
<1>4. WidgetsOK' /\ RunsOK' /\ UNCHANGED <<widget, terminalId, taskOf>>
  BY Pieces DEF IInv, Reconnected, taskVars, WidgetsOK, RunsOK
<1>5. \A r \in Runs : taskOf'[r] \in Used \cup {-1}
  BY <1>4 DEF IInv, Owned
<1>6. ASSUME NEW m \in ToSet(ReconnectCalls) PROVE Fits(m) /\ Holds(m.of, m.id)
  BY <1>1 DEF Fits, Holds, IInv, Owned, TaskKinds
<1>7. Owned'
  BY <1>1, <1>2, <1>3, <1>4, <1>5, <1>6, OwnedStep DEF IInv
<1>8. TypeOK'
  BY <1>2, <1>3, <1>4, PiecesKept
<1> QED BY <1>3, <1>7, <1>8 DEF IInv

LEMMA ConnectionLostStep ==
  ASSUME IInv, ConnectionLost
  PROVE  IInv'
<1> PICK none : none = {}
  OBVIOUS
<1>1. ProxyOK' /\ InFlight' \subseteq InFlight \cup none
  BY BreakStep, TypeParts DEF IInv, ConnectionLost, Lost
<1>2. /\ Numbered' /\ ListedTasksRun'
      /\ (processes \in [Ids -> Process])' /\ (failures \in 0 .. MaxFailures)'
      /\ \A i \in Ids : processes'[i].kind = processes[i].kind
      /\ \A i \in Ids : IsShell(i) /\ processes'[i].signalled => Doomed(i)
  BY ProcessesRest DEF IInv, ConnectionLost, Lost
<1>3. RunsOK' /\ UNCHANGED <<widget, terminalId, taskOf>>
  BY Pieces DEF IInv, ConnectionLost, Lost, RunsOK
<1>4. \A m \in ToSet(answers) \cup ToSet(requests) :
        m \in InFlight /\ m.id \in Ids \cup {-1} /\ (m.op = "created" => m.id \in Ids)
  <2>1. \A m \in ToSet(answers) \cup ToSet(requests) : m \in InFlight /\ m \in Messages
    BY Pieces DEF IInv, ProxyOK, InFlight, ToSet
  <2> QED BY <2>1 DEF Messages, IInv, Owned, Fits, IsShell
<1>5. WidgetsOK'
  <2>1. toReconnect' \subseteq Widgets
    BY DEF ConnectionLost, Lost, Shown
  <2>2. strays' \subseteq Ids
    BY <1>4, Pieces DEF IInv, WidgetsOK, ConnectionLost, Lost
  <2> QED BY <1>3, <2>1, <2>2, Pieces DEF IInv, WidgetsOK, ConnectionLost, Lost
<1>6. \A r \in Runs : taskOf'[r] \in Used \cup {-1}
  BY <1>3 DEF IInv, Owned
<1>7. Owned'
  BY <1>1, <1>2, <1>3, <1>6, OwnedStep DEF IInv
<1>8. TypeOK'
  BY <1>1, <1>2, <1>3, <1>5, PiecesKept
<1> QED BY <1>2, <1>7, <1>8 DEF IInv

-----------------------------------------------------------------------------
(* The backend's steps.                                                    *)

\* A step that spawns nothing and leaves the browser alone.
LEMMA BackendOwned ==
  ASSUME TypeOK, Owned, NEW new, InFlight' \subseteq InFlight \cup new,
         UNCHANGED <<widget, terminalId, taskOf>>,
         \A i \in Ids : processes'[i].kind = processes[i].kind,
         \A i \in Ids : IsShell(i) /\ processes'[i].signalled => Doomed(i),
         \A m \in new : Fits(m) /\ m.op # "close",
         \A m \in new : m.op \in Holding /\ IsShell(m.id) => Holds(m.of, m.id)
  PROVE  Owned'
<1>1. \A r \in Runs : taskOf'[r] \in Used \cup {-1}
  BY DEF Owned
<1> QED BY <1>1, OwnedStep

LEMMA ServeCreateStep ==
  ASSUME IInv, ServeCreate, UNCHANGED taskVars
  PROVE  IInv'
<1> DEFINE c == Head(requests)
           m == Message("created", c.of, NextId)
<1>1. requests # <<>> /\ c \in Messages /\ Spawn("shell")
  BY Arrived DEF IInv, ServeCreate
<1>2. PICK n : n = NextId
  OBVIOUS
<1>3. /\ n \in Ids /\ n \notin Used /\ Numbered'
      /\ processes' \in [Ids -> Process] /\ failures' \in 0 .. MaxFailures
      /\ \A i \in Ids \ {n} : processes'[i] = processes[i]
      /\ processes'[n].kind = "shell"
  BY <1>1, <1>2, Spawned DEF IInv
<1>4. m \in Messages
  BY <1>1, <1>2, <1>3 DEF Message, Messages
<1>5. <<m>> \in Seq(Messages) /\ ToSet(<<m>>) = {m}
  BY <1>4, ShortSeqs
<1>6. ProxyOK' /\ InFlight' \subseteq InFlight \cup {m}
  <2>1. Serve(<<m>>)
    BY DEF ServeCreate
  <2> HIDE DEF m
  <2> QED BY <2>1, <1>5, ServeStep, TypeParts DEF IInv
<1>7. WidgetsOK' /\ RunsOK' /\ UNCHANGED <<widget, terminalId, taskOf, tasks, killer>>
  BY Pieces DEF IInv, ServeCreate, widgetVars, taskVars, WidgetsOK, RunsOK
<1>8. PICK new : new = {m}
  OBVIOUS
<1>9. Owned'
  <2>1. \A x \in new : x = Message("created", c.of, NextId)
    BY <1>8
  <2> PICK of : of = c.of
    OBVIOUS
  <2>2. \A x \in new : "shell" = "shell" /\ x = Message("created", of, NextId)
    BY <2>1
  <2>3. InFlight' \subseteq InFlight \cup new
    BY <1>6, <1>8
  <2> HIDE DEF m, c
  <2> QED BY <1>1, <1>7, <2>2, <2>3, SpawnStep DEF IInv
<1>10. ListedTasksRun'
  <2>1. processes[n].kind \notin TaskKinds
    BY <1>3 DEF Used, TaskKinds
  <2>2. "shell" \notin TaskKinds
    BY DEF TaskKinds
  <2> QED BY <1>3, <1>7, <2>1, <2>2 DEF IInv, ListedTasksRun
<1>11. TypeOK'
  BY <1>3, <1>6, <1>7, PiecesKept
<1> QED BY <1>3, <1>9, <1>10, <1>11 DEF IInv

LEMMA ServeRunStep ==
  ASSUME IInv, ServeRun
  PROVE  IInv'
<1> DEFINE c == Head(requests)
<1>1. requests # <<>> /\ c \in Messages /\ Fits(c) /\ c.op \in TaskKinds /\ Spawn(c.op)
  BY Arrived DEF IInv, ServeRun
<1>2. PICK n : n = NextId
  OBVIOUS
<1>3. /\ n \in Ids /\ n \notin Used /\ Numbered'
      /\ processes' \in [Ids -> Process] /\ failures' \in 0 .. MaxFailures
      /\ \A i \in Ids \ {n} : processes'[i] = processes[i]
      /\ processes'[n].os # "running"
  <2>1. PICK kind \in TaskKinds : kind = c.op
    BY <1>1
  <2> QED BY <1>1, <1>2, <2>1, Spawned DEF IInv
<1>4. PICK new : new = {}
  OBVIOUS
<1>5. ProxyOK' /\ InFlight' \subseteq InFlight \cup new
  <2>1. <<>> \in Seq(Messages) /\ ToSet(<<>>) = {}
    BY ShortSeqs
  <2> QED BY <1>4, <2>1, ServeStep, TypeParts DEF IInv, ServeRun
<1>6. WidgetsOK' /\ RunsOK' /\ UNCHANGED <<widget, terminalId, taskOf, tasks, killer>>
  <2>1. c.of \in Runs
    BY <1>1 DEF Fits
  <2>2. connection \in 0 .. MaxConnections
    BY DEF IInv, TypeOK
  <2>3. caller' \in [Ids -> [run : Runs \cup {NoOne}, connection : 0 .. MaxConnections]]
    BY <2>1, <2>2, Pieces DEF IInv, RunsOK, ServeRun
  <2> QED BY <2>3, Pieces DEF IInv, ServeRun, widgetVars, WidgetsOK, RunsOK
<1>7. Owned'
  <2> PICK kind : kind = c.op
    OBVIOUS
  <2>1. kind \in TaskKinds /\ Spawn(kind)
    BY <1>1
  <2>2. \A m \in new : kind = "shell" /\ m = Message("created", NoOne, NextId)
    BY <1>4
  <2>3. /\ kind \in {"shell"} \cup TaskKinds /\ TypeOK /\ Numbered /\ Owned
        /\ UNCHANGED <<widget, terminalId, taskOf>>
    BY <1>6, <2>1 DEF IInv
  <2> HIDE DEF c
  <2> QED BY <1>5, <2>1, <2>2, <2>3, SpawnStep
<1>8. ListedTasksRun'
  <2>1. processes[n].kind \notin TaskKinds
    BY <1>3 DEF Used, TaskKinds
  <2> QED BY <1>3, <1>6, <2>1 DEF IInv, ListedTasksRun
<1>9. TypeOK'
  BY <1>3, <1>5, <1>6, PiecesKept
<1> QED BY <1>3, <1>7, <1>8, <1>9 DEF IInv

LEMMA ServeTerminalStep ==
  ASSUME IInv, ServeTerminal, UNCHANGED taskVars
  PROVE  IInv'
<1> DEFINE c == Head(requests)
<1>1. /\ requests # <<>> /\ c \in Messages /\ c \in InFlight /\ Fits(c)
      /\ processes \in [Ids -> Process]
  BY Arrived, TypeParts DEF IInv, ServeTerminal
<1>2. c.of \in Widgets \cup {NoOne} /\ c.id \in Ids \cup {-1} /\ c.id \in Used \cup {-1}
  BY <1>1 DEF Messages, Fits
<1>3. /\ WidgetsOK' /\ RunsOK' /\ (failures \in 0 .. MaxFailures)'
      /\ UNCHANGED <<widget, terminalId, taskOf, tasks, killer>>
  BY Pieces DEF IInv, ServeTerminal, widgetVars, taskVars, WidgetsOK, RunsOK
<1>4. PICK as \in Seq(Messages) :
        /\ Serve(as)
        /\ \A m \in ToSet(as) : Fits(m) /\ m.op # "close"
        /\ \A m \in ToSet(as) : m.op \in Holding /\ IsShell(m.id) => Holds(m.of, m.id)
  <2>1. CASE c.op = "attach"
    <3> DEFINE m == Message("attached", c.of, IF Registered(c.id) THEN c.id ELSE -1)
    <3>1. /\ m \in Messages /\ m.op = "attached" /\ m.of = c.of /\ m.id \in {c.id, -1}
          /\ Serve(<<m>>)
      BY <1>2, <2>1 DEF Message, Messages, ServeTerminal
    <3>2. Fits(m)
      BY <1>2, <3>1 DEF Fits, TaskKinds
    <3>3. IsShell(m.id) => Holds(m.of, m.id)
      BY <1>1, <2>1, <3>1 DEF IsShell, Ids, Holds, Holding
    <3> HIDE DEF m
    <3>4. <<m>> \in Seq(Messages) /\ ToSet(<<m>>) = {m}
      BY <3>1, ShortSeqs
    <3> QED BY <3>1, <3>2, <3>3, <3>4
  <2>2. CASE c.op = "close"
    BY <2>2, ShortSeqs DEF ServeTerminal
  <2>3. CASE c.op = "stream"
    <3> DEFINE m == Message("streaming", c.of, c.id)
    <3>1. /\ m \in Messages /\ m.op = "streaming" /\ m.id = c.id
          /\ Serve(<<m>>) \/ Serve(<<>>)
      BY <1>2, <2>3 DEF Message, Messages, ServeTerminal
    <3> HIDE DEF m
    <3>2. Fits(m) /\ ~(m.op \in Holding)
      BY <1>2, <3>1 DEF Fits, TaskKinds, Holding
    <3>3. <<m>> \in Seq(Messages) /\ ToSet(<<m>>) = {m}
      BY <3>1, ShortSeqs
    <3> QED BY <3>1, <3>2, <3>3, ShortSeqs
  <2> QED BY <2>1, <2>2, <2>3 DEF ServeTerminal
<1>5. ProxyOK' /\ InFlight' \subseteq InFlight \cup ToSet(as)
  BY <1>4, ServeStep, TypeParts DEF IInv
<1>6. /\ processes' \in [Ids -> Process]
      /\ \A i \in Ids : processes'[i].kind = processes[i].kind
      /\ \A i \in Ids : processes'[i].os = processes[i].os
      /\ \A i \in Ids : IsShell(i) /\ processes'[i].signalled => Doomed(i)
  <2>1. CASE UNCHANGED processes
    BY <1>1, <2>1 DEF Doomed
  <2>2. CASE c.op = "close" /\ c.id \in Ids /\ processes' = Killed(c.id)
    <3>1. /\ processes' \in [Ids -> Process]
          /\ \A i \in Ids : processes'[i].kind = processes[i].kind
          /\ \A i \in Ids : processes'[i].os = processes[i].os
          /\ \A i \in Ids \ {c.id} : processes'[i] = processes[i]
      BY <1>1, <2>2, KillStep
    <3>2. Doomed(c.id)
      BY <1>1, <2>2 DEF Doomed
    <3> QED BY <3>1, <3>2 DEF Doomed
  <2> QED BY <2>1, <2>2 DEF ServeTerminal, Registered
<1>7. Owned'
  <2>1. PICK new : new = ToSet(as)
    OBVIOUS
  <2> QED BY <1>3, <1>4, <1>5, <1>6, <2>1, BackendOwned DEF IInv
<1>8. Numbered' /\ ListedTasksRun'
  BY <1>3, <1>6, ListKept DEF IInv, Numbered, Used
<1>9. TypeOK'
  BY <1>3, <1>5, <1>6, PiecesKept
<1> QED BY <1>7, <1>8, <1>9 DEF IInv

LEMMA ServeKillStep ==
  ASSUME IInv, ServeKill
  PROVE  IInv'
<1> DEFINE c == Head(requests)
<1>1. /\ requests # <<>> /\ c \in Messages /\ c \in InFlight /\ Fits(c)
      /\ processes \in [Ids -> Process] /\ connection \in 0 .. MaxConnections
  BY Arrived, TypeParts DEF IInv, ServeKill, ProxyOK
<1>2. c.of \in Widgets \cup {NoOne} /\ c.id \in Ids \cup {-1} /\ c.id \in Used \cup {-1}
  BY <1>1 DEF Messages, Fits
<1>3. /\ (failures \in 0 .. MaxFailures)' /\ WidgetsOK'
      /\ UNCHANGED <<widget, terminalId, run, kill, taskOf, tasks, caller>>
  BY Pieces DEF IInv, ServeKill, widgetVars, WidgetsOK
<1>4. PICK as \in Seq(Messages) :
        /\ Serve(as)
        /\ \A m \in ToSet(as) : Fits(m) /\ m.op # "close" /\ ~(m.op \in Holding)
  <2> DEFINE m == Message("killSettled", c.of, c.id)
  <2>1. /\ m \in Messages /\ m.op = "killSettled" /\ m.id = c.id
        /\ Serve(<<m>>) \/ Serve(<<>>)
    BY <1>2 DEF Message, Messages, ServeKill
  <2> HIDE DEF m
  <2>2. Fits(m) /\ ~(m.op \in Holding)
    BY <1>2, <2>1 DEF Fits, TaskKinds, Holding
  <2>3. <<m>> \in Seq(Messages) /\ ToSet(<<m>>) = {m}
    BY <2>1, ShortSeqs
  <2> QED BY <2>1, <2>2, <2>3, ShortSeqs
<1>5. ProxyOK' /\ InFlight' \subseteq InFlight \cup ToSet(as)
  BY <1>4, ServeStep, TypeParts DEF IInv
<1>6. /\ processes' \in [Ids -> Process]
      /\ \A i \in Ids : processes'[i].kind = processes[i].kind
      /\ \A i \in Ids : processes'[i].os = processes[i].os
      /\ \A i \in Ids : IsShell(i) /\ processes'[i].signalled => Doomed(i)
      /\ killer' \in [Ids -> 0 .. MaxConnections]
      /\ \A i \in Ids : killer'[i] # 0 => killer[i] # 0 \/ i \in tasks
  <2>1. CASE c.id \in tasks
    <3>1. /\ c.id \in Ids /\ processes[c.id].kind \in TaskKinds
      BY <2>1 DEF IInv, ListedTasksRun
    <3>2. processes' = Killed(c.id) /\ killer' = [killer EXCEPT ![c.id] = connection]
      BY <2>1 DEF ServeKill
    <3>3. /\ processes' \in [Ids -> Process]
          /\ \A i \in Ids : processes'[i].kind = processes[i].kind
          /\ \A i \in Ids : processes'[i].os = processes[i].os
          /\ \A i \in Ids \ {c.id} : processes'[i] = processes[i]
      BY <1>1, <3>1, <3>2, KillStep
    <3>4. ~IsShell(c.id)
      BY <3>1 DEF IsShell, TaskKinds
    <3>5. /\ killer' \in [Ids -> 0 .. MaxConnections]
          /\ \A i \in Ids : killer'[i] # 0 => killer[i] # 0 \/ i \in tasks
      BY <1>1, <2>1, <3>1, <3>2, Pieces DEF IInv, RunsOK
    <3> QED BY <3>3, <3>4, <3>5 DEF Doomed, IsShell
  <2>2. CASE UNCHANGED <<processes, killer>>
    BY <1>1, <2>2, Pieces DEF Doomed, IInv, RunsOK
  <2> QED BY <2>1, <2>2 DEF ServeKill
<1>7. Owned'
  <2>1. PICK new : new = ToSet(as)
    OBVIOUS
  <2> QED BY <1>3, <1>4, <1>5, <1>6, <2>1, BackendOwned DEF IInv
<1>8. Numbered' /\ ListedTasksRun'
  BY <1>3, <1>6, ListKept DEF IInv, Numbered, Used
<1>9. RunsOK'
  BY <1>3, <1>6, Pieces DEF IInv, RunsOK
<1>10. TypeOK'
  BY <1>3, <1>5, <1>6, <1>9, PiecesKept
<1> QED BY <1>7, <1>8, <1>10 DEF IInv

\* An event of a process, with the messages it sends, but for the list of tasks.
LEMMA ReportStep ==
  ASSUME IInv, NEW id \in Ids,
         EmitOnStarted(id) \/ EmitOnError(id) \/ EmitThrown(id) \/ EmitOnExit(id),
         NEW as \in Seq(Messages), Notify(as) \/ UNCHANGED proxyVars,
         \A m \in ToSet(as) : Fits(m) /\ m.op # "close" /\ ~(m.op \in Holding),
         UNCHANGED <<widgetVars, taskOf>>, RunsOK'
  PROVE  TypeOK' /\ Numbered' /\ Owned'
<1>1. ProxyOK' /\ InFlight' \subseteq InFlight \cup ToSet(as)
  <2>1. CASE Notify(as)
    BY <2>1, NotifyStep, TypeParts DEF IInv
  <2>2. CASE UNCHANGED proxyVars
    BY <2>2, TypeParts DEF IInv, proxyVars, ProxyOK, InFlight
  <2> QED BY <2>1, <2>2
<1>2. /\ processes' \in [Ids -> Process] /\ failures' = failures
      /\ \A i \in Ids : processes'[i].kind = processes[i].kind
      /\ \A i \in Ids : processes'[i].signalled <=> processes[i].signalled
  BY EventStep, TypeParts DEF IInv
<1>3. WidgetsOK' /\ (failures \in 0 .. MaxFailures)' /\ UNCHANGED <<widget, terminalId>>
  BY <1>2, Pieces DEF IInv, widgetVars, WidgetsOK
<1>4. TypeOK'
  BY <1>1, <1>2, <1>3, PiecesKept
<1>5. Numbered'
  BY <1>2 DEF IInv, Numbered, Used
<1>6. Owned'
  <2>1. PICK new : new = ToSet(as)
    OBVIOUS
  <2>2. \A i \in Ids : IsShell(i) /\ processes'[i].signalled => Doomed(i)
    BY <1>2 DEF Doomed
  <2> QED BY <1>1, <1>2, <1>3, <2>1, <2>2, BackendOwned DEF IInv
<1> QED BY <1>4, <1>5, <1>6

LEMMA SpawnedIds ==
  ASSUME TypeOK, NEW id \in Ids, processes[id].kind # "none"
  PROVE  id \in Used
BY DEF Used

LEMMA ShellEventStep ==
  ASSUME IInv, NEW id \in Ids, ShellEvent(id), UNCHANGED taskVars
  PROVE  IInv'
<1> DEFINE m == Message("terminalGone", NoOne, id)
<1>1. m \in Messages /\ m.op = "terminalGone" /\ m.id = id
  BY DEF Message, Messages
<1>2. /\ processes[id].kind = "shell"
      /\ EmitOnStarted(id) \/ EmitOnError(id) \/ EmitThrown(id) \/ EmitOnExit(id)
      /\ Notify(<<m>>) \/ UNCHANGED proxyVars
      /\ UNCHANGED <<widgetVars, taskVars>>
  BY DEF ShellEvent
<1> HIDE DEF m
<1>3. <<m>> \in Seq(Messages) /\ ToSet(<<m>>) = {m}
  BY <1>1, ShortSeqs
<1>4. Fits(m) /\ ~(m.op \in Holding)
  BY <1>1, <1>2, SpawnedIds DEF IInv, Fits, TaskKinds, Holding
<1>5. RunsOK' /\ UNCHANGED <<taskOf, tasks, killer>>
  BY <1>2, Pieces DEF IInv, taskVars, RunsOK
<1>6. TypeOK' /\ Numbered' /\ Owned'
  BY <1>1, <1>2, <1>3, <1>4, <1>5, ReportStep
<1>7. ListedTasksRun'
  <2>1. /\ \A i \in Ids : processes'[i].kind = processes[i].kind
        /\ \A i \in Ids \ {id} : processes'[i] = processes[i]
    BY <1>2, EventStep, TypeParts DEF IInv
  <2>2. processes[id].kind \notin TaskKinds
    BY <1>2 DEF TaskKinds
  <2> QED BY <1>5, <2>1, <2>2, ListKept DEF IInv
<1> QED BY <1>6, <1>7 DEF IInv

\* The answer about a task, if there is one.
LEMMA Answered ==
  ASSUME NEW c, NEW m \in Messages, Answer(c, m)
  PROVE  \E as \in Seq(Messages) : Notify(as) /\ ToSet(as) \subseteq {m}
BY ShortSeqs DEF Answer

LEMMA TaskStartedStep ==
  ASSUME IInv, NEW id \in Ids, TaskStarted(id)
  PROVE  IInv'
<1> DEFINE op == IF processes[id].kind = "raw" THEN "rawRan" ELSE "terminalRan"
           m == Message(op, caller[id].run, id)
<1>1. caller[id].run \in Widgets \cup {NoOne}
  BY Pieces, TasksAssumption DEF IInv, RunsOK
<1>2. m \in Messages /\ m.op = op /\ m.id = id
  BY <1>1 DEF Message, Messages
<1>3. /\ processes[id].kind \in TaskKinds /\ EmitOnStarted(id) /\ tasks' = tasks \cup {id}
      /\ Answer(caller[id].connection, m)
      /\ UNCHANGED <<widgetVars, run, kill, taskOf, caller, killer>>
  BY DEF TaskStarted
<1>4. op \in {"rawRan", "terminalRan"}
  OBVIOUS
<1> HIDE DEF m, op
<1>5. Fits(m) /\ ~(m.op \in Holding) /\ m.op # "close"
  BY <1>2, <1>3, <1>4, SpawnedIds DEF IInv, Fits, TaskKinds, Holding, IsTask
<1>6. PICK as \in Seq(Messages) : Notify(as) /\ ToSet(as) \subseteq {m}
  BY <1>2, <1>3, Answered
<1>7. RunsOK'
  BY <1>3, Pieces DEF IInv, RunsOK
<1>8. TypeOK' /\ Numbered' /\ Owned'
  BY <1>3, <1>5, <1>6, <1>7, ReportStep
<1>9. ListedTasksRun'
  <2>1. /\ \A i \in Ids : processes'[i].kind = processes[i].kind
        /\ \A i \in Ids \ {id} : processes'[i] = processes[i]
        /\ processes'[id].os = "running"
    BY <1>3, EventStep, TypeParts DEF IInv
  <2> QED BY <1>3, <2>1 DEF IInv, ListedTasksRun
<1> QED BY <1>8, <1>9 DEF IInv

LEMMA TaskFailedStep ==
  ASSUME IInv, NEW id \in Ids, TaskFailed(id)
  PROVE  IInv'
<1> DEFINE m == Message("runFailed", caller[id].run, -1)
<1>1. caller[id].run \in Widgets \cup {NoOne}
  BY Pieces, TasksAssumption DEF IInv, RunsOK
<1>2. m \in Messages /\ m.op = "runFailed" /\ m.id = -1
  BY <1>1 DEF Message, Messages
<1>3. /\ EmitOnError(id) \/ EmitThrown(id)
      /\ Answer(caller[id].connection, m)
      /\ UNCHANGED <<widgetVars, taskVars>>
  BY DEF TaskFailed
<1> HIDE DEF m
<1>4. Fits(m) /\ ~(m.op \in Holding) /\ m.op # "close"
  BY <1>2 DEF Fits, TaskKinds, Holding
<1>5. PICK as \in Seq(Messages) : Notify(as) /\ ToSet(as) \subseteq {m}
  BY <1>2, <1>3, Answered
<1>6. RunsOK' /\ UNCHANGED <<taskOf, tasks, killer>>
  BY <1>3, Pieces DEF IInv, taskVars, RunsOK
<1>7. TypeOK' /\ Numbered' /\ Owned'
  BY <1>3, <1>4, <1>5, <1>6, ReportStep
<1>8. ListedTasksRun'
  <2>1. /\ \A i \in Ids : processes'[i].kind = processes[i].kind
        /\ \A i \in Ids \ {id} : processes'[i] = processes[i]
        /\ processes'[id].os = "dead" /\ processes[id].os # "running"
    BY <1>3, EventStep, TypeParts DEF IInv
  <2> QED BY <1>6, <2>1, ListKept DEF IInv
<1> QED BY <1>7, <1>8 DEF IInv

LEMMA TaskExitedStep ==
  ASSUME IInv, NEW id \in Ids, TaskExited(id)
  PROVE  IInv'
<1> DEFINE m == Message("killSettled", caller[id].run, id)
<1>1. caller[id].run \in Widgets \cup {NoOne}
  BY Pieces, TasksAssumption DEF IInv, RunsOK
<1>2. m \in Messages /\ m.op = "killSettled" /\ m.id = id
  BY <1>1 DEF Message, Messages
<1>3. /\ processes[id].kind \in TaskKinds /\ EmitOnExit(id) /\ tasks' = tasks \ {id}
      /\ Answer(killer[id], m) /\ killer' = [killer EXCEPT ![id] = 0]
      /\ UNCHANGED <<widgetVars, run, kill, taskOf, caller>>
  BY DEF TaskExited, Deleted
<1> HIDE DEF m
<1>4. Fits(m) /\ ~(m.op \in Holding) /\ m.op # "close"
  BY <1>2, <1>3, SpawnedIds DEF IInv, Fits, TaskKinds, Holding
<1>5. PICK as \in Seq(Messages) : Notify(as) /\ ToSet(as) \subseteq {m}
  BY <1>2, <1>3, Answered
<1>6. RunsOK'
  BY <1>3, Pieces, ProxyAssumption DEF IInv, RunsOK
<1>7. TypeOK' /\ Numbered' /\ Owned'
  BY <1>3, <1>4, <1>5, <1>6, ReportStep
<1>8. ListedTasksRun'
  <2>1. /\ \A i \in Ids : processes'[i].kind = processes[i].kind
        /\ \A i \in Ids \ {id} : processes'[i] = processes[i]
        /\ processes'[id].os = "dead"
    BY <1>3, EventStep, TypeParts DEF IInv
  <2>2. killer \in [Ids -> 0 .. MaxConnections]
    BY Pieces DEF IInv, RunsOK
  <2> QED BY <1>3, <2>1, <2>2 DEF IInv, ListedTasksRun
<1> QED BY <1>7, <1>8 DEF IInv

-----------------------------------------------------------------------------
(* The theorems.                                                           *)

LEMMA Initially ==
  Init => IInv
<1> SUFFICES ASSUME Init PROVE IInv
  OBVIOUS
<1>1. ToSet(<<>>) = {} /\ InFlight = {}
  BY ShortSeqs DEF Init, TerminalsInit, ProxyInit, InFlight
<1>2. NoProcess \in Process /\ NoProcess.kind = "none"
  BY DEF NoProcess, Process
<1>3. processes = [i \in Ids |-> NoProcess] /\ failures = 0
  BY DEF Init, TerminalsInit, ProcessesInit
<1>4. Used = {}
  BY <1>2, <1>3 DEF Used
<1>5. TypeOK
  <2>1. ProxyOK
    <3>1. <<>> \in Seq(Messages) /\ 0 \in 0 .. MaxConnections
      BY ProxyAssumption, ShortSeqs
    <3> QED BY <3>1 DEF Init, TerminalsInit, ProxyInit, ProxyOK
  <2>2. processes \in [Ids -> Process] /\ failures \in 0 .. MaxFailures
    BY <1>2, <1>3, ProcessesAssumption
  <2>3. WidgetsOK
    BY DEF Init, TerminalsInit, WidgetsOK
  <2>4. RunsOK
    BY ProxyAssumption DEF Init, RunsOK
  <2> QED BY <2>1, <2>2, <2>3, <2>4, Pieces
<1>6. Numbered
  <2>1. 0 \in Nat /\ Used = 0 .. 0 - 1
    BY <1>4
  <2> QED BY <2>1 DEF Numbered
<1>7. ListedTasksRun
  BY <1>2, <1>3 DEF Init, ListedTasksRun, TaskKinds
<1>8. \A i : ~IsShell(i)
  BY <1>2, <1>3 DEF IsShell
<1>9. Owned
  BY <1>1, <1>8 DEF Owned, Init, TerminalsInit
<1> QED BY <1>5, <1>6, <1>7, <1>9 DEF IInv

LEMMA Stuttering ==
  ASSUME IInv, UNCHANGED vars
  PROVE  IInv'
<1>1. ProxyOK' /\ InFlight' = InFlight
  BY TypeParts DEF IInv, vars, proxyVars, ProxyOK, InFlight
<1>2. /\ Numbered' /\ ListedTasksRun'
      /\ (processes \in [Ids -> Process])' /\ (failures \in 0 .. MaxFailures)'
      /\ \A i \in Ids : processes'[i].kind = processes[i].kind
      /\ \A i \in Ids : IsShell(i) /\ processes'[i].signalled => Doomed(i)
  BY ProcessesRest DEF IInv, vars, taskVars
<1>3. WidgetsOK' /\ RunsOK' /\ UNCHANGED <<widget, terminalId, taskOf>>
  BY Pieces DEF IInv, vars, widgetVars, taskVars, WidgetsOK, RunsOK
<1>4. TypeOK'
  BY <1>1, <1>2, <1>3, PiecesKept
<1> PICK none : none = {}
  OBVIOUS
<1>5. InFlight' \subseteq InFlight \cup none
  BY <1>1
<1>6. Owned'
  <2>1. \A m : m \notin none
    OBVIOUS
  <2>2. TypeOK /\ Owned /\ UNCHANGED <<widget, terminalId, taskOf>>
    BY <1>3 DEF IInv
  <2> HIDE DEF IInv
  <2> QED BY <1>2, <1>5, <2>1, <2>2, BackendOwned
<1> QED BY <1>2, <1>4, <1>6 DEF IInv

LEMMA Inductive ==
  IInv /\ [Next]_vars => IInv'
<1> SUFFICES ASSUME IInv, [Next]_vars PROVE IInv'
  OBVIOUS
<1>1. CASE Terminal /\ UNCHANGED taskVars
  <2>1. CASE Reconnected
    BY <1>1, <2>1, ReconnectedStep
  <2>2. CASE TerminalAnswer
    BY <1>1, <2>2, TerminalAnswerStep
  <2>3. CASE ServeCreate
    BY <1>1, <2>3, ServeCreateStep
  <2>4. CASE ServeTerminal
    BY <1>1, <2>4, ServeTerminalStep
  <2>5. CASE \E w \in Widgets : UserCloses(w)
    BY <1>1, <2>5, UserClosesStep
  <2>6. CASE \E id \in Ids : ShellEvent(id)
    BY <1>1, <2>6, ShellEventStep
  <2> QED BY <1>1, <2>1, <2>2, <2>3, <2>4, <2>5, <2>6 DEF Terminal
<1>2. CASE \E w \in Shells : OpenShell(w)
  BY <1>2, OpenShellStep
<1>3. CASE \E r \in Runs : KillTask(r)
  BY <1>3, KillTaskStep
<1>4. CASE \E r \in Runs : \E kind \in TaskKinds : RunTask(r, kind)
  BY <1>4, RunTaskStep
<1>5. CASE TaskAnswer
  BY <1>5, TaskAnswerStep
<1>6. CASE ConnectionLost
  BY <1>6, ConnectionLostStep
<1>7. CASE ServeRun
  BY <1>7, ServeRunStep
<1>8. CASE ServeKill
  BY <1>8, ServeKillStep
<1>9. CASE \E id \in Ids : TaskStarted(id)
  BY <1>9, TaskStartedStep
<1>10. CASE \E id \in Ids : TaskFailed(id)
  BY <1>10, TaskFailedStep
<1>11. CASE \E id \in Ids : TaskExited(id)
  BY <1>11, TaskExitedStep
<1>12. CASE UNCHANGED vars
  BY <1>12, Stuttering
<1> QED BY <1>1, <1>2, <1>3, <1>4, <1>5, <1>6, <1>7, <1>8, <1>9, <1>10, <1>11, <1>12 DEF Next

LEMMA Invariant ==
  Spec => []IInv
<1>1. Init => IInv
  BY Initially
<1>2. IInv /\ [Next]_vars => IInv'
  BY Inductive
<1> QED BY <1>1, <1>2, PTL DEF Spec

\* Every variable keeps its type, for any processes, widgets, runs and connections:
\* a message that arrives is always about a terminal or a task there is.
THEOREM TypeCorrect ==
  Spec => []TypeOK
<1>1. IInv => TypeOK
  BY DEF IInv
<1> QED BY <1>1, Invariant, PTL

\* The listed tasks are those that run, and a kill waits for one of these.
THEOREM OnlyRunningListed ==
  Spec => []ListedTasksRun
<1>1. IInv => ListedTasksRun
  BY DEF IInv
<1> QED BY <1>1, Invariant, PTL

\* No shell that a widget shows was sent the signal: one widget alone holds a shell,
\* and it is disposed before it says that the shell is to be closed.
THEOREM ShownNeverKilled ==
  Spec => []ShownNotKilled
<1>1. IInv => ShownNotKilled
  <2> SUFFICES ASSUME IInv, NEW w \in Shown, terminalId[w] # -1,
                      processes[terminalId[w]].kind = "shell",
                      processes[terminalId[w]].signalled
               PROVE  FALSE
    BY Zenon DEF ShownNotKilled
  <2>1. w \in Widgets /\ widget[w] = "shown"
    BY DEF Shown
  <2>2. IsShell(terminalId[w])
    BY <2>1, Pieces DEF IInv, WidgetsOK, IsShell
  <2>3. Holds(w, terminalId[w]) /\ Doomed(terminalId[w])
    BY <2>1 DEF Holds, Doomed
  <2> QED BY <2>1, <2>2, <2>3 DEF IInv, Owned
<1> QED BY <1>1, Invariant, PTL

-----------------------------------------------------------------------------
(* The buffer of a process's output: arithmetic modulo its size.           *)

USE DEF ring, ringVars, Nothing

LEMMA Modulo ==
  ASSUME NEW m \in Nat \ {0}, NEW a \in Int, -m <= a, a < 2 * m
  PROVE  a % m = IF a < 0 THEN a + m ELSE IF a < m THEN a ELSE a - m
<1>1. CASE a < 0 BY <1>1
<1>2. CASE a \in 0 .. m - 1 BY <1>2
<1>3. CASE a \in m .. 2 * m - 1 BY <1>3
<1> QED BY <1>1, <1>2, <1>3

\* Where a position comes to, and when it wraps around.
LEMMA Increment ==
  ASSUME NEW pos \in Positions, NEW size \in 0 .. maxSize
  PROVE  /\ inc(pos, size).newPos = IF pos + size < maxSize THEN pos + size ELSE pos + size - maxSize
         /\ inc(pos, size).newPos \in Positions
         /\ inc(pos, size).wrap <=> size # 0 /\ pos + size >= maxSize
<1> DEFINE sum == pos + size
<1>1. maxSize \in Nat \ {0} /\ pos \in 0 .. maxSize - 1 /\ size \in 0 .. maxSize
  BY RingAssumption DEF Positions
<1>2. sum \in Int /\ -maxSize <= sum /\ sum < 2 * maxSize /\ sum >= 0
  BY <1>1
<1>3. sum % maxSize = IF sum < 0 THEN sum + maxSize ELSE IF sum < maxSize THEN sum ELSE sum - maxSize
  <2> HIDE DEF sum
  <2> QED BY <1>1, <1>2, Modulo
<1>4. sum % maxSize = IF sum < maxSize THEN sum ELSE sum - maxSize
  <2> HIDE DEF sum
  <2> QED BY <1>1, <1>2, <1>3
<1>5. CASE size = 0 BY <1>1, <1>4, <1>5 DEF inc, Positions
<1>6. CASE size # 0
  <2>1. inc(pos, size).newPos = sum % maxSize /\ (inc(pos, size).wrap <=> sum % maxSize <= pos)
    BY <1>6 DEF inc
  <2>2. sum % maxSize <= pos <=> sum >= maxSize
    BY <1>1, <1>4, <1>6
  <2>3. sum % maxSize \in Positions
    BY <1>1, <1>4 DEF Positions
  <2>4. inc(pos, size).wrap <=> size # 0 /\ sum >= maxSize
    BY <1>6, <2>1, <2>2
  <2> HIDE DEF sum
  <2>5. /\ inc(pos, size).newPos = IF sum < maxSize THEN sum ELSE sum - maxSize
        /\ inc(pos, size).newPos \in Positions
    BY <1>4, <2>1, <2>3
  <2>6. inc(pos, size).wrap <=> size # 0 /\ pos + size >= maxSize
    BY <2>4 DEF sum
  <2>7. inc(pos, size).newPos = IF pos + size < maxSize THEN pos + size ELSE pos + size - maxSize
    BY <1>1, <2>5 DEF sum
  <2> QED BY <2>5, <2>6, <2>7
<1> QED BY <1>5, <1>6

-----------------------------------------------------------------------------
(* The contents of the ring.                                               *)

\* How many bytes were written after the one at p.
Age(p) == IF p <= head THEN head - p ELSE head - p + maxSize

\* An empty ring has no positions; one that was never exceeded starts at 0; then
\* the tail follows the head.
RingShape ==
  /\ total \in Nat
  /\ buffer \in [Positions -> Int]
  /\ total = 0 => head = Nothing /\ tail = Nothing
  /\ total > 0 => head \in Positions /\ tail \in Positions
  /\ total > 0 /\ total <= maxSize => tail = 0 /\ head = total - 1
  /\ total > maxSize => tail = IF head + 1 = maxSize THEN 0 ELSE head + 1

RingContents ==
  total > 0 => \A p \in Positions : Age(p) < Lower(total, maxSize) => buffer[p] = total - Age(p)

RingInv == RingShape /\ RingContents

LEMMA InitRing == RingInit => RingInv
BY RingAssumption DEF RingInit, RingInv, RingShape, RingContents, Positions

\* The first write.
LEMMA FirstWrite ==
  ASSUME RingInv, NEW n \in 1 .. maxSize + 1, enq(n), total = 0
  PROVE  RingInv'
<1> DEFINE size == Lower(n, maxSize)
<1>1. head = -1 /\ tail = -1 BY DEF RingInv, RingShape
<1>2. /\ total' = n /\ head' = size - 1 /\ tail' = 0
      /\ buffer' = Copied(0, size, n)
  BY <1>1 DEF enq
<1>3. size \in 1 .. maxSize /\ size <= n /\ (n <= maxSize => size = n) /\ (n > maxSize => size = maxSize)
  BY RingAssumption DEF Lower
<1> HIDE DEF size
<1>4. ASSUME NEW p \in Positions
      PROVE  (p - 0) % maxSize = p
  BY <1>4, Modulo, RingAssumption DEF Positions
<1>5. buffer' \in [Positions -> Int]
  BY <1>2, <1>3, <1>4 DEF Copied, RingInv, RingShape, Positions
<1>6. RingShape'
  BY <1>2, <1>3, <1>5, RingAssumption DEF RingShape, Positions
<1>7. ASSUME NEW p \in Positions, Age(p)' < Lower(total, maxSize)'
      PROVE  buffer'[p] = total' - Age(p)'
  <2>1. Lower(total, maxSize)' = size BY <1>2 DEF size, Lower
  <2>2. p < size
    BY <1>2, <1>3, <1>7, <2>1, RingAssumption DEF Age, Positions
  <2>3. Age(p)' = size - 1 - p BY <1>2, <1>3, <2>2 DEF Age, Positions
  <2>4. buffer'[p] = n - size + 1 + p BY <1>2, <1>4, <2>2 DEF Copied
  <2> QED BY <1>2, <1>3, <2>3, <2>4 DEF Positions
<1>8. RingContents' BY <1>7 DEF RingContents
<1> QED BY <1>6, <1>8 DEF RingInv

\* What a later write does to the head, and where it starts.
LEMMA LaterHead ==
  ASSUME RingInv, NEW n \in 1 .. maxSize + 1, enq(n), total > 0,
         NEW size, size = Lower(n, maxSize),
         NEW start, start = inc(head, 1).newPos
  PROVE  /\ size \in 1 .. maxSize /\ size <= n /\ (n <= maxSize => size = n) /\ (n > maxSize => size = maxSize)
         /\ head \in Positions
         /\ start \in Positions /\ start = IF head + 1 < maxSize THEN head + 1 ELSE 0
         /\ total' = total + n
         /\ head' = inc(head, size).newPos /\ head' \in Positions
         /\ head' = IF head + size < maxSize THEN head + size ELSE head + size - maxSize
         /\ tail' = NewTail(size)
         /\ buffer' = Copied(start, size, total')
<1>1. head \in Positions /\ tail \in Positions /\ maxSize \in Nat \ {0}
  BY RingAssumption DEF RingInv, RingShape
<1>2. head # -1 BY <1>1 DEF Positions
<1>3. size \in 1 .. maxSize /\ size <= n /\ (n <= maxSize => size = n) /\ (n > maxSize => size = maxSize)
  BY <1>1 DEF Lower
<1>4. /\ total' = total + n /\ head' = inc(head, size).newPos
      /\ tail' = NewTail(size) /\ buffer' = Copied(start, size, total')
  BY <1>2 DEF enq
<1>5. start \in Positions /\ start = IF head + 1 < maxSize THEN head + 1 ELSE head + 1 - maxSize
  BY <1>1, Increment
<1>6. /\ head' \in Positions
      /\ head' = IF head + size < maxSize THEN head + size ELSE head + size - maxSize
  BY <1>1, <1>3, <1>4, Increment
<1> QED BY <1>1, <1>3, <1>4, <1>5, <1>6 DEF Positions

LEMMA LaterWrite ==
  ASSUME RingInv, NEW n \in 1 .. maxSize + 1, enq(n), total > 0
  PROVE  RingInv'
<1> DEFINE size == Lower(n, maxSize)
           start == inc(head, 1).newPos
<1>1. /\ size \in 1 .. maxSize /\ size <= n /\ (n <= maxSize => size = n) /\ (n > maxSize => size = maxSize)
      /\ head \in Positions
      /\ start \in Positions /\ start = IF head + 1 < maxSize THEN head + 1 ELSE 0
      /\ total' = total + n
      /\ head' = inc(head, size).newPos /\ head' \in Positions
      /\ head' = IF head + size < maxSize THEN head + size ELSE head + size - maxSize
      /\ tail' = NewTail(size)
      /\ buffer' = Copied(start, size, total')
  BY LaterHead
<1> HIDE DEF size, start
<1>2. total \in Nat /\ tail \in Positions /\ maxSize \in Nat \ {0}
  BY RingAssumption DEF RingInv, RingShape
<1>3. inc(head, size).wrap <=> head + size >= maxSize
  BY <1>1, Increment DEF Positions
\* The tail moves exactly if the buffer is exceeded.
<1>4. shouldIncPos(tail, head, size) <=> total + n > maxSize
  <2>1. CASE total <= maxSize
    <3>1. tail = 0 /\ head = total - 1 BY <1>2, <2>1 DEF RingInv, RingShape
    <3>2. shouldIncPos(tail, head, size) <=> head + size >= maxSize
      BY <1>1, <1>2, <1>3, <3>1 DEF shouldIncPos, isWrapped, Positions
    <3> QED BY <1>1, <1>2, <3>1, <3>2
  <2>2. CASE total > maxSize
    <3>1. tail = IF head + 1 = maxSize THEN 0 ELSE head + 1 BY <2>2 DEF RingInv, RingShape
    <3>2. CASE head + 1 = maxSize
      BY <1>1, <1>2, <1>3, <2>2, <3>1, <3>2 DEF shouldIncPos, isWrapped, Positions
    <3>3. CASE head + 1 # maxSize
      BY <1>1, <1>2, <1>3, <2>2, <3>1, <3>3 DEF shouldIncPos, isWrapped, Positions
    <3> QED BY <3>2, <3>3
  <2> QED BY <1>2, <2>1, <2>2
<1>5. tail' = IF total' > maxSize THEN (IF head' + 1 = maxSize THEN 0 ELSE head' + 1) ELSE tail
  <2>1. inc(head', 1).newPos = IF head' + 1 = maxSize THEN 0 ELSE head' + 1
    BY <1>1, <1>2, Increment DEF Positions
  <2> QED BY <1>1, <1>4, <2>1 DEF NewTail, incTail
<1>6. total' <= maxSize => n = size /\ total <= maxSize /\ tail = 0 /\ head = total - 1
  BY <1>1, <1>2 DEF RingInv, RingShape
\* Where a byte lies from the start of the write.
<1>7. ASSUME NEW p \in Positions
      PROVE  (p - start) % maxSize = IF p < start THEN p - start + maxSize ELSE p - start
  <2> DEFINE offset == p - start
  <2>1. /\ offset \in Int /\ -maxSize <= offset /\ offset < maxSize
        /\ offset < 0 <=> p < start
    BY <1>1, <1>2, <1>7 DEF Positions
  <2>2. offset % maxSize = IF offset < 0 THEN offset + maxSize ELSE offset
    <3> HIDE DEF offset
    <3>1. maxSize \in Nat \ {0} /\ offset < 2 * maxSize BY <1>2, <2>1
    <3>2. offset % maxSize = IF offset < 0 THEN offset + maxSize
                             ELSE IF offset < maxSize THEN offset ELSE offset - maxSize
      BY <2>1, <3>1, Modulo
    <3> QED BY <2>1, <3>1, <3>2
  <2> QED BY <2>1, <2>2
<1>8. \A p \in Positions : buffer'[p] =
        LET offset == IF p < start THEN p - start + maxSize ELSE p - start
        IN  IF offset < size THEN total' - size + 1 + offset ELSE buffer[p]
  BY <1>1, <1>7 DEF Copied
<1>9. buffer' \in [Positions -> Int]
  <2>1. buffer' = [p \in Positions |-> buffer'[p]] BY <1>1 DEF Copied
  <2>2. \A p \in Positions : buffer'[p] \in Int
    BY <1>1, <1>2, <1>8 DEF RingInv, RingShape, Positions
  <2> QED BY <2>1, <2>2
<1>10. RingShape'
  <2>1. tail' \in Positions BY <1>1, <1>2, <1>5 DEF Positions
  <2>2. total' \in Nat /\ total' > 0 BY <1>1, <1>2
  <2>3. total' <= maxSize => tail' = 0 /\ head' = total' - 1
    BY <1>1, <1>2, <1>5, <1>6
  <2> QED BY <1>1, <1>5, <1>9, <2>1, <2>2, <2>3 DEF RingShape
<1>11. ASSUME NEW p \in Positions, Age(p)' < Lower(total, maxSize)'
       PROVE  buffer'[p] = total' - Age(p)'
  <2> DEFINE offset == IF p < start THEN p - start + maxSize ELSE p - start
  <2>1. Age(p)' = IF p <= head' THEN head' - p ELSE head' - p + maxSize BY DEF Age
  <2>2. CASE offset < size
    <3>1. Age(p)' = size - 1 - offset
      BY <1>1, <1>2, <2>1, <2>2 DEF Positions
    <3> QED BY <1>1, <1>2, <1>8, <1>11, <2>2, <3>1 DEF Positions
  <2>3. CASE ~(offset < size)
    <3>1. Age(p)' = Age(p) + size
      BY <1>1, <1>2, <2>1, <2>3 DEF Positions, Age
    <3>2. size < maxSize /\ n = size
      BY <1>1, <1>2, <2>3 DEF Positions
    <3>3. Age(p) \in Nat /\ Age(p)' \in Nat
      BY <1>1, <1>2, <2>1 DEF Positions, Age
    <3>4. Age(p)' < total' /\ Age(p)' < maxSize
      BY <1>1, <1>2, <1>11, <3>3 DEF Lower
    <3>5. Age(p) < Lower(total, maxSize)
      BY <1>1, <1>2, <3>1, <3>2, <3>3, <3>4 DEF Lower
    <3>6. buffer[p] = total - Age(p) BY <1>2, <3>5 DEF RingInv, RingContents
    <3>7. buffer'[p] = buffer[p] BY <1>8, <2>3
    <3> QED BY <1>1, <1>2, <3>1, <3>2, <3>3, <3>6, <3>7
  <2> QED BY <2>2, <2>3
<1>12. RingContents' BY <1>11 DEF RingContents
<1> QED BY <1>10, <1>12 DEF RingInv

LEMMA StepRing == RingInv /\ [RingNext]_ringVars => RingInv'
<1> SUFFICES ASSUME RingInv, [RingNext]_ringVars PROVE RingInv' OBVIOUS
<1>1. ASSUME NEW n \in 1 .. maxSize + 1, enq(n) PROVE RingInv'
  BY <1>1, FirstWrite, LaterWrite DEF RingInv, RingShape
<1>2. ASSUME UNCHANGED ring /\ UNCHANGED total PROVE RingInv'
  BY <1>2 DEF RingInv, RingShape, RingContents, Age
<1>3. ASSUME getReader \/ getStream PROVE RingInv'
  BY <1>2, <1>3 DEF getReader, getStream, newReader
<1>4. ASSUME NEW r \in DOMAIN readers, NEW size \in ReadSizes, Read(r, size) PROVE RingInv'
  BY <1>2, <1>4 DEF Read
<1>5. ASSUME NEW r \in DOMAIN readers, StreamRead(r) \/ closeReader(r) PROVE RingInv'
  BY <1>2, <1>5 DEF StreamRead, closeReader
<1>6. CASE UNCHANGED ringVars BY <1>2, <1>6
<1> QED BY <1>1, <1>3, <1>4, <1>5, <1>6 DEF RingNext

\* The bytes from the tail to the head are the newest ones.
LEMMA RingKeeps == RingInv => KeepsNewest
<1> SUFFICES ASSUME RingInv PROVE KeepsNewest OBVIOUS
<1> DEFINE size == sizeFrom(tail, head)
<1>1. total \in Nat /\ maxSize \in Nat \ {0} BY RingAssumption DEF RingInv, RingShape
<1>2. size = Lower(total, maxSize)
  <2>1. CASE total = 0 BY <1>1, <2>1 DEF RingInv, RingShape, sizeFrom, Lower
  <2>2. CASE total > 0 /\ total <= maxSize
    BY <1>1, <2>2 DEF RingInv, RingShape, sizeFrom, isWrapped, Lower, Positions
  <2>3. CASE total > maxSize
    BY <1>1, <2>3 DEF RingInv, RingShape, sizeFrom, isWrapped, Lower, Positions
  <2> QED BY <1>1, <2>1, <2>2, <2>3
<1>3. ASSUME NEW i \in 1 .. size
      PROVE  buffer[(tail + i - 1) % maxSize] = total - size + i
  <2>1. total > 0 /\ size \in 1 .. maxSize BY <1>1, <1>2, <1>3 DEF Lower
  <2>2. head \in Positions /\ tail \in Positions BY <2>1 DEF RingInv, RingShape
  <2> HIDE DEF size
  <2> DEFINE sum == tail + i - 1
             p == sum % maxSize
  <2>3. sum \in 0 .. 2 * maxSize - 1 BY <1>1, <1>3, <2>1, <2>2 DEF Positions
  <2>4. p = IF sum < maxSize THEN sum ELSE sum - maxSize
    <3> HIDE DEF sum
    <3>1. sum \in Int /\ -maxSize <= sum /\ sum < 2 * maxSize /\ ~(sum < 0) BY <1>1, <2>3
    <3> QED BY <1>1, <3>1, Modulo
  <2>5. p \in Positions BY <1>1, <2>3, <2>4 DEF Positions
  <2> HIDE DEF p
  <2>6. Age(p) = size - i
    <3>1. CASE total <= maxSize
      <4>1. tail = 0 /\ head = total - 1 /\ size = total
        BY <1>1, <1>2, <2>1, <3>1 DEF RingInv, RingShape, Lower
      <4> QED BY <1>1, <1>3, <2>4, <4>1, <3>1 DEF Age
    <3>2. CASE total > maxSize
      <4>1. size = maxSize /\ tail = IF head + 1 = maxSize THEN 0 ELSE head + 1
        BY <1>1, <1>2, <3>2 DEF RingInv, RingShape, Lower
      <4> QED BY <1>1, <1>3, <2>2, <2>4, <2>5, <4>1 DEF Age, Positions
    <3> QED BY <1>1, <3>1, <3>2
  <2>7. Age(p) < Lower(total, maxSize) BY <1>2, <1>3, <2>1, <2>6
  <2>8. buffer[p] = total - Age(p) BY <2>1, <2>5, <2>7 DEF RingInv, RingContents
  <2> QED BY <1>1, <1>3, <2>1, <2>6, <2>8 DEF p
<1>4. BytesFrom(buffer, tail, size) = [i \in 1 .. size |-> total - size + i]
  BY <1>3 DEF BytesFrom
<1> QED BY <1>2, <1>4 DEF KeepsNewest

\* KeepsNewest is an invariant: whatever is written and read, the buffer keeps
\* exactly the newest bytes, in order.
THEOREM NewestKept == RingSpec => []KeepsNewest
<1>1. RingInit => RingInv BY InitRing
<1>2. RingInv /\ [RingNext]_ringVars => RingInv' BY StepRing
<1>3. RingInv => KeepsNewest BY RingKeeps
<1> QED BY <1>1, <1>2, <1>3, PTL DEF RingSpec

-----------------------------------------------------------------------------
(* Repetition: what deqs does any number of times.                         *)

LEMMA LessIsWellFounded == IsWellFoundedOn({p \in Nat \X Nat : p[1] < p[2]}, Nat)
BY Zenon, NatLessThanWellFounded DEF OpToRel

\* A set of natural numbers that is not empty has a least element: with it what is
\* repeated is followed from the start on.
LEMMA LeastElement ==
  ASSUME NEW T, T \subseteq Nat, T # {}
  PROVE  \E m \in T : \A k \in T : m <= k
<1> DEFINE R == {p \in Nat \X Nat : p[1] < p[2]}
<1>1. IsWellFoundedOn(R, Nat) BY LessIsWellFounded
<1>2. \A x, y \in Nat : y < x => <<y, x>> \in R OBVIOUS
<1> HIDE DEF R
<1>3. PICK m \in T : \A k \in T : ~(<<k, m>> \in R)
  BY <1>1, WFMin
<1>4. \A k \in T : ~(k < m) BY <1>2, <1>3
<1> QED BY <1>4

\* What StreamRead repeats.
Again(b, h, size, s) ==
  LET one == deq(b, h, s.pos, size)
  IN  IF s.pos = Nothing THEN s ELSE [pos |-> one.pos, bytes |-> s.bytes \o one.bytes]

FromStart(pos) == [pos |-> pos, bytes |-> <<>>]

\* The results of n repetitions, one after the other, exist.
LEMMA Repeated ==
  ASSUME NEW b, NEW h, NEW pos, NEW size, NEW n \in Nat
  PROVE  \E f : f = [k \in 0 .. n |-> IF k = 0 THEN FromStart(pos) ELSE Again(b, h, size, f[k - 1])]
<1> DEFINE Is(f, m) == f = [k \in 0 .. m |-> IF k = 0 THEN FromStart(pos) ELSE Again(b, h, size, f[k - 1])]
           Without == {m \in Nat : ~ \E f : Is(f, m)}
<1>1. SUFFICES ASSUME Without # {} PROVE FALSE
  OBVIOUS
<1>2. PICK m \in Without : \A k \in Without : m <= k
  BY <1>1, LeastElement
<1>3. m \in Nat /\ ~ \E f : Is(f, m) OBVIOUS
<1>4. CASE m = 0
  <2> DEFINE f == [k \in 0 .. 0 |-> FromStart(pos)]
  <2>1. 0 .. 0 = {0} OBVIOUS
  <2>2. Is(f, 0) BY <2>1
  <2> QED BY <1>3, <1>4, <2>2
<1>5. CASE m > 0
  <2>1. m - 1 \in Nat /\ m - 1 \notin Without
    <3> HIDE DEF Without
    <3> QED BY <1>2, <1>3, <1>5
  <2>2. PICK f : Is(f, m - 1) BY <2>1
  <2> DEFINE g == [k \in 0 .. m |-> IF k = m THEN Again(b, h, size, f[m - 1]) ELSE f[k]]
  <2>3. \A k \in 0 .. m : g[k] = IF k = 0 THEN FromStart(pos) ELSE Again(b, h, size, g[k - 1])
    <3> SUFFICES ASSUME NEW k \in 0 .. m
                 PROVE  g[k] = IF k = 0 THEN FromStart(pos) ELSE Again(b, h, size, g[k - 1])
      OBVIOUS
    <3>1. CASE k = m BY <1>3, <1>5, <3>1
    <3>2. CASE k # m
      <4>1. k \in 0 .. m - 1 /\ (k # 0 => k - 1 \in 0 .. m - 1) BY <1>3, <3>2
      <4>2. f[k] = IF k = 0 THEN FromStart(pos) ELSE Again(b, h, size, f[k - 1]) BY <2>2, <4>1
      <4>3. g[k] = f[k] /\ (k # 0 => g[k - 1] = f[k - 1]) BY <1>3, <3>2, <4>1
      <4> QED BY <4>2, <4>3
    <3> QED BY <3>1, <3>2
  <2>4. Is(g, m)
    <3> DEFINE val(k) == IF k = 0 THEN FromStart(pos) ELSE Again(b, h, size, g[k - 1])
    <3>1. g = [k \in 0 .. m |-> g[k]] OBVIOUS
    <3> HIDE DEF g
    <3>2. g = [k \in 0 .. m |-> val(k)] BY <2>3, <3>1
    <3> QED BY <3>2
  <2> QED BY <1>3, <2>4
<1> QED BY <1>3, <1>4, <1>5

\* Whatever holds before, and after one more deq if before it, holds of deqs.
LEMMA Repeating ==
  ASSUME NEW b, NEW h, NEW pos, NEW size, NEW n \in Nat, NEW S,
         FromStart(pos) \in S, \A s \in S : Again(b, h, size, s) \in S
  PROVE  deqs(b, h, pos, size, n) \in S
<1> DEFINE Is(f) == f = [k \in 0 .. n |-> IF k = 0 THEN FromStart(pos) ELSE Again(b, h, size, f[k - 1])]
           after == CHOOSE f : Is(f)
<1>1. Is(after) BY Repeated
<1>2. deqs(b, h, pos, size, n) = after[n]
  <2> DEFINE after2[k \in 0 .. n] ==
        IF k = 0 THEN [pos |-> pos, bytes |-> <<>>]
        ELSE LET before == after2[k - 1]
                 one == deq(b, h, before.pos, size)
             IN  IF before.pos = Nothing THEN before
                 ELSE [pos |-> one.pos, bytes |-> before.bytes \o one.bytes]
  <2>1. deqs(b, h, pos, size, n) = after2[n] BY DEF deqs
  <2>2. after2 = after BY DEF Again, FromStart
  <2> QED BY <2>1, <2>2
<1> HIDE DEF after
<1> DEFINE Outside == {k \in 0 .. n : after[k] \notin S}
<1>3. ASSUME Outside # {} PROVE FALSE
  <2> Outside \subseteq Nat OBVIOUS
  <2>1. PICK k \in Outside : \A i \in Outside : k <= i
    <3> HIDE DEF Outside
    <3> QED BY <1>3, LeastElement
  <2>2. k \in 0 .. n /\ after[k] \notin S OBVIOUS
  <2>3. after[k] = IF k = 0 THEN FromStart(pos) ELSE Again(b, h, size, after[k - 1]) BY <1>1, <2>2
  <2>4. k # 0 BY <2>2, <2>3
  <2>5. k - 1 \in 0 .. n /\ k - 1 \notin Outside BY <2>1, <2>2, <2>4
  <2> QED BY <2>2, <2>3, <2>4, <2>5
<1> QED BY <1>2, <1>3

-----------------------------------------------------------------------------
(* What a reader gets.                                                     *)

LatestOf(bytes) == bytes[Len(bytes)]

\* The bytes from one to another, both included.
Run(from, to) == [i \in 1 .. to - from + 1 |-> from + i - 1]

LEMMA RunIs ==
  ASSUME NEW a \in Int, NEW b \in Int, a <= b
  PROVE  Run(a, b) \in Seq(Int) /\ Run(a, b) # <<>> /\ LatestOf(Run(a, b)) = b
<1> DEFINE n == b - a + 1
           f == Run(a, b)
<1>1. n \in Nat /\ n > 0 OBVIOUS
<1>2. f = [i \in 1 .. n |-> a + i - 1] BY DEF Run
<1> HIDE DEF f
<1>3. f \in [1 .. n -> Int] BY <1>1, <1>2
<1>4. f \in Seq(Int) /\ Len(f) = n BY <1>1, <1>3
<1>5. f[n] = b BY <1>1, <1>2
<1>6. f # <<>> BY <1>1, <1>4
<1> QED BY <1>4, <1>5, <1>6 DEF f, LatestOf

\* Bytes that follow each other, one run after the other, are a run.
LEMMA Counted ==
  ASSUME NEW a \in Int, NEW m \in Nat, NEW k \in Nat, NEW f \in Seq(Int), NEW g \in Seq(Int),
         Len(f) = m, Len(g) = k,
         \A i \in 1 .. m : f[i] = a + i - 1, \A i \in 1 .. k : g[i] = a + m + i - 1
  PROVE  f \o g = Run(a, a + m + k - 1)
<1> DEFINE j == f \o g
           h == [i \in 1 .. m + k |-> a + i - 1]
<1>1. h \in Seq(Int) /\ Len(h) = m + k
  <2>1. m + k \in Nat OBVIOUS
  <2> DEFINE n == m + k
  <2> HIDE DEF n
  <2>2. [i \in 1 .. n |-> a + i - 1] \in [1 .. n -> Int] BY <2>1 DEF n
  <2>3. [i \in 1 .. n |-> a + i - 1] \in Seq(Int) /\ Len([i \in 1 .. n |-> a + i - 1]) = n
    BY <2>1, <2>2 DEF n
  <2> QED BY <2>3 DEF n
<1>2. /\ j \in Seq(Int) /\ Len(j) = Len(f) + Len(g)
      /\ \A i \in 1 .. Len(f) + Len(g) : j[i] = IF i <= Len(f) THEN f[i] ELSE g[i - Len(f)]
  BY ConcatProperties
<1> HIDE DEF j
<1>3. ASSUME NEW i \in 1 .. m + k PROVE j[i] = a + i - 1
  <2>1. j[i] = IF i <= m THEN f[i] ELSE g[i - m] BY <1>2
  <2>2. CASE i <= m
    <3>1. i \in 1 .. m BY <2>2
    <3> QED BY <2>1, <2>2, <3>1
  <2>3. CASE ~(i <= m)
    <3>1. i - m \in 1 .. k BY <2>3
    <3>2. g[i - m] = a + m + (i - m) - 1 BY <3>1
    <3> QED BY <2>1, <2>3, <3>2
  <2> QED BY <2>2, <2>3
<1>4. \A i \in 1 .. m + k : j[i] = h[i] BY <1>3
<1> HIDE DEF h
<1>5. j = h BY <1>1, <1>2, <1>4, SeqEqual
<1>6. a + m + k - 1 - a + 1 = m + k OBVIOUS
<1> QED BY <1>5, <1>6 DEF j, h, Run

LEMMA RunsJoin ==
  ASSUME NEW a \in Int, NEW b \in Int, NEW c \in Int, a <= b, b < c
  PROVE  Run(a, b) \o Run(b + 1, c) = Run(a, c)
<1> DEFINE m == b - a + 1
           k == c - b
           f == Run(a, b)
           g == Run(b + 1, c)
<1>1. m \in Nat /\ k \in Nat /\ m + k = c - a + 1 /\ b + 1 = a + m OBVIOUS
<1>2. f = [i \in 1 .. m |-> a + i - 1] /\ g = [i \in 1 .. k |-> b + 1 + i - 1]
  <2>1. c - (b + 1) + 1 = k OBVIOUS
  <2> QED BY <2>1 DEF Run
<1> HIDE DEF f, g, m, k
<1>3. f \in [1 .. m -> Int] /\ g \in [1 .. k -> Int] BY <1>1, <1>2
<1>4. f \in Seq(Int) /\ Len(f) = m /\ g \in Seq(Int) /\ Len(g) = k BY <1>1, <1>3
<1>5. \A i \in 1 .. m : f[i] = a + i - 1 BY <1>2
<1>6. \A i \in 1 .. k : g[i] = a + m + i - 1 BY <1>1, <1>2
<1>7. f \o g = Run(a, a + m + k - 1) BY <1>1, <1>4, <1>5, <1>6, Counted
<1>8. a + m + k - 1 = c BY <1>1
<1> QED BY <1>7, <1>8 DEF f, g

\* A deq returns the bytes from the position on: all that are there, or, if they do
\* not wrap or it goes beyond the end of the buffer, those up to the byte before
\* the position it moves to.
InOrder(p, size) == size = -1 \/ size > Age(p) \/ p <= head \/ size >= maxSize - p

Takes(p, size) ==
  LET d == deq(buffer, head, p, size)
  IN  /\ d = [pos |-> d.pos, bytes |-> d.bytes]
      /\ size = -1 \/ size > Age(p) => d.pos = Nothing /\ d.bytes = Run(total - Age(p), total)
      /\ InOrder(p, size) /\ ~(size = -1 \/ size > Age(p)) =>
           /\ d.pos \in Positions /\ d.pos <= head /\ Age(d.pos) < Age(p)
           /\ d.bytes = Run(total - Age(p), total - Age(d.pos) - 1)

\* The bytes at n positions from p on, and their numbers.
At(p, i) == IF p + i - 1 < maxSize THEN p + i - 1 ELSE p + i - 1 - maxSize

LEMMA BytesTaken ==
  ASSUME RingInv, total > 0, NEW p \in Positions, NEW n \in 1 .. maxSize
  PROVE  LET bytes == BytesFrom(buffer, p, n)
         IN  /\ bytes \in Seq(Int) /\ bytes = [i \in 1 .. n |-> buffer[At(p, i)]]
             /\ Age(p) < Lower(total, maxSize) /\ n <= Age(p) + 1 =>
                  bytes = Run(total - Age(p), total - Age(p) + n - 1)
<1> DEFINE bytes == BytesFrom(buffer, p, n)
<1>1. /\ maxSize \in Nat \ {0} /\ p \in 0 .. maxSize - 1 /\ Positions = 0 .. maxSize - 1 /\ n \in Nat
      /\ head \in 0 .. maxSize - 1 /\ total \in Nat
  BY RingAssumption DEF Positions, RingInv, RingShape
<1>2. ASSUME NEW i \in 1 .. n PROVE (p + i - 1) % maxSize = At(p, i)
  <2> DEFINE sum == p + i - 1
             q == sum % maxSize
  <2>1. sum \in Int /\ -maxSize <= sum /\ sum < 2 * maxSize /\ ~(sum < 0) BY <1>1
  <2>2. q = IF sum < maxSize THEN sum ELSE sum - maxSize
    <3> HIDE DEF sum
    <3> QED BY <1>1, <2>1, Modulo
  <2> HIDE DEF q
  <2>3. q = At(p, i) BY <1>1, <2>2 DEF At
  <2> QED BY <2>3 DEF q
<1>3. \A i \in 1 .. n : At(p, i) \in Positions BY <1>1 DEF At
<1>4. bytes = [i \in 1 .. n |-> buffer[At(p, i)]] BY <1>2 DEF BytesFrom
<1> HIDE DEF bytes
<1>5. bytes \in [1 .. n -> Int] BY <1>3, <1>4 DEF RingInv, RingShape
<1>6. bytes \in Seq(Int) BY <1>1, <1>5
<1>7. ASSUME Age(p) < Lower(total, maxSize), n <= Age(p) + 1
      PROVE  bytes = Run(total - Age(p), total - Age(p) + n - 1)
  <2>1. Age(p) \in 0 .. maxSize - 1 BY <1>1 DEF Age
  <2>2. ASSUME NEW i \in 1 .. n PROVE buffer[At(p, i)] = total - Age(p) + i - 1
    <3>1. Age(At(p, i)) = Age(p) - (i - 1) BY <1>1, <1>7, <2>1 DEF Age, At
    <3>2. At(p, i) \in Positions BY <1>3
    <3> DEFINE q == At(p, i)
    <3> HIDE DEF q
    <3>3. Age(q) = Age(p) - (i - 1) /\ q \in Positions BY <3>1, <3>2 DEF q
    <3>4. Age(q) < Lower(total, maxSize) BY <1>1, <1>7, <2>1, <3>3 DEF Lower
    <3>5. buffer[q] = total - Age(q) BY <3>3, <3>4 DEF RingInv, RingContents
    <3>6. buffer[q] = total - Age(p) + i - 1 BY <1>1, <2>1, <3>3, <3>5
    <3> QED BY <3>6 DEF q
  <2> DEFINE age == Age(p)
  <2>3. age \in Int BY <2>1
  <2>4. bytes = [i \in 1 .. n |-> total - age + i - 1] BY <1>4, <2>2
  <2> HIDE DEF age
  <2>5. (total - age + n - 1) - (total - age) + 1 = n BY <1>1, <2>3
  <2>6. bytes = Run(total - age, total - age + n - 1) BY <2>4, <2>5 DEF Run
  <2> QED BY <2>6 DEF age
<1> QED BY <1>4, <1>6, <1>7 DEF bytes

LEMMA Taken ==
  ASSUME RingInv, total > 0, NEW p \in Positions, NEW size \in {-1} \cup (Nat \ {0}),
         Age(p) < Lower(total, maxSize)
  PROVE  Takes(p, size)
<1>1. size = -1 \/ (size \in Nat /\ size > 0) OBVIOUS
<1>2. /\ maxSize \in Nat \ {0} /\ total \in Nat /\ head \in 0 .. maxSize - 1 /\ p \in 0 .. maxSize - 1
      /\ Positions = 0 .. maxSize - 1
  BY RingAssumption DEF RingInv, RingShape, Positions
<1> DEFINE there == sizeFrom(p, head)
           deqSize == IF size = -1 THEN there ELSE Lower(size, there)
           returned == IF isWrapped(p, head) /\ deqSize < maxSize - p THEN maxSize - p ELSE deqSize
           d == deq(buffer, head, p, size)
<1>3. there = Age(p) + 1 /\ there \in 1 .. maxSize /\ Age(p) \in 0 .. maxSize - 1
  BY <1>2 DEF sizeFrom, isWrapped, Age
<1>4. d = [pos |-> PositionAfter(head, p, deqSize), bytes |-> BytesFrom(buffer, p, returned)]
  BY DEF deq
<1> HIDE DEF there, d
<1>5. deqSize \in 1 .. there BY <1>1, <1>3 DEF Lower
<1> HIDE DEF deqSize
<1>6. returned \in 1 .. maxSize BY <1>2, <1>3, <1>5
<1> HIDE DEF returned
<1>7. returned <= Age(p) + 1 => d.bytes = Run(total - Age(p), total - Age(p) + returned - 1)
  BY <1>4, <1>6, BytesTaken
<1>8. d = [pos |-> d.pos, bytes |-> d.bytes] BY <1>4
<1> DEFINE k == deqSize - 1
<1>9. k \in 0 .. maxSize /\ deqSize \in 0 .. maxSize BY <1>2, <1>3, <1>5
<1>10. /\ inc(p, k).newPos = IF p + k < maxSize THEN p + k ELSE p + k - maxSize
       /\ inc(p, deqSize).newPos = IF p + deqSize < maxSize THEN p + deqSize ELSE p + deqSize - maxSize
  <2> HIDE DEF k
  <2> QED BY <1>9, Increment
<1>11. CASE size = -1 \/ size > Age(p)
  <2>1. deqSize = there BY <1>1, <1>2, <1>3, <1>11 DEF deqSize, Lower
  <2>2. returned = there BY <1>2, <1>3, <2>1 DEF returned, isWrapped, Age
  <2>3. p + k = IF p <= head THEN head ELSE head + maxSize BY <1>2, <1>3, <2>1 DEF Age
  <2>4. inc(p, k).newPos = head
    <3> HIDE DEF k
    <3> QED BY <1>2, <1>9, <1>10, <2>3
  <2>5. d.pos = Nothing BY <1>4, <2>4 DEF PositionAfter
  <2>6. d.bytes = Run(total - Age(p), total - Age(p) + returned - 1) BY <1>3, <1>7, <2>2
  <2>7. total - Age(p) + returned - 1 = total
    <3> DEFINE age == Age(p)
    <3>1. age \in Int /\ returned = age + 1 BY <1>3, <2>2
    <3> HIDE DEF age
    <3>2. total - age + returned - 1 = total BY <1>2, <3>1
    <3> QED BY <3>2 DEF age
  <2> QED BY <1>8, <1>11, <2>5, <2>6, <2>7 DEF Takes, d
<1>12. CASE ~(size = -1 \/ size > Age(p)) /\ InOrder(p, size)
  <2>1. size \in 1 .. Age(p) BY <1>1, <1>2, <1>3, <1>12
  <2>2. deqSize = size BY <1>2, <1>3, <2>1 DEF deqSize, Lower
  <2>3. p <= head \/ size >= maxSize - p BY <1>12 DEF InOrder
  <2>4. returned = size BY <1>2, <2>1, <2>2, <2>3 DEF returned, isWrapped
  <2>5. d.bytes = Run(total - Age(p), total - Age(p) + size - 1) BY <1>2, <1>3, <1>7, <2>1, <2>4
  <2> DEFINE q == IF p + size < maxSize THEN p + size ELSE p + size - maxSize
  <2>6. inc(p, k).newPos # head BY <1>2, <1>3, <1>10, <2>1, <2>2, <2>3 DEF Age
  <2>7. d.pos = q BY <1>4, <1>10, <2>2, <2>6 DEF PositionAfter
  <2>8. q \in Positions /\ q <= head /\ Age(q) = Age(p) - size BY <1>2, <1>3, <2>1, <2>3 DEF Age
  <2> HIDE DEF q
  <2>9. Age(q) < Age(p) /\ total - Age(p) + size - 1 = total - Age(q) - 1
    <3> DEFINE age == Age(p)
               left == Age(q)
    <3>1. age \in Int /\ size \in Int /\ size > 0 /\ left = age - size BY <1>3, <2>1, <2>8
    <3> HIDE DEF age, left
    <3>2. left < age /\ total - age + size - 1 = total - left - 1 BY <1>2, <3>1
    <3> QED BY <3>2 DEF age, left
  <2> QED BY <1>8, <1>12, <2>5, <2>7, <2>8, <2>9 DEF Takes, d
<1>13. CASE ~(size = -1 \/ size > Age(p)) /\ ~InOrder(p, size)
  BY <1>8, <1>13 DEF Takes, d
<1> QED BY <1>11, <1>12, <1>13

\* What was read since position p, and where it ends.
Reached(p, s) ==
  \/ s.bytes = <<>> /\ s.pos = p
  \/ s.pos = Nothing /\ s.bytes = Run(total - Age(p), total)
  \/ /\ s.pos \in Positions /\ s.pos <= head /\ Age(s.pos) < Age(p)
     /\ s.bytes = Run(total - Age(p), total - Age(s.pos) - 1)

LEMMA AgeBound == RingInv /\ total > 0 => \A p \in Positions : Age(p) \in 0 .. maxSize - 1
<1> SUFFICES ASSUME RingInv, total > 0, NEW p \in Positions PROVE Age(p) \in 0 .. maxSize - 1
  OBVIOUS
<1>1. head \in 0 .. maxSize - 1 /\ p \in 0 .. maxSize - 1 /\ maxSize \in Nat
  BY RingAssumption DEF RingInv, RingShape, Positions
<1> QED BY <1>1 DEF Age

LEMMA ReachedBytes ==
  ASSUME RingInv, total > 0, NEW p \in Positions, NEW s, Reached(p, s)
  PROVE  s.bytes \in Seq(Int)
<1>1. total \in Nat /\ maxSize \in Nat /\ Age(p) \in 0 .. maxSize - 1
  BY AgeBound, RingAssumption DEF RingInv, RingShape
<1>2. CASE s.bytes = <<>> BY <1>2
<1>3. CASE s.bytes = Run(total - Age(p), total)
  <2>1. total - Age(p) \in Int /\ total - Age(p) <= total BY <1>1
  <2> QED BY <1>1, <1>3, <2>1, RunIs
<1>4. CASE /\ s.pos \in Positions /\ s.pos <= head /\ Age(s.pos) < Age(p)
           /\ s.bytes = Run(total - Age(p), total - Age(s.pos) - 1)
  <2>1. Age(s.pos) \in 0 .. maxSize - 1 BY <1>4, AgeBound
  <2> DEFINE a == total - Age(p)
             b == total - Age(s.pos) - 1
  <2>2. a \in Int /\ b \in Int /\ a <= b BY <1>1, <1>4, <2>1
  <2>3. s.bytes = Run(a, b) BY <1>4
  <2> HIDE DEF a, b
  <2> QED BY <2>2, <2>3, RunIs
<1> QED BY <1>2, <1>3, <1>4 DEF Reached

LEMMA ReachedAgain ==
  ASSUME RingInv, total > 0, NEW p \in Positions, NEW size \in Nat \ {0},
         Age(p) < Lower(total, maxSize), InOrder(p, size),
         NEW s, Reached(p, s)
  PROVE  Reached(p, Again(buffer, head, size, s))
<1> DEFINE d == deq(buffer, head, s.pos, size)
           t == Again(buffer, head, size, s)
<1>1. /\ maxSize \in Nat \ {0} /\ total \in Nat /\ head \in 0 .. maxSize - 1 /\ p \in 0 .. maxSize - 1
      /\ Positions = 0 .. maxSize - 1 /\ size \in Nat /\ size > 0
  BY RingAssumption DEF RingInv, RingShape, Positions
<1>2. CASE s.pos = Nothing BY <1>2 DEF Again
<1>3. CASE s.pos # Nothing
  <2>1. Age(p) \in 0 .. maxSize - 1 BY AgeBound
  <2>2. /\ s.pos \in Positions /\ Age(s.pos) <= Age(p) /\ InOrder(s.pos, size)
        /\ \/ s.pos = p /\ s.bytes = <<>>
           \/ Age(s.pos) < Age(p) /\ s.bytes = Run(total - Age(p), total - Age(s.pos) - 1)
    <3>1. CASE s.pos = p /\ s.bytes = <<>> BY <1>1, <2>1, <3>1
    <3>2. CASE ~(s.pos = p /\ s.bytes = <<>>)
      <4>1. /\ s.pos \in Positions /\ s.pos <= head /\ Age(s.pos) < Age(p)
            /\ s.bytes = Run(total - Age(p), total - Age(s.pos) - 1)
        BY <1>3, <3>2 DEF Reached
      <4>2. Age(s.pos) \in 0 .. maxSize - 1 BY <4>1, AgeBound
      <4> QED BY <2>1, <4>1, <4>2 DEF InOrder
    <3> QED BY <3>1, <3>2
  <2>3. Age(s.pos) \in 0 .. maxSize - 1 BY <2>2, AgeBound
  <2>4. Age(s.pos) < Lower(total, maxSize) BY <1>1, <2>1, <2>2, <2>3 DEF Lower
  <2>5. Takes(s.pos, size) BY <1>1, <2>2, <2>4, Taken
  <2>6. t = [pos |-> d.pos, bytes |-> s.bytes \o d.bytes] BY <1>3 DEF Again
  <2> HIDE DEF t
  \* What was read before and what d brings are one run.
  <2>7. ASSUME NEW to \in Int, d.bytes = Run(total - Age(s.pos), to), total - Age(s.pos) <= to
        PROVE  t.bytes = Run(total - Age(p), to)
    <3> DEFINE a == total - Age(p)
               b == total - Age(s.pos)
    <3>1. a \in Int /\ b \in Int /\ a <= b BY <1>1, <2>1, <2>2, <2>3
    <3>2. CASE s.pos = p /\ s.bytes = <<>>
      <4>1. Run(a, to) \in Seq(Int) BY <2>7, <3>1, <3>2, RunIs
      <4>2. <<>> \o Run(a, to) = Run(a, to) BY <4>1
      <4> QED BY <2>6, <2>7, <3>2, <4>2
    <3>3. CASE Age(s.pos) < Age(p) /\ s.bytes = Run(total - Age(p), total - Age(s.pos) - 1)
      <4>1. a <= b - 1 /\ b - 1 < to
        <5> DEFINE age == Age(p)
                   left == Age(s.pos)
        <5>1. age \in Int /\ left \in Int /\ left < age /\ total - left <= to BY <2>1, <2>3, <2>7, <3>3
        <5> HIDE DEF age, left
        <5>2. total - age <= total - left - 1 /\ total - left - 1 < to BY <1>1, <5>1
        <5> QED BY <5>2 DEF age, left
      <4>2. s.bytes = Run(a, b - 1) /\ d.bytes = Run(b, to) BY <2>7, <3>3
      <4> HIDE DEF a, b
      <4>3. b - 1 \in Int /\ (b - 1) + 1 = b BY <3>1
      <4>4. Run(a, b - 1) \o Run((b - 1) + 1, to) = Run(a, to) BY <3>1, <4>1, <4>3, RunsJoin
      <4>5. t.bytes = Run(a, to) BY <2>6, <4>2, <4>3, <4>4
      <4> QED BY <4>5 DEF a
    <3> QED BY <2>2, <3>2, <3>3
  <2>8. CASE size > Age(s.pos)
    <3>1. d.pos = Nothing /\ d.bytes = Run(total - Age(s.pos), total) BY <2>5, <2>8 DEF Takes
    <3>2. total - Age(s.pos) <= total BY <1>1, <2>3
    <3>3. t.bytes = Run(total - Age(p), total) BY <1>1, <2>7, <3>1, <3>2
    <3>4. t.pos = Nothing BY <2>6, <3>1
    <3>5. Reached(p, t) BY <3>3, <3>4 DEF Reached
    <3> QED BY <3>5 DEF t
  <2>9. CASE ~(size > Age(s.pos))
    <3>1. ~(size = -1 \/ size > Age(s.pos)) BY <1>1, <2>9
    <3>2. /\ d.pos \in Positions /\ d.pos <= head /\ Age(d.pos) < Age(s.pos)
          /\ d.bytes = Run(total - Age(s.pos), total - Age(d.pos) - 1)
      BY <2>2, <2>5, <3>1 DEF Takes
    <3>3. Age(d.pos) \in 0 .. maxSize - 1 BY <3>2, AgeBound
    <3> DEFINE to == total - Age(d.pos) - 1
    <3>4. to \in Int /\ total - Age(s.pos) <= to /\ Age(d.pos) < Age(p)
      <4> DEFINE age == Age(p)
                 left == Age(s.pos)
                 final == Age(d.pos)
      <4>1. /\ age \in Int /\ left \in Int /\ final \in Int /\ left <= age /\ final < left
        BY <2>1, <2>2, <2>3, <3>2, <3>3
      <4> HIDE DEF age, left, final
      <4>2. total - final - 1 \in Int /\ total - left <= total - final - 1 /\ final < age BY <1>1, <4>1
      <4> QED BY <4>2 DEF age, left, final
    <3>5. d.bytes = Run(total - Age(s.pos), to) BY <3>2
    <3> HIDE DEF to
    <3>6. t.bytes = Run(total - Age(p), to) BY <2>7, <3>4, <3>5
    <3>7. t.bytes = Run(total - Age(p), total - Age(d.pos) - 1) BY <3>6 DEF to
    <3>8. t.pos = d.pos BY <2>6
    <3> HIDE DEF d
    <3>9. Reached(p, t) BY <3>2, <3>4, <3>7, <3>8 DEF Reached
    <3> QED BY <3>9 DEF t
  <2> QED BY <2>8, <2>9
<1> QED BY <1>2, <1>3

LEMMA ReachedByStream ==
  ASSUME RingInv, total > 0, NEW p \in Positions, NEW size \in Nat \ {0}, NEW n \in Nat,
         Age(p) < Lower(total, maxSize), InOrder(p, size)
  PROVE  Reached(p, deqs(buffer, head, p, size, n))
<1> DEFINE Records == [pos : Positions \cup {Nothing}, bytes : Seq(Int)]
           S == {s \in Records : Reached(p, s)}
<1>1. FromStart(p) \in S
  <2>1. FromStart(p) = [pos |-> p, bytes |-> <<>>] /\ <<>> \in Seq(Int) BY DEF FromStart
  <2>2. FromStart(p) \in Records /\ FromStart(p).pos = p /\ FromStart(p).bytes = <<>> BY <2>1
  <2> QED BY <2>1, <2>2 DEF Reached
<1>2. ASSUME NEW s \in S PROVE Again(buffer, head, size, s) \in S
  <2> DEFINE t == Again(buffer, head, size, s)
  <2>1. Reached(p, t) BY ReachedAgain
  <2>2. t = [pos |-> t.pos, bytes |-> t.bytes] BY DEF Again
  <2> HIDE DEF t
  <2>3. t.pos \in Positions \cup {Nothing} BY <2>1 DEF Reached
  <2>4. t.bytes \in Seq(Int) BY <2>1, ReachedBytes
  <2>5. t \in Records BY <2>2, <2>3, <2>4
  <2> QED BY <2>1, <2>5 DEF t
<1> HIDE DEF S
<1>3. deqs(buffer, head, p, size, n) \in S BY <1>1, <1>2, Repeating
<1> QED BY <1>3 DEF S

LEMMA NothingToRead ==
  ASSUME NEW b, NEW h, NEW size, NEW n \in Nat
  PROVE  deqs(b, h, Nothing, size, n) = FromStart(Nothing)
<1> DEFINE S == {FromStart(Nothing)}
<1>1. \A s \in S : Again(b, h, size, s) \in S BY DEF Again, FromStart
<1>2. FromStart(Nothing) \in S OBVIOUS
<1> HIDE DEF S
<1>3. deqs(b, h, Nothing, size, n) \in S BY <1>1, <1>2, Repeating
<1> QED BY <1>3 DEF S

-----------------------------------------------------------------------------
(* The readers, and the log they see.                                      *)

Missed == IF total > maxSize THEN total - maxSize ELSE 0  \* Log!Lost(total)
Later(a, b) == IF a > b THEN a ELSE b

\* Ids are given out once, in order.
KnownReaders ==
  /\ readerId \in Nat
  /\ DOMAIN readers \subseteq ReaderIds /\ \A r \in DOMAIN readers : r < readerId
  /\ streams \subseteq DOMAIN readers
  /\ last = [r \in ReaderIds |-> last[r]]
  /\ got \in [ReaderIds -> Seq(Int)]
  /\ behind \subseteq ReaderIds /\ \A r \in behind : r < readerId
  /\ \A r \in ReaderIds : r >= readerId => last[r] = -1

\* A reader that was not left behind has read all, or stands at the byte that
\* follows the last one it read or missed.
InStep(pos, upTo) ==
  \/ pos = Nothing /\ upTo = total
  \/ /\ total > 0 /\ pos \in Positions
     /\ upTo \in 0 .. total - 1
     /\ total - Age(pos) = 1 + Later(upTo, Missed)

KeepUp == \A r \in DOMAIN readers \ behind : InStep(readers[r], last[r])

ReadersInv == KnownReaders /\ KeepUp

\* The log's view of the readers.
Seen ==
  [r \in ReaderIds |-> IF r < readerId /\ r \notin DOMAIN readers THEN -3
                       ELSE IF r \in behind THEN -2 ELSE last[r]]
Idle == {r \in DOMAIN readers \ behind : readers[r] = Nothing}

\* A reader that keeps up is not behind what the buffer keeps.
LEMMA InStepKept ==
  ASSUME RingInv, NEW pos, NEW upTo, InStep(pos, upTo), pos # Nothing
  PROVE  /\ total > 0 /\ pos \in Positions /\ Age(pos) < Lower(total, maxSize)
         /\ upTo \in 0 .. total - 1
<1>1. total \in Nat /\ maxSize \in Nat \ {0} BY RingAssumption DEF RingInv, RingShape
<1>2. total > 0 /\ pos \in Positions /\ upTo \in 0 .. total - 1
      /\ total - Age(pos) = 1 + Later(upTo, Missed)
  BY DEF InStep
<1>3. Age(pos) \in 0 .. maxSize - 1 BY <1>2, AgeBound
<1> QED BY <1>1, <1>2, <1>3 DEF Missed, Lower, Later

LEMMA InStepRange ==
  ASSUME RingInv, NEW pos, NEW upTo, InStep(pos, upTo)
  PROVE  upTo \in 0 .. total /\ (pos = Nothing <=> upTo = total)
<1>1. total \in Nat BY DEF RingInv, RingShape
<1>2. CASE pos = Nothing BY <1>1, <1>2 DEF InStep, Positions
<1>3. CASE pos # Nothing BY <1>1, <1>3, InStepKept
<1> QED BY <1>2, <1>3

\* Where a read leaves a reader that keeps up, and what it is given.
LEMMA InStepRead ==
  ASSUME RingInv, NEW pos, NEW upTo, InStep(pos, upTo),
         NEW s, Reached(pos, s), pos # Nothing
  PROVE  /\ InStep(s.pos, LastOf(s, upTo))
         /\ \/ s.bytes = <<>> /\ LastOf(s, upTo) = upTo
            \/ /\ LastOf(s, upTo) \in Later(upTo, Missed) + 1 .. total
               /\ s.bytes = Run(Later(upTo, Missed) + 1, LastOf(s, upTo))
<1>1. total \in Nat /\ maxSize \in Nat \ {0} BY RingAssumption DEF RingInv, RingShape
<1>2. total > 0 /\ pos \in Positions /\ upTo \in 0 .. total - 1
      /\ total - Age(pos) = 1 + Later(upTo, Missed)
  BY DEF InStep
<1>3. Age(pos) \in 0 .. maxSize - 1 BY <1>2, AgeBound
<1> DEFINE from == Later(upTo, Missed) + 1
<1>4. from \in 1 .. total /\ from > upTo /\ from > Missed /\ from = total - Age(pos)
  BY <1>1, <1>2, <1>3 DEF Later, Missed
<1> HIDE DEF from
<1>5. CASE s.bytes = <<>> /\ s.pos = pos BY <1>5 DEF LastOf
<1>6. CASE s.pos = Nothing /\ s.bytes = Run(total - Age(pos), total)
  <2>1. s.bytes = Run(from, total) BY <1>4, <1>6
  <2>2. s.bytes # <<>> /\ LatestOf(s.bytes) = total BY <1>1, <1>4, <2>1, RunIs
  <2>3. LastOf(s, upTo) = total BY <2>2 DEF LastOf, LatestOf
  <2>4. total \in from .. total BY <1>1, <1>4
  <2>5. InStep(s.pos, LastOf(s, upTo)) BY <1>6, <2>3 DEF InStep
  <2> QED BY <2>1, <2>3, <2>4, <2>5 DEF from
<1>7. CASE /\ s.pos \in Positions /\ s.pos <= head /\ Age(s.pos) < Age(pos)
           /\ s.bytes = Run(total - Age(pos), total - Age(s.pos) - 1)
  <2> DEFINE left == Age(s.pos)
             to == total - left - 1
  <2>1. left \in 0 .. maxSize - 1 /\ left < Age(pos) BY <1>2, <1>7, AgeBound
  <2>2. s.bytes = Run(from, to) BY <1>4, <1>7
  <2> HIDE DEF left
  <2>3. to \in from .. total - 1
    <3> DEFINE age == Age(pos)
    <3>1. age \in Int /\ left \in Int /\ 0 <= left /\ left < age /\ from = total - age BY <1>3, <1>4, <2>1
    <3> HIDE DEF age
    <3> QED BY <1>1, <3>1
  <2>4. total - left = to + 1 BY <1>1, <2>1
  <2> HIDE DEF to
  <2>5. s.bytes # <<>> /\ LatestOf(s.bytes) = to BY <1>1, <1>4, <2>2, <2>3, RunIs
  <2>6. LastOf(s, upTo) = to BY <2>5 DEF LastOf, LatestOf
  <2>7. to > Missed /\ to \in 0 .. total - 1 BY <1>1, <1>4, <2>3 DEF Missed
  <2>8. total - Age(s.pos) = 1 + Later(to, Missed)
    <3>1. Later(to, Missed) = to BY <2>7 DEF Later
    <3>2. to + 1 = 1 + to BY <2>7
    <3> QED BY <2>4, <3>1, <3>2 DEF left
  <2>9. InStep(s.pos, to) BY <1>2, <1>7, <2>7, <2>8 DEF InStep
  <2>10. to \in from .. total BY <1>1, <2>3
  <2> QED BY <2>2, <2>6, <2>9, <2>10 DEF from
<1> QED BY <1>5, <1>6, <1>7 DEF Reached

\* The readers that have nothing to read are those that the log says got all.
LEMMA IdleIsAllRead == RingInv /\ ReadersInv => Idle = {r \in ReaderIds : Seen[r] = total}
<1> SUFFICES ASSUME RingInv, ReadersInv PROVE Idle = {r \in ReaderIds : Seen[r] = total}
  OBVIOUS
<1>1. total \in Nat /\ DOMAIN readers \subseteq ReaderIds
  BY DEF RingInv, RingShape, ReadersInv, KnownReaders
<1>2. ASSUME NEW r \in ReaderIds PROVE r \in Idle <=> Seen[r] = total
  <2>1. Seen[r] = IF r < readerId /\ r \notin DOMAIN readers THEN -3
                  ELSE IF r \in behind THEN -2 ELSE last[r]
    BY DEF Seen
  <2>2. CASE r \in DOMAIN readers \ behind
    <3>1. InStep(readers[r], last[r]) BY <2>2 DEF ReadersInv, KeepUp
    <3>2. readers[r] = Nothing <=> last[r] = total BY <3>1, InStepRange
    <3> QED BY <2>1, <2>2, <3>2 DEF Idle
  <2>3. CASE r \notin DOMAIN readers /\ r < readerId BY <1>1, <2>1, <2>3 DEF Idle
  <2>4. CASE r \notin DOMAIN readers /\ ~(r < readerId)
    <3>1. r \in Int /\ readerId \in Int BY DEF ReadersInv, KnownReaders, ReaderIds
    <3>2. r \notin behind /\ last[r] = -1 BY <2>4, <3>1 DEF ReadersInv, KnownReaders
    <3> QED BY <1>1, <2>1, <2>4, <3>2 DEF Idle
  <2>5. CASE r \in DOMAIN readers /\ r \in behind BY <1>1, <2>1, <2>5 DEF Idle
  <2> QED BY <2>2, <2>3, <2>4, <2>5
<1> QED BY <1>1, <1>2 DEF Idle

LEMMA IdleIsAllReadNext == (RingInv /\ ReadersInv => Idle = {r \in ReaderIds : Seen[r] = total})'
BY IdleIsAllRead, PTL

LEMMA InitReaders == RingInit => ReadersInv /\ Log!Init
<1> SUFFICES ASSUME RingInit PROVE ReadersInv /\ Log!Init OBVIOUS
<1>1. <<>> \in Seq(Int) OBVIOUS
<1>2. ReadersInv BY <1>1 DEF RingInit, ReadersInv, KnownReaders, KeepUp, InStep, ReaderIds
<1>3. Log!Init
  <2>1. \A r \in ReaderIds : ~(r < readerId) BY RingAssumption DEF RingInit, ReaderIds
  <2> QED BY <2>1 DEF RingInit, Log!Init, Log!None
<1> QED BY <1>2, <1>3

LEMMA Clipped ==
  ASSUME NEW n \in Int, NEW m \in Int
  PROVE  (IF 0 > n - m THEN 0 ELSE n - m) = IF n > m THEN n - m ELSE 0
OBVIOUS

LEMMA Beneath ==
  ASSUME NEW t \in Nat, NEW k \in Int, t > 0, k > 0
  PROVE  (IF t > k THEN t - k ELSE 0) \in Int /\ (IF t > k THEN t - k ELSE 0) < t
OBVIOUS

\* A step of the log, or none.
LogMoves ==
  \/ \E n \in 1 .. total' - total, R \in SUBSET ReaderIds : Log!Write(n, R)
  \/ \E r \in ReaderIds : Log!Join(r) \/ Log!Read(r) \/ Log!Leave(r) \/ Log!Close(r)
  \/ UNCHANGED <<total, Seen, got>>

LEMMA LogMissed ==
  ASSUME NEW r \in ReaderIds, total \in Nat
  PROVE  Log!Missed(r, total) = Later(Seen[r], Missed) /\ Log!Lost(total) = Missed
<1>1. Log!Lost(total) = Missed BY RingAssumption DEF Log!Lost, Log!Larger, Missed
<1>2. Log!Missed(r, total) = Later(Seen[r], Missed) BY <1>1 DEF Log!Missed, Log!Larger, Later, Seen
<1> QED BY <1>1, <1>2

\* A reader that keeps up, or was left behind before, reads on.
LEMMA OneReads ==
  ASSUME RingInv, ReadersInv, NEW r \in DOMAIN readers, NEW s,
         r \notin behind /\ readers[r] # Nothing => Reached(readers[r], s),
         r \notin behind /\ readers[r] = Nothing => s = FromStart(Nothing),
         readers' = [readers EXCEPT ![r] = s.pos],
         last' = [last EXCEPT ![r] = LastOf(s, @)],
         got' = [got EXCEPT ![r] = GotOf(r, s)],
         behind' = behind, UNCHANGED <<ring, readerId, streams, total>>
  PROVE  ReadersInv' /\ LogMoves
<1>1. total \in Nat /\ maxSize \in Nat \ {0} BY RingAssumption DEF RingInv, RingShape
<1>2. r \in ReaderIds /\ r < readerId /\ DOMAIN readers' = DOMAIN readers /\ readers'[r] = s.pos
  BY DEF ReadersInv, KnownReaders
<1>3. last' = [i \in ReaderIds |-> IF i = r THEN LastOf(s, last[r]) ELSE last[i]]
  BY DEF ReadersInv, KnownReaders
<1>4. got \in [ReaderIds -> Seq(Int)] /\ got[r] \in Seq(Int) BY <1>2 DEF ReadersInv, KnownReaders
<1>5. \A i \in DOMAIN readers \ {r} : readers'[i] = readers[i] OBVIOUS
<1>6. \A i : InStep(readers[i], last[i])' <=> InStep(readers'[i], last'[i])
  BY DEF InStep, Missed, Age, Later
\* What is left to show is the type of got.
<1>7. ASSUME got' \in [ReaderIds -> Seq(Int)] PROVE KnownReaders'
  <2>1. last' = [i \in ReaderIds |-> last'[i]] BY <1>3
  <2>2. \A i \in ReaderIds : i >= readerId' => last'[i] = -1
    BY <1>2, <1>3 DEF ReadersInv, KnownReaders, ReaderIds
  <2> QED BY <1>2, <1>7, <2>1, <2>2 DEF ReadersInv, KnownReaders
<1>8. CASE r \in behind
  <2>1. KeepUp'
    <3> SUFFICES ASSUME NEW i \in DOMAIN readers' \ behind' PROVE InStep(readers[i], last[i])'
      BY DEF KeepUp
    <3>1. i # r /\ i \in DOMAIN readers \ behind /\ i \in ReaderIds
      BY <1>2, <1>8 DEF ReadersInv, KnownReaders
    <3>2. InStep(readers[i], last[i]) BY <3>1 DEF ReadersInv, KeepUp
    <3>3. readers'[i] = readers[i] /\ last'[i] = last[i] BY <1>3, <1>5, <3>1
    <3> QED BY <1>6, <3>2, <3>3
  <2>2. Seen' = Seen BY <1>2, <1>3, <1>8 DEF Seen
  <2>3. got' = got BY <1>4, <1>8 DEF GotOf
  <2> QED BY <1>4, <1>7, <2>1, <2>2, <2>3 DEF LogMoves, ReadersInv
<1>9. CASE r \notin behind
  <2> DEFINE to == LastOf(s, last[r])
             from == Later(last[r], Missed) + 1
  <2>0. InStep(readers[r], last[r]) BY <1>9 DEF ReadersInv, KeepUp
  <2>1. /\ InStep(s.pos, to)
        /\ \/ s.bytes = <<>> /\ to = last[r]
           \/ to \in from .. total /\ s.bytes = Run(from, to)
        /\ last[r] \in 0 .. total
    <3>1. CASE readers[r] = Nothing
      <4>1. s.pos = Nothing /\ s.bytes = <<>> BY <1>9, <3>1 DEF FromStart
      <4>2. to = last[r] BY <4>1 DEF LastOf
      <4> QED BY <2>0, <3>1, <4>1, <4>2, InStepRange
    <3>2. CASE readers[r] # Nothing
      <4>1. Reached(readers[r], s) BY <1>9, <3>2
      <4>2. last[r] \in 0 .. total BY <2>0, InStepRange
      <4> QED BY <2>0, <3>2, <4>1, <4>2, InStepRead
    <3> QED BY <3>1, <3>2
  <2> HIDE DEF to
  <2>2. KeepUp'
    <3> SUFFICES ASSUME NEW i \in DOMAIN readers' \ behind' PROVE InStep(readers[i], last[i])'
      BY DEF KeepUp
    <3>1. i \in DOMAIN readers \ behind /\ i \in ReaderIds
      BY <1>2 DEF ReadersInv, KnownReaders
    <3>2. CASE i = r
      <4>1. readers'[i] = s.pos /\ last'[i] = to BY <1>2, <1>3, <3>2 DEF to
      <4> QED BY <1>6, <2>1, <3>2, <4>1
    <3>3. CASE i # r
      <4>1. InStep(readers[i], last[i]) BY <3>1 DEF ReadersInv, KeepUp
      <4>2. readers'[i] = readers[i] /\ last'[i] = last[i] BY <1>3, <1>5, <3>1, <3>3
      <4> QED BY <1>6, <4>1, <4>2
    <3> QED BY <3>2, <3>3
  <2>3. Seen[r] = last[r] /\ r \in DOMAIN Seen BY <1>2, <1>9 DEF Seen
  <2>4. Seen' = [Seen EXCEPT ![r] = to] BY <1>2, <1>3, <1>9 DEF Seen, to
  <2>5. got' = [got EXCEPT ![r] = got[r] \o s.bytes] BY <1>9 DEF GotOf
  <2>6. CASE s.bytes = <<>> /\ to = last[r]
    <3>1. Seen' = Seen BY <2>3, <2>4, <2>6 DEF Seen
    <3>2. got[r] \o s.bytes = got[r] BY <1>4, <2>6, ConcatEmptySeq
    <3>3. got' = got BY <1>4, <2>5, <3>2
    <3> QED BY <1>4, <1>7, <2>2, <3>1, <3>3 DEF LogMoves, ReadersInv
  <2>7. CASE to \in from .. total /\ s.bytes = Run(from, to)
    <3>1. from \in Int /\ to \in Int /\ from <= to BY <1>1, <2>1, <2>7 DEF Later, Missed
    <3>2. Log!Missed(r, total) + 1 = from BY <1>1, <1>2, <2>3, LogMissed
    <3> HIDE DEF from
    <3>3. s.bytes \in Seq(Int) BY <2>7, <3>1, RunIs
    <3>4. got[r] \o s.bytes \in Seq(Int) BY <1>4, <3>3, ConcatProperties
    <3>5. got' \in [ReaderIds -> Seq(Int)] BY <1>4, <2>5, <3>4
    <3>6. s.bytes = Log!Run(from, to) BY <2>7 DEF Run, Log!Run
    <3>7. Log!Read(r)
      <4>1. to \in Log!Missed(r, total) + 1 .. total BY <2>7, <3>2
      <4>2. got' = [got EXCEPT ![r] = got[r] \o Log!Run(Log!Missed(r, total) + 1, to)] BY <2>5, <3>2, <3>6
      <4>3. Seen[r] \in 0 .. total BY <2>1, <2>3
      <4> QED BY <2>4, <4>1, <4>2, <4>3 DEF Log!Read, Seen
    <3> QED BY <1>2, <1>7, <2>2, <3>5, <3>7 DEF LogMoves, ReadersInv
  <2> QED BY <2>1, <2>6, <2>7
<1> QED BY <1>8, <1>9

\* A reader reads a part of bytes that wrap, and is left behind.
LEMMA OneLeaves ==
  ASSUME RingInv, ReadersInv, NEW r \in DOMAIN readers, readers[r] # Nothing, NEW p, NEW u,
         r \notin behind => total > maxSize, NEW s,
         readers' = [readers EXCEPT ![r] = p], last' = [last EXCEPT ![r] = u],
         got' = [got EXCEPT ![r] = GotOf(r, s)],
         behind' = behind \cup {r}, UNCHANGED <<ring, readerId, streams, total>>
  PROVE  ReadersInv' /\ LogMoves
<1>1. r \in ReaderIds /\ r < readerId /\ DOMAIN readers' = DOMAIN readers
  BY DEF ReadersInv, KnownReaders
<1>2. last' = [i \in ReaderIds |-> IF i = r THEN u ELSE last[i]]
  BY DEF ReadersInv, KnownReaders
<1>3. got' = got /\ got \in [ReaderIds -> Seq(Int)] BY DEF GotOf, ReadersInv, KnownReaders
<1>4. KnownReaders'
  <2>1. last' = [i \in ReaderIds |-> last'[i]] BY <1>2
  <2>2. \A i \in ReaderIds : i >= readerId' => last'[i] = -1
    BY <1>1, <1>2 DEF ReadersInv, KnownReaders, ReaderIds
  <2> QED BY <1>1, <1>3, <2>1, <2>2 DEF ReadersInv, KnownReaders
<1>5. KeepUp'
  <2> SUFFICES ASSUME NEW i \in DOMAIN readers' \ behind' PROVE InStep(readers[i], last[i])'
    BY DEF KeepUp
  <2>1. i # r /\ i \in DOMAIN readers \ behind /\ i \in ReaderIds
    BY <1>1 DEF ReadersInv, KnownReaders
  <2>2. InStep(readers[i], last[i]) BY <2>1 DEF ReadersInv, KeepUp
  <2>3. readers'[i] = readers[i] /\ last'[i] = last[i] BY <1>2, <2>1
  <2> QED BY <2>2, <2>3 DEF InStep, Missed, Age, Later
<1>6. CASE r \in behind
  <2>1. Seen' = Seen BY <1>1, <1>2, <1>6 DEF Seen
  <2> QED BY <1>3, <1>4, <1>5, <2>1 DEF LogMoves, ReadersInv
<1>7. CASE r \notin behind
  <2>1. InStep(readers[r], last[r]) BY <1>7 DEF ReadersInv, KeepUp
  <2>2. last[r] \in 0 .. total - 1 BY <2>1, InStepKept
  <2>3. Seen[r] = last[r] BY <1>1, <1>7 DEF Seen
  <2>4. Seen' = [Seen EXCEPT ![r] = -2] BY <1>1, <1>2 DEF Seen
  <2>5. Log!Leave(r) BY <1>3, <1>7, <2>2, <2>3, <2>4 DEF Log!Leave, Log!Behind, Seen
  <2> QED BY <1>1, <1>4, <1>5, <2>5 DEF LogMoves, ReadersInv
<1> QED BY <1>6, <1>7

\* A part is read of bytes that wrap, which they do once bytes were lost, or all
\* that is asked for follows.
LEMMA PartOrInOrder ==
  ASSUME RingInv, ReadersInv, NEW r \in DOMAIN readers, r \notin behind, readers[r] # Nothing,
         NEW size \in {-1} \cup (Nat \ {0})
  PROVE  /\ total > 0 /\ readers[r] \in Positions /\ Age(readers[r]) < Lower(total, maxSize)
         /\ ReadsPart(r, size) = {} => InOrder(readers[r], size)
         /\ ReadsPart(r, size) # {} => total > maxSize
<1>1. InStep(readers[r], last[r]) BY DEF ReadersInv, KeepUp
<1>2. total > 0 /\ readers[r] \in Positions /\ Age(readers[r]) < Lower(total, maxSize)
  BY <1>1, InStepKept
<1> DEFINE p == readers[r]
<1>3. /\ maxSize \in Nat \ {0} /\ head \in 0 .. maxSize - 1 /\ p \in 0 .. maxSize - 1 /\ total \in Nat
  BY <1>2, RingAssumption DEF RingInv, RingShape, Positions
<1>4. size = -1 \/ (size \in Nat /\ size > 0) OBVIOUS
<1>5. Age(p) < Lower(total, maxSize) BY <1>2
<1>6. ReadsPart(r, size) = IF size # -1 /\ isWrapped(p, head) /\ size < maxSize - p THEN {r} ELSE {}
  BY DEF ReadsPart
<1> HIDE DEF p
<1>7. isWrapped(p, head) <=> ~(p <= head) BY <1>3 DEF isWrapped
<1>8. ReadsPart(r, size) = {} => InOrder(p, size) BY <1>3, <1>4, <1>6, <1>7 DEF InOrder
<1>9. ReadsPart(r, size) # {} => total > maxSize
  <2>1. ReadsPart(r, size) # {} => ~(p <= head) BY <1>6, <1>7
  <2>2. ~(p <= head) /\ total <= maxSize => FALSE
    <3> SUFFICES ASSUME ~(p <= head), total <= maxSize PROVE FALSE OBVIOUS
    <3>1. head = total - 1 BY <1>2 DEF RingInv, RingShape
    <3>2. Age(p) = total - 1 - p + maxSize BY <3>1 DEF Age
    <3>3. Lower(total, maxSize) <= total BY <1>3 DEF Lower
    <3> QED BY <1>3, <1>5, <3>2, <3>3 DEF Lower
  <2> QED BY <1>3, <2>1, <2>2
<1> QED BY <1>2, <1>8, <1>9 DEF p

LEMMA ReadLogged ==
  ASSUME RingInv, ReadersInv, NEW r \in DOMAIN readers, NEW size \in ReadSizes, Read(r, size)
  PROVE  ReadersInv' /\ LogMoves
<1> DEFINE d == deq(buffer, head, readers[r], size)
<1>1. /\ readers[r] # Nothing /\ size \in {-1} \cup (Nat \ {0})
      /\ readers' = [readers EXCEPT ![r] = d.pos]
      /\ last' = [last EXCEPT ![r] = LastOf(d, @)]
      /\ got' = [got EXCEPT ![r] = GotOf(r, d)]
      /\ behind' = behind \cup ReadsPart(r, size)
      /\ UNCHANGED <<ring, readerId, streams, total>>
  BY RingAssumption DEF Read
<1>2. ReadsPart(r, size) = {} \/ ReadsPart(r, size) = {r} BY DEF ReadsPart
<1>3. CASE ReadsPart(r, size) = {}
  <2>1. ASSUME r \notin behind PROVE Reached(readers[r], d)
    <3>1. /\ total > 0 /\ readers[r] \in Positions /\ Age(readers[r]) < Lower(total, maxSize)
          /\ InOrder(readers[r], size)
      BY <1>1, <1>3, <2>1, PartOrInOrder
    <3>2. Takes(readers[r], size) BY <1>1, <3>1, Taken
    <3> QED BY <3>1, <3>2 DEF Takes, Reached
  <2>2. behind' = behind BY <1>1, <1>3
  <2> HIDE DEF d
  <2> QED BY <1>1, <2>1, <2>2, OneReads
<1>4. CASE ReadsPart(r, size) = {r}
  <2>1. behind' = behind \cup {r} BY <1>1, <1>4
  <2>2. r \notin behind => total > maxSize BY <1>1, <1>4, PartOrInOrder
  <2> DEFINE u == LastOf(d, last[r])
             p == d.pos
  <2>3. last' = [last EXCEPT ![r] = u] /\ readers' = [readers EXCEPT ![r] = p]
    BY <1>1
  <2> HIDE DEF d, u, p
  <2> QED BY <1>1, <2>1, <2>2, <2>3, OneLeaves
<1> QED BY <1>2, <1>3, <1>4

LEMMA StreamReadLogged ==
  ASSUME RingInv, ReadersInv, NEW r \in DOMAIN readers, StreamRead(r)
  PROVE  ReadersInv' /\ LogMoves
<1>0. StreamSize \in Nat \ {0} /\ StreamSize # -1 /\ maxSize \in Nat BY RingAssumption
<1>1. PICK n \in 1 .. maxSize + 1 :
         LET result == deqs(buffer, head, readers[r], StreamSize, n) IN
           /\ readers' = [readers EXCEPT ![r] = result.pos]
           /\ last' = [last EXCEPT ![r] = LastOf(result, @)]
           /\ got' = [got EXCEPT ![r] = GotOf(r, result)]
  BY DEF StreamRead
<1> DEFINE s == deqs(buffer, head, readers[r], StreamSize, n)
<1>2. /\ readers' = [readers EXCEPT ![r] = s.pos]
      /\ last' = [last EXCEPT ![r] = LastOf(s, @)]
      /\ got' = [got EXCEPT ![r] = GotOf(r, s)]
  BY <1>1
<1>3. /\ behind' = behind \cup ReadsPart(r, StreamSize)
      /\ UNCHANGED <<ring, readerId, streams, total>>
  BY DEF StreamRead
<1>4. n \in Nat BY <1>0
<1>5. CASE readers[r] = Nothing
  <2>1. s = FromStart(Nothing) BY <1>0, <1>4, <1>5, NothingToRead
  <2>2. ReadsPart(r, StreamSize) = {} \/ r \in behind
    <3>1. CASE r \in behind BY <3>1
    <3>2. CASE r \notin behind
      <4>1. ReadsPart(r, StreamSize) = {} \/ ReadsPart(r, StreamSize) = {r} BY DEF ReadsPart
      <4>2. isWrapped(Nothing, head) => ReadsPart(r, StreamSize) = {}
        <5>1. head \in 0 .. maxSize - 1 \/ head = -1
          BY <1>0 DEF RingInv, RingShape, Positions
        <5> QED BY <1>0, <5>1 DEF isWrapped
      <4> QED BY <1>5, <4>2 DEF ReadsPart
    <3> QED BY <3>1, <3>2
  <2>3. behind' = behind BY <1>3, <2>2 DEF ReadsPart
  <2> HIDE DEF s
  <2> QED BY <1>2, <1>3, <1>5, <2>1, <2>3, OneReads
<1>6. CASE readers[r] # Nothing /\ ReadsPart(r, StreamSize) = {}
  <2>1. ASSUME r \notin behind PROVE Reached(readers[r], s)
    <3>1. /\ total > 0 /\ readers[r] \in Positions /\ Age(readers[r]) < Lower(total, maxSize)
          /\ InOrder(readers[r], StreamSize)
      BY <1>0, <1>6, <2>1, PartOrInOrder
    <3> QED BY <1>0, <1>4, <3>1, ReachedByStream
  <2>2. behind' = behind BY <1>3, <1>6
  <2> HIDE DEF s
  <2> QED BY <1>2, <1>3, <1>6, <2>1, <2>2, OneReads
<1>7. CASE readers[r] # Nothing /\ ReadsPart(r, StreamSize) = {r}
  <2>1. behind' = behind \cup {r} BY <1>3, <1>7
  <2>2. r \notin behind => total > maxSize BY <1>0, <1>7, PartOrInOrder
  <2> DEFINE u == LastOf(s, last[r])
             p == s.pos
  <2>3. last' = [last EXCEPT ![r] = u] /\ readers' = [readers EXCEPT ![r] = p]
    BY <1>2
  <2> HIDE DEF s, u, p
  <2> QED BY <1>2, <1>3, <1>7, <2>1, <2>2, <2>3, OneLeaves
<1>8. ReadsPart(r, StreamSize) = {} \/ ReadsPart(r, StreamSize) = {r} BY DEF ReadsPart
<1> QED BY <1>5, <1>6, <1>7, <1>8

AllTakes == \A p \in Positions : Age(p) < Lower(total, maxSize) => Takes(p, -1)

LEMMA AllTaken == RingInv /\ total > 0 => AllTakes
<1> SUFFICES ASSUME RingInv, total > 0, NEW p \in Positions, Age(p) < Lower(total, maxSize)
             PROVE  Takes(p, -1)
  BY DEF AllTakes
<1> QED BY Taken

LEMMA AllTakenNext == (RingInv /\ total > 0 => AllTakes)'
BY AllTaken, PTL

\* Where a write starts is where the first of the bytes it brings is kept.
LEMMA StartOfWrite ==
  ASSUME RingInv, RingInv', NEW n \in 1 .. maxSize + 1, enq(n),
         NEW start, start = IF head = -1 /\ tail = -1 THEN 0 ELSE inc(head, 1).newPos
  PROVE  /\ total' = total + n /\ start \in Positions
         /\ Age(start)' < Lower(total, maxSize)'
         /\ total' - Age(start)' = 1 + Later(total, Missed')
<1> DEFINE size == Lower(n, maxSize)
<1>1. /\ total \in Nat /\ maxSize \in Nat \ {0} /\ n \in Nat /\ n > 0 /\ n <= maxSize + 1
      /\ size \in 1 .. maxSize /\ (n <= maxSize => size = n) /\ (n > maxSize => size = maxSize)
  BY RingAssumption DEF RingInv, RingShape, Lower
<1>2. total' = total + n BY DEF enq
<1>3. start \in Positions /\ Age(start)' = size - 1
  <2>1. CASE total = 0
    <3>1. head = -1 /\ tail = -1 BY <2>1 DEF RingInv, RingShape
    <3>2. start = 0 /\ head' = size - 1 BY <3>1 DEF enq
    <3> HIDE DEF size
    <3> QED BY <1>1, <3>2 DEF Age, Positions
  <2>2. CASE total > 0
    <3>1. head \in Positions BY <2>2 DEF RingInv, RingShape
    <3>2. start = inc(head, 1).newPos BY <3>1 DEF Positions
    <3>3. /\ start \in Positions /\ start = IF head + 1 < maxSize THEN head + 1 ELSE 0
          /\ head' = IF head + size < maxSize THEN head + size ELSE head + size - maxSize
      BY <2>2, <3>2, LaterHead
    <3> HIDE DEF size
    <3> QED BY <1>1, <3>1, <3>3 DEF Age, Positions
  <2> QED BY <1>1, <2>1, <2>2
<1> HIDE DEF size
<1>4. Age(start)' < Lower(total, maxSize)'
  <2>1. Lower(total, maxSize)' = Lower(total', maxSize) BY DEF Lower
  <2> QED BY <1>1, <1>2, <1>3, <2>1 DEF Lower
<1>5. Missed' = IF total + n > maxSize THEN total + n - maxSize ELSE 0 BY <1>1, <1>2 DEF Missed
<1>6. total' - Age(start)' = 1 + Later(total, Missed')
  BY <1>1, <1>2, <1>3, <1>5 DEF Later
<1> QED BY <1>2, <1>3, <1>4, <1>6

\* Age after a write, of a position from before it.
AgeAfter(p) == IF p <= head' THEN head' - p ELSE head' - p + maxSize

\* A reader that had read nothing, and for which nothing is lost, is not moved.
LEMMA StaysAtTail ==
  ASSUME RingInv, RingInv', ReadersInv, NEW n \in 1 .. maxSize + 1, enq(n),
         NEW r \in DOMAIN readers \ behind, readers[r] # Nothing, readers[r] = tail, total + n <= maxSize
  PROVE  /\ ~(head = -1 /\ tail = -1)
         /\ Pushed(Lower(n, maxSize))[r] = tail
         /\ last[r] = 0 /\ tail \in Positions
         /\ AgeAfter(tail) < Lower(total', maxSize) /\ total' - AgeAfter(tail) = 1 /\ Missed' = 0
<1>1. InStep(readers[r], last[r]) BY DEF ReadersInv, KeepUp
<1>2. total > 0 /\ readers[r] \in Positions /\ last[r] \in 0 .. total - 1 BY <1>1, InStepKept
<1>3. total \in Nat /\ maxSize \in Nat \ {0} /\ n \in Nat /\ n > 0
  BY RingAssumption DEF RingInv, RingShape
<1>4. tail = 0 /\ head = total - 1 BY <1>2, <1>3 DEF RingInv, RingShape
<1>5. total' = total + n BY DEF enq
<1>6. tail' = 0 /\ head' = total' - 1 BY <1>2, <1>3, <1>5 DEF RingInv, RingShape
<1>7. ~(head = -1 /\ tail = -1) BY <1>4
<1>8. NewTail(n) = 0 /\ Lower(n, maxSize) = n
  <2>1. Lower(n, maxSize) = n BY <1>2, <1>3 DEF Lower
  <2> QED BY <1>6, <1>7, <2>1 DEF enq
<1>9. ~shouldIncPos(0, 0, n)
  <2>1. 0 \in Positions /\ n \in 0 .. maxSize BY <1>2, <1>3 DEF Positions
  <2>2. /\ inc(0, n).newPos = IF 0 + n < maxSize THEN 0 + n ELSE 0 + n - maxSize
        /\ inc(0, n).wrap <=> n # 0 /\ 0 + n >= maxSize
    BY <2>1, Increment
  <2>3. ~inc(0, n).wrap BY <1>2, <1>3, <2>2
  <2> QED BY <2>3 DEF shouldIncPos, isWrapped
<1>10. Pushed(Lower(n, maxSize))[r] = tail BY <1>4, <1>8, <1>9 DEF Pushed
<1>11. last[r] = 0
  <2>1. Age(tail) = total - 1 /\ Missed = 0 BY <1>2, <1>3, <1>4 DEF Age, Missed
  <2>2. total - Age(tail) = 1 + Later(last[r], Missed) BY <1>1 DEF InStep
  <2>3. Later(last[r], 0) = 0 BY <1>2, <1>3, <2>1, <2>2 DEF Later
  <2> QED BY <1>2, <2>3 DEF Later
<1>12. AgeAfter(tail) = total' - 1 /\ Missed' = 0 BY <1>3, <1>4, <1>5, <1>6 DEF AgeAfter, Missed
<1>13. AgeAfter(tail) < Lower(total', maxSize) BY <1>3, <1>5, <1>12 DEF Lower
<1>14. tail \in Positions BY <1>2
<1>15. total' - AgeAfter(tail) = 1 BY <1>3, <1>5, <1>12
<1> QED BY <1>7, <1>10, <1>11, <1>12, <1>13, <1>14, <1>15

\* One that may be left behind had read something, or loses something.
LEMMA LeftHadRead ==
  ASSUME RingInv, ReadersInv, NEW n \in Nat, NEW r \in MayBeLeft(n) \ behind, total + n <= maxSize
  PROVE  last[r] > 0
<1>1. r \in DOMAIN readers \ behind /\ readers[r] # Nothing /\ readers[r] # tail
  BY RingAssumption DEF MayBeLeft, RingInv, RingShape
<1>2. InStep(readers[r], last[r]) BY <1>1 DEF ReadersInv, KeepUp
<1> DEFINE p == readers[r]
<1>3. /\ total > 0 /\ p \in Positions /\ last[r] \in 0 .. total - 1
      /\ Age(p) < Lower(total, maxSize)
  BY <1>1, <1>2, InStepKept
<1>4. total - Age(p) = 1 + Later(last[r], Missed) BY <1>1, <1>2 DEF InStep
<1>5. p # tail BY <1>1
<1> HIDE DEF p
<1>6. total \in Nat /\ maxSize \in Nat \ {0} BY RingAssumption DEF RingInv, RingShape
<1>7. tail = 0 /\ head = total - 1 BY <1>3, <1>6 DEF RingInv, RingShape
<1>8. p \in 1 .. maxSize - 1 BY <1>3, <1>5, <1>6, <1>7 DEF Positions
<1>9. Age(p) = total - 1 - p
  <2>1. Lower(total, maxSize) <= total BY <1>6 DEF Lower
  <2>2. p <= head
    <3> SUFFICES ASSUME ~(p <= head) PROVE FALSE OBVIOUS
    <3>1. Age(p) = total - 1 - p + maxSize BY <1>7 DEF Age
    <3> QED BY <1>3, <1>6, <1>8, <3>1 DEF Lower
  <2> QED BY <1>7, <2>2 DEF Age
<1>10. Missed = 0 BY <1>6 DEF Missed
<1>11. Later(last[r], 0) = p
  <2> DEFINE l == Later(last[r], 0)
  <2>1. l \in Int /\ total - Age(p) = 1 + l BY <1>3, <1>4, <1>6, <1>10 DEF Later
  <2> HIDE DEF l
  <2>2. l = p BY <1>6, <1>8, <1>9, <2>1
  <2> QED BY <2>2 DEF l
<1> QED BY <1>3, <1>6, <1>8, <1>11 DEF Later

LEMMA WriteLogged ==
  ASSUME RingInv, RingInv', ReadersInv, NEW n \in 1 .. maxSize + 1, enq(n)
  PROVE  ReadersInv' /\ LogMoves
<1>0. PICK start : start = IF head = -1 /\ tail = -1 THEN 0 ELSE inc(head, 1).newPos
  OBVIOUS
<1> DEFINE pushed == IF head = -1 /\ tail = -1 THEN readers ELSE Pushed(Lower(n, maxSize))
           ready == {r \in streams : more[r]}
           stands(r) == Notified(pushed, start)[r]
           result(r) == deq(buffer', head', stands(r), -1)
<1>1. /\ total' = total + n /\ start \in Positions
      /\ AgeAfter(start) < Lower(total', maxSize)
      /\ total' - AgeAfter(start) = 1 + Later(total, Missed')
  BY <1>0, StartOfWrite DEF Age, AgeAfter, Lower
<1>2. /\ readers' = [r \in DOMAIN pushed |-> IF r \in ready THEN result(r).pos ELSE stands(r)]
      /\ last' = [r \in ReaderIds |-> IF r \in ready THEN LastOf(result(r), last[r]) ELSE last[r]]
      /\ got' = [r \in ReaderIds |-> IF r \in ready THEN GotOf(r, result(r)) ELSE got[r]]
      /\ behind' = behind \cup MayBeLeft(n)
      /\ UNCHANGED <<readerId, streams>>
  BY <1>0 DEF enq, onData
<1>3. /\ total \in Nat /\ n \in Nat /\ n > 0 /\ total' > 0 /\ total' \in Nat /\ maxSize \in Nat
      /\ MayBeLeft(n) \subseteq DOMAIN readers
  BY <1>1, RingAssumption DEF RingInv, RingShape, MayBeLeft
<1>4. /\ DOMAIN pushed = DOMAIN readers
      /\ \A r \in DOMAIN readers : readers[r] = Nothing => pushed[r] = Nothing
  BY DEF Pushed
<1>5. \A r \in DOMAIN readers : readers[r] = Nothing => stands(r) = start
  BY <1>4 DEF Notified
<1>6. DOMAIN readers' = DOMAIN readers /\ ready \subseteq DOMAIN readers /\ DOMAIN readers \subseteq ReaderIds
  BY <1>2, <1>4 DEF ReadersInv, KnownReaders
\* Where a reader that keeps up stands when it is notified.
<1>7. ASSUME NEW r \in DOMAIN readers \ behind'
      PROVE  /\ stands(r) \in Positions /\ AgeAfter(stands(r)) < Lower(total', maxSize)
             /\ last[r] \in 0 .. total
             /\ total' - AgeAfter(stands(r)) = 1 + Later(last[r], Missed')
  <2>1. r \notin behind BY <1>2
  <2>2. InStep(readers[r], last[r]) BY <2>1 DEF ReadersInv, KeepUp
  <2>3. CASE readers[r] = Nothing
    <3>1. last[r] = total BY <2>2, <2>3, InStepRange
    <3>2. stands(r) = start BY <1>5, <2>3
    <3>3. total \in 0 .. total BY <1>3
    <3> HIDE DEF pushed, stands
    <3> QED BY <1>1, <3>1, <3>2, <3>3
  <2>4. CASE readers[r] # Nothing
    <3>1. readers[r] = tail /\ total + n <= maxSize BY <1>2, <1>3, <2>4 DEF MayBeLeft
    <3>2. /\ ~(head = -1 /\ tail = -1)
          /\ Pushed(Lower(n, maxSize))[r] = tail
          /\ last[r] = 0 /\ tail \in Positions
          /\ AgeAfter(tail) < Lower(total', maxSize) /\ total' - AgeAfter(tail) = 1 /\ Missed' = 0
      BY <2>1, <2>4, <3>1, StaysAtTail
    <3>3. pushed[r] = tail /\ tail # Nothing BY <2>4, <3>1, <3>2
    <3> HIDE DEF pushed
    <3>4. stands(r) = tail BY <1>4, <3>3 DEF Notified
    <3>5. Later(last[r], Missed') = 0 BY <3>2 DEF Later
    <3> HIDE DEF stands
    <3> QED BY <1>3, <3>2, <3>4, <3>5
  <2> QED BY <2>3, <2>4
\* One that is a stream, and can take more, is given all.
<1>8. ASSUME NEW r \in ready \ behind'
      PROVE  /\ readers'[r] = Nothing /\ last'[r] = total'
             /\ got'[r] = got[r] \o Run(Later(last[r], Missed') + 1, total')
             /\ got'[r] \in Seq(Int) /\ got[r] \in Seq(Int)
  <2>0. r \in DOMAIN readers \ behind' /\ r \in ReaderIds BY <1>6
  <2> PICK q : q = stands(r) OBVIOUS
  <2> DEFINE from == Later(last[r], Missed') + 1
  <2>1. AllTakes' BY <1>3, AllTakenNext
  <2>2. /\ q \in Positions /\ Age(q)' < Lower(total, maxSize)' /\ last[r] \in 0 .. total
        /\ total' - Age(q)' = from
    <3>1. /\ q \in Positions /\ AgeAfter(q) < Lower(total', maxSize) /\ last[r] \in 0 .. total
          /\ total' - AgeAfter(q) = 1 + Later(last[r], Missed')
      BY <1>7, <2>0
    <3>2. AgeAfter(q) = Age(q)' /\ Lower(total', maxSize) = Lower(total, maxSize)'
      BY DEF Age, AgeAfter, Lower
    <3>3. Later(last[r], Missed') \in Int BY <1>3, <3>1 DEF Later, Missed
    <3> QED BY <3>1, <3>2, <3>3
  <2>3. result(r) = deq(buffer', head', q, -1) OBVIOUS
  <2> HIDE DEF from, pushed
  <2>4. Takes(q, -1)' BY <2>1, <2>2 DEF AllTakes
  <2> DEFINE d == deq(buffer', head', q, -1)
  <2>5. d.pos = Nothing /\ d.bytes = Run(total' - Age(q)', total') BY <2>4 DEF Takes
  <2>6. d.bytes = Run(from, total') BY <2>2, <2>5
  <2>7. from \in Int /\ from <= total'
    <3>1. from = Later(last[r], Missed') + 1 /\ Missed' = IF total' > maxSize THEN total' - maxSize ELSE 0
      BY DEF from, Missed
    <3>2. PICK k \in Int : k = maxSize /\ k > 0 BY RingAssumption
    <3> PICK m, l, t : m = Missed' /\ l = last[r] /\ t = total' OBVIOUS
    <3>3. l \in Int /\ l < t /\ t \in Nat /\ t > 0 BY <1>1, <1>3, <2>2
    <3>4. m \in Int /\ m < t
      <4>1. m = IF t > k THEN t - k ELSE 0 BY <3>1, <3>2
      <4> QED BY <3>2, <3>3, <4>1, Beneath
    <3>5. Later(l, m) \in Int /\ Later(l, m) < t BY <3>3, <3>4 DEF Later
    <3>6. from = Later(l, m) + 1 BY <3>1
    <3> QED BY <3>3, <3>5, <3>6
  <2>8. d.bytes \in Seq(Int) /\ d.bytes # <<>> /\ LatestOf(d.bytes) = total'
    <3> PICK t : t = total' OBVIOUS
    <3> HIDE DEF d
    <3>1. t \in Int /\ from <= t /\ d.bytes = Run(from, t) BY <1>3, <2>6, <2>7
    <3>2. Run(from, t) \in Seq(Int) /\ Run(from, t) # <<>> /\ LatestOf(Run(from, t)) = t
      BY <2>7, <3>1, RunIs
    <3> QED BY <3>1, <3>2
  <2>9. LastOf(d, last[r]) = total' BY <2>8 DEF LastOf, LatestOf
  <2>10. GotOf(r, d) = got[r] \o d.bytes BY DEF GotOf
  <2>11. got[r] \in Seq(Int) BY <2>0 DEF ReadersInv, KnownReaders
  <2>12. got[r] \o d.bytes \in Seq(Int) BY <2>8, <2>11, ConcatProperties
  <2>13. readers'[r] = result(r).pos /\ last'[r] = LastOf(result(r), last[r]) /\ got'[r] = GotOf(r, result(r))
    BY <1>2, <1>4, <2>0
  <2> HIDE DEF result, d
  <2>14. readers'[r] = d.pos /\ last'[r] = LastOf(d, last[r]) /\ got'[r] = got[r] \o d.bytes
    BY <2>3, <2>10, <2>13 DEF d
  <2> QED BY <2>5, <2>6, <2>9, <2>11, <2>12, <2>14 DEF from, d
<1>9. ASSUME NEW r \in DOMAIN readers \ ready
      PROVE  readers'[r] = stands(r) /\ last'[r] = last[r] /\ got'[r] = got[r]
  BY <1>2, <1>4, <1>6
<1>10. ASSUME NEW r \in ReaderIds, r \in behind' \/ r \notin ready PROVE got'[r] = got[r]
  BY <1>2, <1>10 DEF GotOf
<1> HIDE DEF result, pushed, stands
<1>11. KnownReaders'
  <2>1. last' = [r \in ReaderIds |-> last'[r]] BY <1>2
  <2>2. \A r \in ReaderIds : r >= readerId' => last'[r] = -1
    <3> SUFFICES ASSUME NEW r \in ReaderIds, r >= readerId PROVE last'[r] = -1 BY <1>2
    <3>1. r \in Nat /\ readerId \in Nat BY DEF ReadersInv, KnownReaders, ReaderIds
    <3>2. r \notin ready BY <1>6, <3>1 DEF ReadersInv, KnownReaders, ReaderIds
    <3> QED BY <1>2, <3>2 DEF ReadersInv, KnownReaders
  <2>3. behind' \subseteq ReaderIds /\ \A r \in behind' : r < readerId'
    BY <1>2, <1>3 DEF ReadersInv, KnownReaders
  <2>4. got' \in [ReaderIds -> Seq(Int)]
    <3>1. got \in [ReaderIds -> Seq(Int)] BY DEF ReadersInv, KnownReaders
    <3>2. \A r \in ReaderIds : got'[r] \in Seq(Int) BY <1>8, <1>10, <3>1
    <3>3. got' = [r \in ReaderIds |-> got'[r]] BY <1>2
    <3> QED BY <3>2, <3>3
  <2> QED BY <1>2, <1>6, <2>1, <2>2, <2>3, <2>4 DEF ReadersInv, KnownReaders
<1>12. KeepUp'
  <2> SUFFICES ASSUME NEW r \in DOMAIN readers' \ behind' PROVE InStep(readers[r], last[r])'
    BY DEF KeepUp
  <2>1. r \in DOMAIN readers \ behind' BY <1>6
  <2>2. CASE r \in ready
    <3>1. readers'[r] = Nothing /\ last'[r] = total' BY <1>8, <2>2
    <3> QED BY <3>1 DEF InStep
  <2>3. CASE r \notin ready
    <3> PICK q : q = stands(r) OBVIOUS
    <3>1. readers'[r] = q /\ last'[r] = last[r] BY <1>9, <2>1, <2>3
    <3>2. q \in Positions /\ last[r] \in 0 .. total /\ total' - AgeAfter(q) = 1 + Later(last[r], Missed')
      BY <1>7, <2>1
    <3>3. last[r] \in 0 .. total' - 1 BY <1>1, <1>3, <3>2
    <3>4. Age(readers[r])' = AgeAfter(q) BY <3>1 DEF Age, AgeAfter
    <3>5. Later(last[r], Missed)' = Later(last[r], Missed') BY <3>1 DEF Later
    <3> QED BY <1>3, <3>1, <3>2, <3>3, <3>4, <3>5 DEF InStep
  <2> QED BY <2>2, <2>3
<1>13. PICK R \in SUBSET ReaderIds : R = ready \ behind'
  BY <1>6
<1>14. ASSUME NEW r \in ReaderIds
       PROVE  /\ Seen[r] = IF r < readerId /\ r \notin DOMAIN readers THEN -3
                           ELSE IF r \in behind THEN -2 ELSE last[r]
              /\ Seen'[r] = IF r < readerId /\ r \notin DOMAIN readers THEN -3
                            ELSE IF r \in behind' THEN -2 ELSE last'[r]
  BY <1>2, <1>6 DEF Seen
<1>15. ASSUME NEW r \in R
       PROVE  Seen[r] \in 0 .. total /\ Log!Given(r, Log!Missed(r, total') + 1, total')
  <2>1. r \in ReaderIds /\ r \in ready \ behind' /\ r \in DOMAIN readers /\ r \notin behind
    BY <1>2, <1>6, <1>13
  <2>2. Seen[r] = last[r] /\ Seen'[r] = last'[r] BY <1>14, <2>1
  <2>3. last[r] \in 0 .. total BY <1>7, <2>1
  <2>4. Log!Missed(r, total') = Later(last[r], Missed')
    <3>0. Missed' = IF total' > maxSize THEN total' - maxSize ELSE 0 BY DEF Missed
    <3>1. Log!Lost(total') = Missed'
      <4>1. total' \in Int /\ maxSize \in Int BY <1>3
      <4>2. (IF 0 > total' - maxSize THEN 0 ELSE total' - maxSize) = IF total' > maxSize THEN total' - maxSize ELSE 0
        BY <4>1, Clipped
      <4> QED BY <3>0, <4>2 DEF Log!Lost, Log!Larger
    <3>2. Log!Missed(r, total') = Later(Seen[r], Missed')
      BY <2>1, <3>1 DEF Log!Missed, Log!Larger, Later, Seen
    <3> QED BY <2>2, <3>2
  <2>5. /\ last'[r] = total'
        /\ got'[r] = got[r] \o Run(Later(last[r], Missed') + 1, total')
    BY <1>8, <2>1
  <2>6. got'[r] = got[r] \o Log!Run(Log!Missed(r, total') + 1, total') BY <2>4, <2>5 DEF Run, Log!Run
  <2> QED BY <2>2, <2>3, <2>5, <2>6 DEF Log!Given, Seen
<1>16. ASSUME NEW r \in ReaderIds \ R
       PROVE  /\ got'[r] = got[r]
              /\ \/ Seen'[r] = Seen[r]
                 \/ /\ Seen[r] \in 0 .. total - 1 /\ (Seen[r] > 0 \/ total' > maxSize)
                    /\ Seen'[r] = -2
  <2>1. got'[r] = got[r] BY <1>10, <1>13
  <2>2. CASE r \in behind \/ (r < readerId /\ r \notin DOMAIN readers) BY <1>2, <1>14, <2>1, <2>2
  <2>3. CASE ~(r < readerId /\ r \notin DOMAIN readers) /\ r \notin behind /\ r \in behind'
    <3>1. r \in MayBeLeft(n) /\ r \in DOMAIN readers /\ readers[r] # Nothing BY <1>2, <2>3 DEF MayBeLeft
    <3>2. InStep(readers[r], last[r]) BY <2>3, <3>1 DEF ReadersInv, KeepUp
    <3>3. last[r] \in 0 .. total - 1 BY <3>1, <3>2, InStepKept
    <3>4. total' > maxSize \/ last[r] > 0
      <4>1. CASE total + n <= maxSize BY <1>3, <2>3, <3>1, <4>1, LeftHadRead
      <4>2. CASE ~(total + n <= maxSize) BY <1>1, <1>3, <4>2
      <4> QED BY <4>1, <4>2
    <3>5. Seen[r] = last[r] /\ Seen'[r] = -2 BY <1>14, <2>3
    <3> QED BY <2>1, <3>3, <3>4, <3>5
  <2>4. CASE ~(r < readerId /\ r \notin DOMAIN readers) /\ r \notin behind'
    <3>1. r \notin ready /\ r \notin behind BY <1>2, <1>13, <2>4
    <3>2. last'[r] = last[r] BY <1>2, <3>1
    <3> QED BY <1>14, <2>1, <2>4, <3>1, <3>2
  <2> QED BY <2>2, <2>3, <2>4
<1>17. Log!Write(n, R)
  <2>1. DOMAIN Seen' = ReaderIds /\ DOMAIN got' = ReaderIds BY <1>2 DEF Seen
  <2> QED BY <1>1, <1>15, <1>16, <2>1 DEF Log!Write, Log!Behind, Seen
<1>18. LogMoves
  <2>1. n \in 1 .. total' - total BY <1>1, <1>3
  <2> QED BY <1>17, <2>1 DEF LogMoves
<1> QED BY <1>11, <1>12, <1>18 DEF ReadersInv

LEMMA JoinLogged ==
  ASSUME RingInv, ReadersInv, newReader, streams' \subseteq streams \cup {readerId}
  PROVE  ReadersInv' /\ LogMoves
<1>1. /\ readerId \in ReaderIds /\ readerId' = readerId + 1
      /\ readers' = [r \in DOMAIN readers \cup {readerId} |-> IF r = readerId THEN tail ELSE readers[r]]
      /\ last' = [last EXCEPT ![readerId] = Oldest(total) - 1]
      /\ UNCHANGED <<ring, total, got, behind>>
  BY DEF newReader
<1>2. total \in Nat /\ maxSize \in Nat \ {0} BY RingAssumption DEF RingInv, RingShape
<1>3. Oldest(total) - 1 = Missed /\ Missed = Log!Lost(total)
  BY <1>2 DEF Oldest, Missed, Log!Lost, Log!Larger
<1>4. readerId \in Nat /\ readerId \notin behind /\ readerId \notin DOMAIN readers /\ last[readerId] = -1
  BY <1>1 DEF ReadersInv, KnownReaders, ReaderIds
<1>5. last' = [r \in ReaderIds |-> IF r = readerId THEN Missed ELSE last[r]]
  BY <1>1, <1>3 DEF ReadersInv, KnownReaders
<1>6. KnownReaders'
  <2>1. last' = [r \in ReaderIds |-> last'[r]] BY <1>5
  <2>2. \A r \in ReaderIds : r >= readerId' => last'[r] = -1
    BY <1>1, <1>4, <1>5 DEF ReadersInv, KnownReaders, ReaderIds
  <2>3. \A r \in behind' \cup DOMAIN readers : r < readerId'
    <3> SUFFICES ASSUME NEW r \in behind \cup DOMAIN readers PROVE r < readerId' BY <1>1
    <3>1. r < readerId BY DEF ReadersInv, KnownReaders
    <3>2. r \in Int BY DEF ReadersInv, KnownReaders, ReaderIds
    <3> QED BY <1>1, <1>4, <3>1, <3>2
  <2> QED BY <1>1, <1>4, <2>1, <2>2, <2>3 DEF ReadersInv, KnownReaders
<1>7. KeepUp'
  <2> SUFFICES ASSUME NEW r \in DOMAIN readers' \ behind' PROVE InStep(readers[r], last[r])'
    BY DEF KeepUp
  <2>1. CASE r = readerId
    <3>1. readers'[r] = tail /\ last'[r] = Missed BY <1>1, <1>5, <2>1
    <3>2. CASE total = 0
      <4>1. tail = Nothing /\ Missed = 0 BY <1>2, <3>2 DEF Missed, RingInv, RingShape
      <4> QED BY <1>1, <3>1, <3>2, <4>1 DEF InStep
    <3>3. CASE total > 0
      <4>1. tail \in Positions /\ head \in Positions BY <3>3 DEF RingInv, RingShape
      <4>2. Age(tail) + 1 = Lower(total, maxSize)
        BY <1>2, <3>3, <4>1 DEF RingInv, RingShape, Age, Lower, Positions
      <4>3. Missed \in 0 .. total - 1 /\ total - Age(tail) = 1 + Missed
        <5>1. Age(tail) \in 0 .. maxSize - 1 BY <3>3, <4>1, AgeBound
        <5> QED BY <1>2, <3>3, <4>2, <5>1 DEF Missed, Lower
      <4>4. InStep(tail, Missed) BY <3>3, <4>1, <4>3 DEF InStep, Later
      <4> QED BY <1>1, <3>1, <4>4 DEF InStep, Missed, Age, Later
    <3> QED BY <1>2, <3>2, <3>3
  <2>2. CASE r # readerId
    <3>1. r \in DOMAIN readers \ behind /\ r \in ReaderIds BY <1>1, <2>2 DEF ReadersInv, KnownReaders
    <3>2. InStep(readers[r], last[r]) BY <3>1 DEF ReadersInv, KeepUp
    <3>3. readers'[r] = readers[r] /\ last'[r] = last[r] BY <1>1, <1>5, <2>2, <3>1
    <3> QED BY <1>1, <3>2, <3>3 DEF InStep, Missed, Age, Later
  <2> QED BY <2>1, <2>2
<1>8. Seen[readerId] = -1 BY <1>1, <1>4 DEF Seen
<1>9. Seen' = [Seen EXCEPT ![readerId] = Log!Lost(total)]
  <2>1. \A r \in ReaderIds : r < readerId' <=> r < readerId \/ r = readerId
    BY <1>1, <1>4 DEF ReaderIds
  <2> QED BY <1>1, <1>3, <1>4, <1>5, <2>1 DEF Seen
<1>10. PICK id \in ReaderIds : id = readerId BY <1>1
<1>11. Log!Join(id) BY <1>1, <1>8, <1>9, <1>10 DEF Log!Join, Log!None, Seen
<1> QED BY <1>6, <1>7, <1>11 DEF ReadersInv, LogMoves

LEMMA OthersLogged ==
  ASSUME RingInv, ReadersInv, \/ UNCHANGED ringVars
                              \/ \E r \in DOMAIN readers : closeReader(r)
  PROVE  ReadersInv' /\ LogMoves
<1>1. /\ UNCHANGED <<ring, readerId, total, last, got, behind>>
      /\ streams' \subseteq streams /\ streams' \subseteq DOMAIN readers'
      /\ DOMAIN readers' \subseteq DOMAIN readers
      /\ \A r \in DOMAIN readers' : readers'[r] = readers[r]
  BY DEF closeReader, table, history, ReadersInv, KnownReaders
<1>2. KnownReaders' BY <1>1 DEF ReadersInv, KnownReaders
<1>3. KeepUp'
  <2> SUFFICES ASSUME NEW r \in DOMAIN readers' \ behind' PROVE InStep(readers[r], last[r])'
    BY DEF KeepUp
  <2>1. InStep(readers[r], last[r]) BY <1>1 DEF ReadersInv, KeepUp
  <2> QED BY <1>1, <2>1 DEF InStep, Missed, Age, Later
<1>4. CASE UNCHANGED ringVars
  <2>1. UNCHANGED <<total, Seen, got>> BY <1>1, <1>4 DEF Seen, table
  <2> QED BY <1>2, <1>3, <2>1 DEF ReadersInv, LogMoves
<1>5. ASSUME NEW r \in DOMAIN readers, closeReader(r) PROVE LogMoves
  <2>1. r \in ReaderIds /\ r < readerId BY DEF ReadersInv, KnownReaders
  <2>2. DOMAIN readers' = DOMAIN readers \ {r} BY <1>5 DEF closeReader
  <2>3. Seen' = [Seen EXCEPT ![r] = -3] BY <1>1, <2>1, <2>2 DEF Seen
  <2>4. Seen[r] \notin {-1, -3}
    <3>1. CASE r \in behind BY <2>1, <3>1 DEF Seen
    <3>2. CASE r \notin behind
      <4>1. InStep(readers[r], last[r]) BY <3>2 DEF ReadersInv, KeepUp
      <4>2. last[r] \in 0 .. total /\ total \in Nat BY <4>1, InStepRange DEF RingInv, RingShape
      <4>3. Seen[r] = last[r] BY <2>1, <3>2 DEF Seen
      <4> QED BY <4>2, <4>3
    <3> QED BY <3>1, <3>2
  <2>5. Log!Close(r) BY <1>1, <2>3, <2>4 DEF Log!Close, Log!None, Log!Closed, Seen
  <2> QED BY <2>1, <2>5 DEF LogMoves
<1> QED BY <1>2, <1>3, <1>4, <1>5 DEF ReadersInv

\* A step of the ring is one of the log, which also says who has nothing to read.
LogStep == Log!Next \/ UNCHANGED <<total, Seen, got, Idle>>

LEMMA EachLogged == RingInv /\ RingInv' /\ ReadersInv /\ [RingNext]_ringVars => ReadersInv' /\ LogStep
<1> SUFFICES ASSUME RingInv, RingInv', ReadersInv, [RingNext]_ringVars PROVE ReadersInv' /\ LogStep
  OBVIOUS
<1>1. ReadersInv' /\ LogMoves
  <2>1. ASSUME NEW n \in 1 .. maxSize + 1, enq(n) PROVE ReadersInv' /\ LogMoves BY <2>1, WriteLogged
  <2>2. ASSUME getReader PROVE ReadersInv' /\ LogMoves BY <2>2, JoinLogged DEF getReader
  <2>3. ASSUME getStream PROVE ReadersInv' /\ LogMoves BY <2>3, JoinLogged DEF getStream
  <2>4. ASSUME NEW r \in DOMAIN readers, NEW size \in ReadSizes, Read(r, size) PROVE ReadersInv' /\ LogMoves
    BY <2>4, ReadLogged
  <2>5. ASSUME NEW r \in DOMAIN readers, StreamRead(r) PROVE ReadersInv' /\ LogMoves
    BY <2>5, StreamReadLogged
  <2>6. ASSUME NEW r \in DOMAIN readers, closeReader(r) PROVE ReadersInv' /\ LogMoves
    BY <2>6, OthersLogged
  <2>7. CASE UNCHANGED ringVars BY <2>7, OthersLogged
  <2> QED BY <2>1, <2>2, <2>3, <2>4, <2>5, <2>6, <2>7 DEF RingNext
<1>2. Idle = {r \in ReaderIds : Seen[r] = total} BY IdleIsAllRead
<1>3. Idle' = {r \in ReaderIds : Seen'[r] = total'} BY <1>1, IdleIsAllReadNext
<1>4. CASE UNCHANGED <<total, Seen, got>> BY <1>1, <1>2, <1>3, <1>4 DEF LogStep
<1>5. CASE \/ \E n \in 1 .. total' - total, R \in SUBSET ReaderIds : Log!Write(n, R)
           \/ \E r \in ReaderIds : Log!Join(r) \/ Log!Read(r) \/ Log!Leave(r) \/ Log!Close(r)
  <2>1. Log!Next BY <1>3, <1>5 DEF Log!Next, Seen, Idle
  <2> QED BY <1>1, <2>1 DEF LogStep
<1> QED BY <1>1, <1>4, <1>5 DEF LogMoves

\* ImplementsLog: whatever the sizes of the buffer, of the writes and of the reads,
\* what a reader is given, from its first read on, is one run of bytes after the
\* other, each from the byte after the last one it was given, or from the oldest
\* one kept, on; and it is told that nothing is left when, and only when, it was
\* given all, until it is left behind or closed.
THEOREM EveryByteOnce == RingSpec => ImplementsLog
<1>1. RingInit => RingInv /\ ReadersInv /\ Log!Init BY InitRing, InitReaders
<1>2. RingInv /\ [RingNext]_ringVars => RingInv' BY StepRing
<1>3. RingInv /\ RingInv' /\ ReadersInv /\ [RingNext]_ringVars => ReadersInv' /\ [Log!Next]_(Log!vars)
  <2>1. LogStep => [Log!Next]_(Log!vars) BY DEF LogStep, Log!vars, Seen, Idle
  <2> QED BY <2>1, EachLogged
<1> QED BY <1>1, <1>2, <1>3, PTL DEF RingSpec, ImplementsLog, Log!Spec

-----------------------------------------------------------------------------
(* The types of the ring, which say that every reader stays in the buffer. *)

Results == [pos : Positions \cup {Nothing}, bytes : Seq(Int)]

LEMMA DeqTyped ==
  ASSUME RingInv, total > 0, NEW p \in Positions, NEW size \in {-1} \cup (Nat \ {0})
  PROVE  deq(buffer, head, p, size) \in Results
<1> DEFINE there == sizeFrom(p, head)
           deqSize == IF size = -1 THEN there ELSE Lower(size, there)
           returned == IF isWrapped(p, head) /\ deqSize < maxSize - p THEN maxSize - p ELSE deqSize
<1>1. /\ maxSize \in Nat \ {0} /\ head \in 0 .. maxSize - 1 /\ p \in 0 .. maxSize - 1
      /\ size = -1 \/ (size \in Nat /\ size > 0)
  BY RingAssumption DEF RingInv, RingShape, Positions
<1>2. there \in 1 .. maxSize BY <1>1 DEF sizeFrom, isWrapped
<1>3. deq(buffer, head, p, size) = [pos |-> PositionAfter(head, p, deqSize), bytes |-> BytesFrom(buffer, p, returned)]
  BY DEF deq
<1> HIDE DEF there
<1>4. deqSize \in 1 .. maxSize BY <1>1, <1>2 DEF Lower
<1> HIDE DEF deqSize
<1>5. returned \in 1 .. maxSize BY <1>1, <1>4
<1> HIDE DEF returned
<1>6. BytesFrom(buffer, p, returned) \in Seq(Int) BY <1>5, BytesTaken
<1>7. PositionAfter(head, p, deqSize) \in Positions \cup {Nothing}
  <2>1. deqSize \in 0 .. maxSize BY <1>1, <1>4
  <2>2. inc(p, deqSize).newPos \in Positions BY <2>1, Increment
  <2> QED BY <2>2 DEF PositionAfter
<1> QED BY <1>3, <1>6, <1>7 DEF Results

LEMMA LastTyped == \A s \in Results, u \in Int : LastOf(s, u) \in Int
<1> SUFFICES ASSUME NEW s \in Results, NEW u \in Int PROVE LastOf(s, u) \in Int OBVIOUS
<1>1. s.bytes \in Seq(Int) BY DEF Results
<1>2. CASE s.bytes = <<>> BY <1>2 DEF LastOf
<1>3. CASE s.bytes # <<>>
  <2>1. Len(s.bytes) \in 1 .. Len(s.bytes) BY <1>1, <1>3
  <2> QED BY <1>1, <1>3, <2>1 DEF LastOf
<1> QED BY <1>2, <1>3

LEMMA DeqsTyped ==
  ASSUME RingInv, NEW p \in Positions \cup {Nothing}, total = 0 => p = Nothing,
         NEW size \in Nat \ {0}, NEW n \in Nat
  PROVE  deqs(buffer, head, p, size, n) \in Results
<1>1. CASE p = Nothing
  <2>1. FromStart(Nothing) \in Results
    <3>1. <<>> \in Seq(Int) OBVIOUS
    <3> QED BY <3>1 DEF FromStart, Results
  <2> QED BY <1>1, <2>1, NothingToRead
<1>2. CASE p # Nothing
  <2>1. total > 0 BY <1>2 DEF RingInv, RingShape
  <2>2. FromStart(p) \in Results
    <3>1. <<>> \in Seq(Int) OBVIOUS
    <3> QED BY <3>1 DEF FromStart, Results
  <2>3. ASSUME NEW s \in Results PROVE Again(buffer, head, size, s) \in Results
    <3>1. CASE s.pos = Nothing BY <3>1 DEF Again
    <3>2. CASE s.pos # Nothing
      <4> DEFINE d == deq(buffer, head, s.pos, size)
      <4>1. s.pos \in Positions /\ s.bytes \in Seq(Int) BY <3>2 DEF Results
      <4>2. d \in Results BY <2>1, <4>1, DeqTyped
      <4>3. Again(buffer, head, size, s) = [pos |-> d.pos, bytes |-> s.bytes \o d.bytes]
        BY <3>2 DEF Again
      <4> HIDE DEF d
      <4>4. d.pos \in Positions \cup {Nothing} /\ d.bytes \in Seq(Int) BY <4>2 DEF Results
      <4>5. s.bytes \o d.bytes \in Seq(Int) BY <4>1, <4>4
      <4> QED BY <4>3, <4>4, <4>5 DEF Results
    <3> QED BY <3>1, <3>2
  <2> HIDE DEF Results
  <2> QED BY <2>2, <2>3, Repeating
<1> QED BY <1>1, <1>2

RingTypes ==
  /\ RingTypeOK
  /\ total = 0 => \A r \in DOMAIN readers : readers[r] = Nothing

LEMMA InitTypes == RingInit => RingTypes
<1>1. <<>> \in Seq(Int) OBVIOUS
<1> QED BY <1>1, RingAssumption DEF RingInit, RingTypes, RingTypeOK, Positions, ReaderIds

AllTyped == \A p \in Positions : deq(buffer, head, p, -1) \in Results

LEMMA AllTypedNext == (RingInv /\ total > 0 => AllTyped)'
<1>1. RingInv /\ total > 0 => AllTyped BY DeqTyped DEF AllTyped
<1> QED BY <1>1, PTL

LEMMA TypesRead ==
  ASSUME RingTypes, ReadersInv, NEW r \in DOMAIN readers, NEW s \in Results,
         readers' = [readers EXCEPT ![r] = s.pos], last' = [last EXCEPT ![r] = LastOf(s, @)],
         got' = [got EXCEPT ![r] = GotOf(r, s)],
         more' \in [ReaderIds -> BOOLEAN], behind' \subseteq behind \cup {r},
         UNCHANGED <<ring, readerId, streams, total>>,
         total = 0 => s.pos = Nothing
  PROVE  RingTypes'
<1>1. r \in ReaderIds BY DEF ReadersInv, KnownReaders
<1>2. LastOf(s, last[r]) \in Int BY <1>1, LastTyped DEF RingTypes, RingTypeOK
<1>3. last' \in [ReaderIds -> Int] BY <1>2 DEF RingTypes, RingTypeOK
<1>3a. got' \in [ReaderIds -> Seq(Int)]
  <2>1. got \in [ReaderIds -> Seq(Int)] BY DEF RingTypes, RingTypeOK
  <2>2. s.bytes \in Seq(Int) BY DEF Results
  <2>3. GotOf(r, s) \in Seq(Int) BY <1>1, <2>1, <2>2, ConcatProperties DEF GotOf
  <2> QED BY <2>1, <2>3
<1>4. DOMAIN readers' = DOMAIN readers OBVIOUS
<1>5. \A i \in DOMAIN readers : readers'[i] = IF i = r THEN s.pos ELSE readers[i] OBVIOUS
<1>6. s.pos \in Positions \cup {Nothing} BY DEF Results
<1>7. behind' \subseteq ReaderIds BY <1>1 DEF RingTypes, RingTypeOK
<1>8. \A i \in DOMAIN readers' : readers'[i] \in Positions \cup {Nothing}
  BY <1>4, <1>5, <1>6 DEF RingTypes, RingTypeOK
<1>9. total' = 0 => \A i \in DOMAIN readers' : readers'[i] = Nothing
  BY <1>4, <1>5 DEF RingTypes
<1>10. RingTypeOK' BY <1>3, <1>3a, <1>4, <1>7, <1>8 DEF RingTypes, RingTypeOK
<1> QED BY <1>9, <1>10 DEF RingTypes

LEMMA TypesWritten ==
  ASSUME RingInv, RingInv', RingTypes, ReadersInv, NEW n \in 1 .. maxSize + 1, enq(n)
  PROVE  RingTypes'
<1>0. PICK start : start = IF head = -1 /\ tail = -1 THEN 0 ELSE inc(head, 1).newPos
  OBVIOUS
<1>1. total' = total + n /\ start \in Positions BY <1>0, StartOfWrite
<1> DEFINE size == Lower(n, maxSize)
           pushed == IF head = -1 /\ tail = -1 THEN readers ELSE Pushed(size)
           ready == {r \in streams : more[r]}
           result(r) == deq(buffer', head', Notified(pushed, start)[r], -1)
<1>2. /\ buffer' = Copied(start, size, total')
      /\ tail' = IF head = -1 /\ tail = -1 THEN 0 ELSE NewTail(size)
      /\ readers' = [r \in DOMAIN pushed |->
                       IF r \in ready THEN result(r).pos ELSE Notified(pushed, start)[r]]
      /\ last' = [r \in ReaderIds |-> IF r \in ready THEN LastOf(result(r), last[r]) ELSE last[r]]
      /\ got' = [r \in ReaderIds |-> IF r \in ready THEN GotOf(r, result(r)) ELSE got[r]]
      /\ \E fullNow \in SUBSET ready : more' = [r \in ReaderIds |-> more[r] /\ r \notin fullNow]
      /\ behind' = behind \cup MayBeLeft(n)
      /\ UNCHANGED <<readerId, streams>>
  BY <1>0 DEF enq, onData
<1>3. /\ total \in Nat /\ n \in Nat /\ n > 0 /\ total' \in Nat /\ total' > 0 /\ maxSize \in Nat \ {0}
      /\ size \in Nat /\ size <= n
  BY <1>1, RingAssumption DEF RingInv, RingShape, Lower
<1>4. DOMAIN pushed = DOMAIN readers /\ DOMAIN readers' = DOMAIN readers BY <1>2 DEF Pushed
<1>5. head' \in Positions /\ tail' \in Positions BY <1>3 DEF RingInv, RingShape
<1>6. ASSUME NEW r \in DOMAIN readers PROVE Notified(pushed, start)[r] \in Positions
  <2>1. readers[r] \in Positions \cup {Nothing} BY DEF RingTypes, RingTypeOK
  <2>2. pushed[r] \in Positions \cup {Nothing}
    <3>1. CASE head = -1 /\ tail = -1 BY <2>1, <3>1
    <3>2. CASE ~(head = -1 /\ tail = -1)
      <4>1. NewTail(size) \in Positions BY <1>2, <1>5, <3>2
      <4> HIDE DEF size
      <4> QED BY <2>1, <3>2, <4>1 DEF Pushed
    <3> QED BY <3>1, <3>2
  <2> HIDE DEF pushed
  <2> QED BY <1>1, <1>4, <2>2 DEF Notified
<1>7. ASSUME NEW r \in DOMAIN readers PROVE result(r) \in Results
  <2>1. AllTyped' BY <1>3, AllTypedNext
  <2>2. Notified(pushed, start)[r] \in Positions BY <1>6
  <2> HIDE DEF pushed
  <2> QED BY <2>1, <2>2 DEF AllTyped
<1>8. buffer' \in [Positions -> Nat]
  <2> SUFFICES ASSUME NEW p \in Positions PROVE Copied(start, size, total')[p] \in Nat
    BY <1>2 DEF Copied
  <2>1. (p - start) % maxSize \in 0 .. maxSize - 1
    <3>1. start \in Int /\ p \in Int BY <1>1 DEF Positions
    <3>2. p - start \in Int BY <3>1
    <3> DEFINE d == p - start
    <3> HIDE DEF d
    <3>3. d % maxSize \in 0 .. maxSize - 1 BY <1>3, <3>2 DEF d
    <3> QED BY <3>3 DEF d
  <2> DEFINE offset == (p - start) % maxSize
  <2>2. Copied(start, size, total')[p] = IF offset < size THEN total' - size + 1 + offset ELSE buffer[p]
    BY DEF Copied
  <2>3. buffer[p] \in Nat BY DEF RingTypes, RingTypeOK
  <2> HIDE DEF offset, size
  <2>4. offset \in Nat BY <1>3, <2>1 DEF offset
  <2> QED BY <1>1, <1>3, <2>2, <2>3, <2>4
<1> HIDE DEF pushed, size, result
<1>9. \A r \in DOMAIN readers' : readers'[r] \in Positions \cup {Nothing}
  <2> SUFFICES ASSUME NEW r \in DOMAIN readers PROVE readers'[r] \in Positions \cup {Nothing} BY <1>4
  <2>1. readers'[r] = IF r \in ready THEN result(r).pos ELSE Notified(pushed, start)[r] BY <1>2, <1>4
  <2>2. result(r).pos \in Positions \cup {Nothing} BY <1>7 DEF Results
  <2> QED BY <1>6, <2>1, <2>2
<1>10. last' \in [ReaderIds -> Int]
  <2>1. ASSUME NEW r \in ready PROVE LastOf(result(r), last[r]) \in Int
    <3>1. r \in DOMAIN readers /\ r \in ReaderIds BY DEF ReadersInv, KnownReaders
    <3>2. result(r) \in Results /\ last[r] \in Int BY <1>7, <3>1 DEF RingTypes, RingTypeOK
    <3> QED BY <3>2, LastTyped
  <2> QED BY <1>2, <2>1 DEF RingTypes, RingTypeOK
<1>11. more' \in [ReaderIds -> BOOLEAN] BY <1>2 DEF RingTypes, RingTypeOK
<1>12. behind' \subseteq ReaderIds
  <2>1. MayBeLeft(n) \subseteq DOMAIN readers BY DEF MayBeLeft
  <2> QED BY <1>2, <2>1 DEF RingTypes, RingTypeOK, ReadersInv, KnownReaders
<1>12a. got' \in [ReaderIds -> Seq(Int)]
  <2>0. got \in [ReaderIds -> Seq(Int)] BY DEF RingTypes, RingTypeOK
  <2>1. ASSUME NEW r \in ready PROVE GotOf(r, result(r)) \in Seq(Int)
    <3>1. r \in DOMAIN readers /\ r \in ReaderIds BY DEF ReadersInv, KnownReaders
    <3>2. result(r).bytes \in Seq(Int) BY <1>7, <3>1 DEF Results
    <3> QED BY <2>0, <3>1, <3>2, ConcatProperties DEF GotOf
  <2> QED BY <1>2, <2>0, <2>1
<1>13. RingTypeOK'
  BY <1>2, <1>3, <1>4, <1>5, <1>8, <1>9, <1>10, <1>11, <1>12, <1>12a DEF RingTypes, RingTypeOK
<1> QED BY <1>3, <1>13 DEF RingTypes

LEMMA TypesJoined ==
  ASSUME RingInv, RingTypes, ReadersInv, newReader, streams' \subseteq streams \cup {readerId}
  PROVE  RingTypes'
<1>1. /\ readerId \in ReaderIds /\ readerId' = readerId + 1
      /\ readers' = [r \in DOMAIN readers \cup {readerId} |-> IF r = readerId THEN tail ELSE readers[r]]
      /\ last' = [last EXCEPT ![readerId] = Oldest(total) - 1]
      /\ UNCHANGED <<ring, more, total, got, behind>>
  BY DEF newReader
<1>2. total \in Nat /\ maxSize \in Nat \ {0} /\ MaxReaders \in Nat
  BY RingAssumption DEF RingInv, RingShape
<1>3. readerId \in Nat /\ readerId' \in 0 .. MaxReaders BY <1>1, <1>2 DEF ReaderIds
<1>4. DOMAIN readers' \subseteq 0 .. readerId' - 1
  BY <1>1, <1>3 DEF RingTypes, RingTypeOK
<1>5. Oldest(total) - 1 \in Int BY <1>2 DEF Oldest
<1>6. last' \in [ReaderIds -> Int] BY <1>1, <1>5 DEF RingTypes, RingTypeOK
<1>7. \A r \in DOMAIN readers' : readers'[r] \in Positions \cup {Nothing}
  BY <1>1 DEF RingTypes, RingTypeOK
<1>8. total = 0 => tail = Nothing BY DEF RingInv, RingShape
<1>9. total' = 0 => \A r \in DOMAIN readers' : readers'[r] = Nothing
  BY <1>1, <1>8 DEF RingTypes
<1>10. streams' \subseteq DOMAIN readers' BY <1>1 DEF RingTypes, RingTypeOK
<1>11. RingTypeOK'
  BY <1>1, <1>3, <1>4, <1>6, <1>7, <1>10 DEF RingTypes, RingTypeOK
<1> QED BY <1>9, <1>11 DEF RingTypes

LEMMA EachTyped ==
  RingInv /\ RingInv' /\ ReadersInv /\ RingTypes /\ [RingNext]_ringVars => RingTypes'
<1> SUFFICES ASSUME RingInv, RingInv', ReadersInv, RingTypes, [RingNext]_ringVars PROVE RingTypes'
  OBVIOUS
<1>1. ASSUME NEW n \in 1 .. maxSize + 1, enq(n) PROVE RingTypes' BY <1>1, TypesWritten
<1>2. ASSUME getReader PROVE RingTypes' BY <1>2, TypesJoined DEF getReader
<1>3. ASSUME getStream PROVE RingTypes' BY <1>3, TypesJoined DEF getStream
<1>4. ASSUME NEW r \in DOMAIN readers, NEW size \in ReadSizes, Read(r, size) PROVE RingTypes'
  <2> DEFINE d == deq(buffer, head, readers[r], size)
  <2>1. /\ readers[r] # Nothing /\ size \in {-1} \cup (Nat \ {0})
        /\ readers' = [readers EXCEPT ![r] = d.pos]
        /\ last' = [last EXCEPT ![r] = LastOf(d, @)]
        /\ got' = [got EXCEPT ![r] = GotOf(r, d)]
        /\ behind' \subseteq behind \cup {r} /\ more' = more
        /\ UNCHANGED <<ring, readerId, streams, total>>
    BY <1>4, RingAssumption DEF Read, ReadsPart
  <2>2. readers[r] \in Positions /\ total > 0 BY <2>1 DEF RingTypes, RingTypeOK
  <2>3. d \in Results BY <2>1, <2>2, DeqTyped
  <2>4. more' \in [ReaderIds -> BOOLEAN] BY <2>1 DEF RingTypes, RingTypeOK
  <2>5. total = 0 => d.pos = Nothing BY <2>2
  <2>6. last' = [last EXCEPT ![r] = LastOf(d, last[r])] BY <2>1
  <2> HIDE DEF d
  <2> QED BY <2>1, <2>3, <2>4, <2>5, <2>6, TypesRead
<1>5. ASSUME NEW r \in DOMAIN readers, StreamRead(r) PROVE RingTypes'
  <2>1. PICK n \in 1 .. maxSize + 1 :
           LET result == deqs(buffer, head, readers[r], StreamSize, n) IN
             /\ readers' = [readers EXCEPT ![r] = result.pos]
             /\ last' = [last EXCEPT ![r] = LastOf(result, @)]
             /\ got' = [got EXCEPT ![r] = GotOf(r, result)]
             /\ more' = [more EXCEPT ![r] = TRUE] \/ more' = [more EXCEPT ![r] = FALSE]
    BY <1>5 DEF StreamRead
  <2> DEFINE s == deqs(buffer, head, readers[r], StreamSize, n)
  <2>2. /\ readers' = [readers EXCEPT ![r] = s.pos]
        /\ last' = [last EXCEPT ![r] = LastOf(s, @)]
        /\ got' = [got EXCEPT ![r] = GotOf(r, s)]
        /\ more' = [more EXCEPT ![r] = TRUE] \/ more' = [more EXCEPT ![r] = FALSE]
    BY <2>1
  <2>3. /\ behind' \subseteq behind \cup {r}
        /\ UNCHANGED <<ring, readerId, streams, total>>
    BY <1>5 DEF StreamRead, ReadsPart
  <2>4. StreamSize \in Nat \ {0} /\ n \in Nat BY RingAssumption
  <2>5. readers[r] \in Positions \cup {Nothing} /\ (total = 0 => readers[r] = Nothing)
    BY DEF RingTypes, RingTypeOK
  <2>6. s \in Results BY <2>4, <2>5, DeqsTyped
  <2>7. total = 0 => s.pos = Nothing
    <3>1. readers[r] = Nothing => s = FromStart(Nothing) BY <2>4, NothingToRead
    <3> QED BY <2>5, <3>1 DEF FromStart
  <2>8. more' \in [ReaderIds -> BOOLEAN] BY <2>2 DEF RingTypes, RingTypeOK
  <2> HIDE DEF s
  <2> QED BY <2>2, <2>3, <2>6, <2>7, <2>8, TypesRead
<1>6. ASSUME NEW r \in DOMAIN readers, closeReader(r) PROVE RingTypes'
  BY <1>6 DEF closeReader, history, RingTypes, RingTypeOK
<1>7. CASE UNCHANGED ringVars
  BY <1>7 DEF table, history, RingTypes, RingTypeOK
<1> QED BY <1>1, <1>2, <1>3, <1>4, <1>5, <1>6, <1>7 DEF RingNext

\* RingTypeOK is an invariant: whatever is written and read, the tail and every
\* open reader stand inside the buffer, or have nothing to read.
THEOREM RingTypeCorrect == RingSpec => []RingTypeOK
<1>1. RingInit => RingInv /\ ReadersInv /\ RingTypes BY InitRing, InitReaders, InitTypes
<1>2. RingInv /\ [RingNext]_ringVars => RingInv' BY StepRing
<1>3. RingInv /\ RingInv' /\ ReadersInv /\ [RingNext]_ringVars => ReadersInv' BY EachLogged
<1>4. RingInv /\ RingInv' /\ ReadersInv /\ RingTypes /\ [RingNext]_ringVars => RingTypes' BY EachTyped
<1>5. RingTypes => RingTypeOK BY DEF RingTypes
<1> QED BY <1>1, <1>2, <1>3, <1>4, <1>5, PTL DEF RingSpec
=============================================================================
