-------------------------- MODULE EditorModelProofs --------------------------
(***************************************************************************)
(* For any number of edits, saves, syncs, failures and writes of other     *)
(* programs: changes no save has taken are shown by the dirty mark, or a   *)
(* live save is about to take them; the file and the changes on their way  *)
(* to it are the text; and what was typed is written before it goes.       *)
(***************************************************************************)
EXTENDS EditorModel, WellFoundedInduction, TLAPS

Operations == [op : {"save", "sync"}, live : BOOLEAN]

QueueOK ==
  /\ queue \in Seq(Operations) /\ phase \in Phases
  /\ (phase # "idle" => queue # <<>>)
  /\ dirty \in BOOLEAN /\ alwaysOn \in BOOLEAN

OnWhileAlwaysOn == alwaysOn => autoSave = "on"

\* A live save in q that has not taken the changes yet.
Taker(q, ph) ==
  \E i \in DOMAIN q : q[i].op = "save" /\ q[i].live /\ (i = 1 => ph \in {"idle", "willSave"})

Shown == alwaysOn /\ contentChanges # <<>> => dirty \/ Taker(queue, phase)

\* A live save that took the changes took all there are: an edit after that
\* would have cancelled it.  Without this the end of a save, which clears the
\* dirty mark, could hide an edit.
TookAll ==
  alwaysOn /\ queue # <<>> /\ Head(queue).op = "save" /\ Live /\ phase \notin {"idle", "willSave"}
    => contentChanges = <<>>

IInv == QueueOK /\ OnWhileAlwaysOn /\ Shown /\ TookAll

-----------------------------------------------------------------------------
(* The queue.                                                              *)

\* A cancelled operation is the same one, no longer live.
LEMMA CancelledOperation ==
  ASSUME NEW x \in Operations
  PROVE  /\ [x EXCEPT !.live = FALSE] \in Operations
         /\ [x EXCEPT !.live = FALSE].op = x.op
         /\ ~[x EXCEPT !.live = FALSE].live
BY DEF Operations

\* Cancelling keeps the queue's length and order, and revives nothing.
LEMMA CancelledQueue ==
  ASSUME NEW q \in Seq(Operations), NEW op \in {"save", "sync"}
  PROVE  /\ Cancelled(q, op) \in Seq(Operations)
         /\ DOMAIN Cancelled(q, op) = DOMAIN q
         /\ Len(Cancelled(q, op)) = Len(q)
         /\ \A i \in DOMAIN q :
              /\ Cancelled(q, op)[i].op = q[i].op
              /\ Cancelled(q, op)[i].live => q[i].live
              /\ q[i].op # op => Cancelled(q, op)[i] = q[i]
<1> DEFINE r(i) == IF q[i].op = op THEN [q[i] EXCEPT !.live = FALSE] ELSE q[i]
<1>1. DOMAIN q = 1 .. Len(q) /\ Len(q) \in Nat
  OBVIOUS
<1>2. ASSUME NEW i \in 1 .. Len(q)
      PROVE  r(i) \in Operations
  <2>1. q[i] \in Operations
    BY <1>1
  <2> QED BY <2>1, CancelledOperation
<1>3. Cancelled(q, op) = [i \in 1 .. Len(q) |-> r(i)]
  BY <1>1 DEF Cancelled
<1>4. Cancelled(q, op) \in Seq(Operations) /\ Len(Cancelled(q, op)) = Len(q)
  <2> HIDE DEF r
  <2> QED BY <1>1, <1>2, <1>3
<1>5. \A i \in 1 .. Len(q) :
        /\ r(i).op = q[i].op
        /\ r(i).live => q[i].live
        /\ q[i].op # op => r(i) = q[i]
  <2> SUFFICES ASSUME NEW i \in 1 .. Len(q)
               PROVE  r(i).op = q[i].op /\ (r(i).live => q[i].live)
    OBVIOUS
  <2>1. q[i] \in Operations
    BY <1>1
  <2> QED BY <2>1, CancelledOperation
<1> HIDE DEF r
<1> QED BY <1>1, <1>3, <1>4, <1>5

\* A live save is not lost when syncs are cancelled or operations are added.
LEMMA TakerStays ==
  ASSUME NEW q \in Seq(Operations), NEW ph, Taker(q, ph), NEW x \in Operations
  PROVE  /\ Taker(Cancelled(q, "sync"), ph)
         /\ Taker(Append(q, x), ph)
<1>1. PICK i \in DOMAIN q :
        q[i].op = "save" /\ q[i].live /\ (i = 1 => ph \in {"idle", "willSave"})
  BY DEF Taker
<1>2. /\ i \in DOMAIN Cancelled(q, "sync")
      /\ Cancelled(q, "sync")[i] = q[i]
  BY <1>1, CancelledQueue
<1>3. i \in DOMAIN Append(q, x) /\ Append(q, x)[i] = q[i]
  OBVIOUS
<1> QED BY <1>1, <1>2, <1>3 DEF Taker

\* It moves up as the head of the queue is done, unless it is the head.
LEMMA TakerMovesUp ==
  ASSUME NEW q \in Seq(Operations), NEW ph, q # <<>>, Taker(q, ph),
         ~(Head(q).op = "save" /\ Head(q).live /\ ph \in {"idle", "willSave"})
  PROVE  Taker(Tail(q), "idle")
<1>1. PICK i \in DOMAIN q :
        q[i].op = "save" /\ q[i].live /\ (i = 1 => ph \in {"idle", "willSave"})
  BY DEF Taker
<1>2. i # 1
  BY <1>1
<1>3. i - 1 \in DOMAIN Tail(q) /\ Tail(q)[i - 1] = q[i]
  BY <1>1, <1>2
<1> QED BY <1>1, <1>3 DEF Taker

-----------------------------------------------------------------------------
(* Kinds of steps.                                                         *)

\* A step that leaves the document, the queue and the phase alone.
LEMMA QuietStep ==
  ASSUME IInv, UNCHANGED <<dirty, contentChanges, autoSave, alwaysOn, queue, phase>>
  PROVE  IInv'
BY DEF IInv, QueueOK, OnWhileAlwaysOn, Shown, Taker, TookAll, Live

\* The head of the queue goes on to its next phase.
LEMMA PhaseStep ==
  ASSUME IInv, UNCHANGED <<dirty, contentChanges, autoSave, alwaysOn, queue>>,
         queue # <<>>, phase' \in Phases,
         phase' \in {"idle", "willSave"} <=> phase \in {"idle", "willSave"}
  PROVE  IInv'
BY DEF IInv, QueueOK, OnWhileAlwaysOn, Shown, Taker, TookAll, Live

\* The head of the queue is done.  If it is a live save with the changes still
\* to take, or clears the dirty mark, there are none.
LEMMA FinishStep ==
  ASSUME IInv, Finish, UNCHANGED <<contentChanges, autoSave, alwaysOn>>, queue # <<>>,
         dirty' \in BOOLEAN,
         dirty /\ ~dirty' /\ alwaysOn => contentChanges = <<>>,
         Head(queue).op = "save" /\ Live /\ phase \in {"idle", "willSave"}
           => contentChanges = <<>>
  PROVE  IInv'
<1>1. queue \in Seq(Operations) /\ queue' = Tail(queue) /\ phase' = "idle"
  BY DEF IInv, QueueOK, Finish, Done
<1>2. QueueOK'
  BY <1>1 DEF IInv, QueueOK, Phases
<1>3. Shown'
  <2>1. CASE dirty' \/ ~alwaysOn \/ contentChanges = <<>>
    BY <2>1 DEF Shown
  <2>2. CASE ~dirty' /\ alwaysOn /\ contentChanges # <<>>
    <3>1. ~dirty /\ Taker(queue, phase)
      BY <2>2 DEF IInv, Shown, QueueOK
    <3>2. Taker(Tail(queue), "idle")
      BY <1>1, <2>2, <3>1, TakerMovesUp DEF Live
    <3> QED BY <1>1, <3>2 DEF Shown
  <2> QED BY <2>1, <2>2
<1>4. TookAll'
  BY <1>1 DEF TookAll
<1>5. OnWhileAlwaysOn'
  BY DEF IInv, OnWhileAlwaysOn
<1> QED BY <1>2, <1>3, <1>4, <1>5 DEF IInv

\* An operation is added, after the syncs, or nothing, were cancelled.
LEMMA AddStep ==
  ASSUME IInv, UNCHANGED <<dirty, contentChanges, autoSave, alwaysOn, phase>>,
         NEW x \in Operations,
         \/ queue' = Append(queue, x)
         \/ queue' = Append(Cancelled(queue, "sync"), x)
  PROVE  IInv'
<1>1. queue \in Seq(Operations)
  BY DEF IInv, QueueOK
<1>2. PICK q \in Seq(Operations) :
        /\ queue' = Append(q, x)
        /\ q = queue \/ q = Cancelled(queue, "sync")
  BY <1>1, CancelledQueue
<1>3. /\ Len(q) = Len(queue)
      /\ \A i \in DOMAIN queue : q[i].op = queue[i].op /\ (q[i].live => queue[i].live)
  BY <1>1, <1>2, CancelledQueue
<1>4. queue' \in Seq(Operations) /\ queue' # <<>>
  BY <1>2
<1>5. QueueOK'
  BY <1>4 DEF IInv, QueueOK
<1>6. Shown'
  <2>1. ASSUME Taker(queue, phase) PROVE Taker(queue', phase)
    BY <1>1, <1>2, <2>1, TakerStays
  <2> QED BY <2>1 DEF IInv, Shown
<1>7. TookAll'
  <2>1. CASE queue = <<>>
    BY <2>1 DEF IInv, QueueOK, TookAll
  <2>2. CASE queue # <<>>
    <3>1. Head(queue') = q[1] /\ 1 \in DOMAIN queue /\ Head(queue) = queue[1]
      BY <1>1, <1>2, <1>3, <2>2
    <3> QED BY <1>3, <2>2, <3>1 DEF IInv, TookAll, Live
  <2> QED BY <2>1, <2>2
<1>8. OnWhileAlwaysOn'
  BY DEF IInv, OnWhileAlwaysOn
<1> QED BY <1>5, <1>6, <1>7, <1>8 DEF IInv
-----------------------------------------------------------------------------
(* The steps of the specification.                                         *)

\* Edits of the user and of participants.
LEMMA EditSteps ==
  ASSUME IInv, (\E at \in {0, Len(text)} : Type(at)) \/ ParticipantEdits
  PROVE  IInv'
<1>1. ASSUME NEW at \in {0, Len(text)}, Type(at) PROVE IInv'
  <2>1. queue \in Seq(Operations) /\ queue' = CancelledByEdit(queue) /\ dirty' = TRUE
        /\ UNCHANGED <<autoSave, phase, alwaysOn>>
    BY <1>1 DEF Type, IInv, QueueOK
  <2>2. /\ Cancelled(queue, "sync") \in Seq(Operations)
        /\ Cancelled(Cancelled(queue, "sync"), "save") \in Seq(Operations)
        /\ Len(Cancelled(Cancelled(queue, "sync"), "save")) = Len(queue)
        /\ Len(Cancelled(queue, "sync")) = Len(queue)
    BY <2>1, CancelledQueue
  <2>3. queue' \in Seq(Operations) /\ Len(queue') = Len(queue)
    BY <2>1, <2>2 DEF CancelledByEdit
  <2>4. QueueOK'
    BY <2>1, <2>3 DEF IInv, QueueOK
  <2>5. Shown'
    BY <2>1 DEF Shown
  <2>6. TookAll'
    <3>1. SUFFICES ASSUME alwaysOn, queue' # <<>>, Head(queue').op = "save", Head(queue').live
                   PROVE  FALSE
      BY <2>1 DEF TookAll, Live
    <3>2. queue' = Cancelled(Cancelled(queue, "sync"), "save")
      BY <2>1, <3>1 DEF IInv, OnWhileAlwaysOn, CancelledByEdit
    <3> DEFINE q == Cancelled(queue, "sync")
    <3>3. q \in Seq(Operations) /\ queue' = Cancelled(q, "save") /\ 1 \in DOMAIN q
      BY <2>2, <2>3, <3>1, <3>2
    <3> HIDE DEF q
    <3>4. queue'[1] = IF q[1].op = "save" THEN [q[1] EXCEPT !.live = FALSE] ELSE q[1]
      BY <3>3 DEF Cancelled
    <3>5. Head(queue') = queue'[1] /\ q[1] \in Operations
      BY <2>3, <3>1, <3>3
    <3> QED BY <3>1, <3>4, <3>5, CancelledOperation
  <2>7. OnWhileAlwaysOn'
    BY <2>1 DEF IInv, OnWhileAlwaysOn
  <2> QED BY <2>4, <2>5, <2>6, <2>7 DEF IInv
<1>2. ASSUME ParticipantEdits PROVE IInv'
  <2>1. /\ queue # <<>> /\ Head(queue).op = "save" /\ Head(queue).live /\ phase = "willSave"
        /\ UNCHANGED <<queue, phase, dirty, autoSave, alwaysOn>>
    BY <1>2 DEF ParticipantEdits, Running, Live
  <2>2. Taker(queue, phase)
    <3>1. 1 \in DOMAIN queue /\ Head(queue) = queue[1]
      BY <2>1 DEF IInv, QueueOK
    <3> QED BY <2>1, <3>1 DEF Taker
  <2> QED BY <2>1, <2>2 DEF IInv, QueueOK, OnWhileAlwaysOn, Shown, TookAll, Live, Taker
<1> QED BY <1>1, <1>2

\* Saves and syncs are queued.
LEMMA QueueSteps ==
  ASSUME IInv, TimerFires \/ Save \/ \E s \in probes : Probed(s)
  PROVE  IInv'
<1>0. queue \in Seq(Operations)
  BY DEF IInv, QueueOK
<1>1. ASSUME TimerFires PROVE IInv'
  <2>1. Operation("save", timer = "live") \in Operations
    BY DEF Operation, Operations
  <2> QED BY <1>1, <2>1, AddStep DEF TimerFires, document, history, counters
<1>2. ASSUME NEW s \in probes, Probed(s) PROVE IInv'
  <2>1. Operation("sync", TRUE) \in Operations
    BY DEF Operation, Operations
  <2>2. CASE isInSync(s)
    BY <1>2, <2>2, QuietStep DEF Probed, document, history
  <2>3. CASE ~isInSync(s)
    BY <1>2, <2>1, <2>3, AddStep DEF Probed, document, history
  <2> QED BY <2>2, <2>3
<1>3. ASSUME Save PROVE IInv'
  <2> DEFINE q == Cancelled(queue, "save")
             x == Operation("save", TRUE)
  <2>1. /\ queue' = Append(q, x)
        /\ UNCHANGED <<dirty, contentChanges, autoSave, alwaysOn, phase>>
    BY <1>3 DEF Save, document
  <2>2. /\ q \in Seq(Operations) /\ Len(q) = Len(queue)
        /\ \A i \in DOMAIN queue : q[i].op = queue[i].op /\ (q[i].live => queue[i].live)
    BY <1>0, CancelledQueue
  <2>3. x \in Operations /\ x.op = "save" /\ x.live
    BY DEF Operation, Operations
  <2> HIDE DEF q, x
  <2>4. QueueOK'
    BY <2>1, <2>2, <2>3 DEF IInv, QueueOK
  <2>5. Shown'
    <3>1. /\ Len(q) + 1 \in DOMAIN queue' /\ queue'[Len(q) + 1] = x
          /\ (Len(q) + 1 = 1 => queue = <<>>)
      BY <1>0, <2>1, <2>2, <2>3
    <3>2. queue = <<>> => phase' = "idle"
      BY <2>1 DEF IInv, QueueOK
    <3>3. Taker(queue', phase')
      BY <2>3, <3>1, <3>2 DEF Taker
    <3> QED BY <3>3 DEF Shown
  <2>6. TookAll'
    <3>1. CASE queue = <<>>
      BY <2>1, <3>1 DEF IInv, QueueOK, TookAll
    <3>2. CASE queue # <<>>
      <4>1. Head(queue') = q[1] /\ 1 \in DOMAIN queue /\ Head(queue) = queue[1]
        BY <1>0, <2>1, <2>2, <2>3, <3>2
      <4> QED BY <2>1, <2>2, <3>2, <4>1 DEF IInv, TookAll, Live
    <3> QED BY <3>1, <3>2
  <2>7. OnWhileAlwaysOn'
    BY <2>1 DEF IInv, OnWhileAlwaysOn
  <2> QED BY <2>4, <2>5, <2>6, <2>7 DEF IInv
<1> QED BY <1>1, <1>2, <1>3

\* The steps of syncs: the text may change, the changes do not.
LEMMA SyncSteps ==
  ASSUME IInv, SyncStep
  PROVE  IInv'
<1>0. dirty \in BOOLEAN
  BY DEF IInv, QueueOK
<1>1. ASSUME StartSync PROVE IInv'
  <2>1. /\ queue # <<>> /\ Head(queue).op = "sync" /\ phase = "idle"
        /\ UNCHANGED <<dirty, contentChanges, autoSave, alwaysOn>>
    BY <1>1 DEF StartSync, Running, document
  <2>2. CASE ~Live \/ dirty
    <3>1. Finish
      BY <1>1, <2>2 DEF StartSync
    <3> QED BY <1>0, <2>1, <3>1, FinishStep
  <2>3. CASE ~(~Live \/ dirty)
    <3>1. phase' = "resolveStat" /\ queue' = queue
      BY <1>1, <2>3 DEF StartSync
    <3> QED BY <2>1, <3>1 DEF IInv, QueueOK, Phases, OnWhileAlwaysOn, Shown, Taker, TookAll, Live
  <2> QED BY <2>2, <2>3
<1>2. ASSUME ResolveStat PROVE IInv'
  <2>1. /\ queue # <<>> /\ Head(queue).op = "sync" /\ phase = "resolveStat"
        /\ UNCHANGED <<dirty, contentChanges, autoSave, alwaysOn>>
    BY <1>2 DEF ResolveStat, Running, document
  <2>2. \/ Finish
        \/ phase' = "resolveRead" /\ queue' = queue
    BY <1>2 DEF ResolveStat
  <2> QED BY <1>0, <2>1, <2>2, FinishStep, PhaseStep DEF Phases
<1>3. ASSUME ResolveRead PROVE IInv'
  <2>1. /\ queue # <<>> /\ Head(queue).op = "sync" /\ phase = "resolveRead"
        /\ UNCHANGED <<dirty, contentChanges, autoSave, alwaysOn>>
    BY <1>3 DEF ResolveRead, Running, document
  <2>2. \/ Finish
        \/ phase' = "resolved" /\ queue' = queue
    BY <1>3 DEF ResolveRead
  <2> QED BY <1>0, <2>1, <2>2, FinishStep, PhaseStep DEF Phases
<1>4. ASSUME SyncReply PROVE IInv'
  <2>1. /\ queue # <<>> /\ Head(queue).op = "sync" /\ Finish
        /\ UNCHANGED <<dirty, contentChanges, autoSave, alwaysOn>>
    BY <1>4 DEF SyncReply, Running
  <2> QED BY <1>0, <2>1, FinishStep
<1> QED BY <1>1, <1>2, <1>3, <1>4 DEF SyncStep

\* A save that took its changes goes on, retries with the whole text, or ends.
LEMMA TakenStep ==
  ASSUME IInv, queue # <<>>, phase \notin {"idle", "willSave"},
         UNCHANGED <<dirty, contentChanges, autoSave, alwaysOn>>,
         \/ ChangesFailed
         \/ GiveUp
         \/ Finish
         \/ queue' = queue /\ phase' \in Phases \ {"idle", "willSave"}
  PROVE  IInv'
<1>1. \/ Finish
      \/ queue' = queue /\ phase' \in Phases \ {"idle", "willSave"}
  BY DEF ChangesFailed, GiveUp, Phases
<1>2. dirty' \in BOOLEAN
  BY DEF IInv, QueueOK
<1> QED BY <1>1, <1>2, FinishStep, PhaseStep

\* A save that succeeded clears the mark only if it is live, and then TookAll.
LEMMA SavedStep ==
  ASSUME IInv, Saved, queue # <<>>, Head(queue).op = "save",
         phase \notin {"idle", "willSave"}, UNCHANGED <<contentChanges, autoSave, alwaysOn>>
  PROVE  IInv'
<1>1. Finish /\ dirty' = (dirty /\ ~Live)
  BY DEF Saved
<1>2. dirty' \in BOOLEAN
  BY <1>1
<1>3. dirty /\ ~dirty' /\ alwaysOn => contentChanges = <<>>
  BY <1>1 DEF IInv, TookAll
<1> QED BY <1>1, <1>2, <1>3, FinishStep

LEMMA SaveSteps ==
  ASSUME IInv, SaveStep
  PROVE  IInv'
<1>0. dirty \in BOOLEAN
  BY DEF IInv, QueueOK
<1>1. ASSUME StartSave PROVE IInv'
  <2>1. /\ queue # <<>> /\ phase = "idle"
        /\ UNCHANGED <<dirty, contentChanges, autoSave, alwaysOn>>
    BY <1>1 DEF StartSave, Running, document
  <2>2. \/ Live /\ phase' = "willSave" /\ queue' = queue
        \/ ~Live /\ Finish
    BY <1>1 DEF StartSave
  <2> QED BY <1>0, <2>1, <2>2, FinishStep, PhaseStep DEF Phases
<1>2. ASSUME PopChanges PROVE IInv'
  <2>1. /\ queue # <<>> /\ phase = "willSave"
        /\ UNCHANGED <<dirty, autoSave, alwaysOn>>
    BY <1>2 DEF PopChanges, Running
  <2>2. CASE Live /\ contentChanges # <<>>
    <3>1. contentChanges' = <<>> /\ queue' = queue /\ phase' \in {"update", "getStat"}
      BY <1>2, <2>2 DEF PopChanges, ClearedChanges
    <3> QED BY <2>1, <3>1 DEF IInv, QueueOK, Phases, OnWhileAlwaysOn, Shown, TookAll
  <2>3. CASE ~(Live /\ contentChanges # <<>>)
    <3>1. Finish /\ contentChanges' = contentChanges
      BY <1>2, <2>3 DEF PopChanges
    <3> QED BY <1>0, <2>1, <2>3, <3>1, FinishStep
  <2> QED BY <2>2, <2>3
<1>3. ASSUME UpdateCheck PROVE IInv'
  <2>1. /\ queue # <<>> /\ phase = "update"
        /\ UNCHANGED <<dirty, contentChanges, autoSave, alwaysOn>>
        /\ ChangesFailed \/ (queue' = queue /\ phase' = "updateWrite")
    BY <1>3 DEF UpdateCheck, Running, document
  <2> QED BY <2>1, TakenStep DEF Phases
<1>4. ASSUME UpdateWrite PROVE IInv'
  <2>1. /\ queue # <<>> /\ phase = "updateWrite"
        /\ UNCHANGED <<dirty, contentChanges, autoSave, alwaysOn>>
        /\ ChangesFailed \/ (queue' = queue /\ phase' = "updateStat")
    BY <1>4 DEF UpdateWrite, Running, document
  <2> QED BY <2>1, TakenStep DEF Phases
<1>5. ASSUME UpdateStat PROVE IInv'
  <2>1. /\ queue # <<>> /\ Head(queue).op = "save" /\ phase = "updateStat"
        /\ UNCHANGED <<contentChanges, autoSave, alwaysOn>>
        /\ Saved \/ (ChangesFailed /\ dirty' = dirty)
    BY <1>5 DEF UpdateStat, Running
  <2> QED BY <2>1, SavedStep, TakenStep
<1>6. ASSUME GetStat PROVE IInv'
  <2>1. /\ queue # <<>> /\ phase = "getStat"
        /\ UNCHANGED <<dirty, contentChanges, autoSave, alwaysOn, queue>>
        /\ phase' \in {"setCheck", "create"}
    BY <1>6 DEF GetStat, Running, document, history
  <2> QED BY <2>1, TakenStep DEF Phases
<1>7. ASSUME SetCheck PROVE IInv'
  <2>1. /\ queue # <<>> /\ phase = "setCheck"
        /\ UNCHANGED <<dirty, contentChanges, autoSave, alwaysOn>>
        /\ GiveUp \/ (queue' = queue /\ phase' = "setWrite")
    BY <1>7 DEF SetCheck, Running, document
  <2> QED BY <2>1, TakenStep DEF Phases
<1>8. ASSUME CreateCheck PROVE IInv'
  <2>1. /\ queue # <<>> /\ phase = "create"
        /\ UNCHANGED <<dirty, contentChanges, autoSave, alwaysOn>>
        /\ GiveUp \/ (queue' = queue /\ phase' = "setWrite")
    BY <1>8 DEF CreateCheck, Running, document
  <2> QED BY <2>1, TakenStep DEF Phases
<1>9. ASSUME SetWrite PROVE IInv'
  <2>1. /\ queue # <<>> /\ phase = "setWrite"
        /\ UNCHANGED <<dirty, contentChanges, autoSave, alwaysOn, queue>>
        /\ phase' = "setStat"
    BY <1>9 DEF SetWrite, Running, document
  <2> QED BY <2>1, TakenStep DEF Phases
<1>10. ASSUME SetStat PROVE IInv'
  <2>1. /\ queue # <<>> /\ Head(queue).op = "save" /\ phase = "setStat"
        /\ UNCHANGED <<contentChanges, autoSave, alwaysOn>>
        /\ Saved \/ (GiveUp /\ dirty' = dirty)
    BY <1>10 DEF SetStat, Running
  <2> QED BY <2>1, SavedStep, TakenStep
<1> QED BY <1>1, <1>2, <1>3, <1>4, <1>5, <1>6, <1>7, <1>8, <1>9, <1>10 DEF SaveStep

-----------------------------------------------------------------------------
LEMMA InitHolds ==
  ASSUME Init
  PROVE  IInv
<1>1. queue = <<>> /\ phase = "idle" /\ dirty = FALSE /\ contentChanges = <<>>
      /\ alwaysOn = (autoSave = "on")
  BY DEF Init
<1>2. QueueOK
  <2>1. alwaysOn \in BOOLEAN
    BY <1>1
  <2>2. phase \in Phases
    BY <1>1 DEF Phases
  <2>3. queue \in Seq(Operations)
    BY <1>1
  <2> QED BY <1>1, <2>1, <2>2, <2>3 DEF QueueOK
<1>3. OnWhileAlwaysOn
  BY <1>1 DEF OnWhileAlwaysOn
<1>4. Shown /\ TookAll
  BY <1>1 DEF Shown, TookAll
<1> QED BY <1>2, <1>3, <1>4 DEF IInv

LEMMA NextKeeps ==
  ASSUME IInv, [Next]_vars
  PROVE  IInv'
<1>1. ASSUME NEW value \in AutoSaves, SetAutoSave(value) PROVE IInv'
  BY <1>1 DEF SetAutoSave, document, IInv, QueueOK, OnWhileAlwaysOn, Shown, Taker, TookAll, Live
<1>2. ASSUME CallFails PROVE IInv'
  <2>1. /\ UNCHANGED <<dirty, contentChanges, autoSave, alwaysOn>>
        /\ phase \notin {"idle", "willSave"}
        /\ ChangesFailed \/ GiveUp \/ Finish
    BY <1>2 DEF CallFails, document
  <2>2. queue # <<>>
    BY <2>1 DEF IInv, QueueOK
  <2> QED BY <2>1, <2>2, TakenStep
<1>3. ASSUME Watched \/ ForeignWrites \/ ForeignDeletes \/ UNCHANGED vars PROVE IInv'
  <2>1. UNCHANGED <<dirty, contentChanges, autoSave, alwaysOn, queue, phase>>
    BY <1>3 DEF Watched, ForeignWrites, ForeignDeletes, vars, document, history
  <2> QED BY <2>1, QuietStep
<1> QED BY <1>1, <1>2, <1>3, EditSteps, QueueSteps, SyncSteps, SaveSteps DEF Next

\* With auto save on, changes not yet handed to a save are shown by the dirty
\* mark, or a live save will take them: whatever edits arrive while saves and
\* syncs await the file system (doSave, doSync, markAsDirty).
THEOREM EditsShown == Spec => []UnsavedIsShown
<1>1. IInv => UnsavedIsShown
  BY DEF IInv, Shown, Taker, UnsavedIsShown
<1> QED BY <1>1, InitHolds, NextKeeps, PTL DEF Spec

-----------------------------------------------------------------------------
(* Types.                                                                  *)

Stats == Nat \cup {NoStat}

\* The variables that QueueOK leaves out.
OthersOK ==
  /\ autoSave \in {"on", "off"} /\ timer \in {"none", "live", "cancelled"}
  /\ seen \in Stats /\ stat \in Stats /\ probes \subseteq Stats
  /\ file.exists \in BOOLEAN /\ file.version \in Nat /\ event \in BOOLEAN
  /\ edits \in 0 .. MaxEdits /\ foreign \in 0 .. MaxForeign /\ failures \in 0 .. MaxFailures
  /\ saves \in 0 .. MaxSaves /\ typed \subseteq 1 .. edits
  /\ dropped \in BOOLEAN /\ stranded \in BOOLEAN /\ unseen \in BOOLEAN

\* The end of an operation, in success or not, sets its locals back.
LEMMA EndTypes ==
  ASSUME OthersOK, Finish \/ GiveUp \/ ChangesFailed \/ Saved
  PROVE  /\ seen' \in Stats
         /\ GiveUp \/ ChangesFailed => dropped' \in BOOLEAN
         /\ Saved => stat' \in Stats
<1>1. NoStat \in Stats /\ Stat \in Stats
  BY DEF OthersOK, Stats, Stat
<1>2. seen' \in Stats
  BY <1>1 DEF Finish, GiveUp, ChangesFailed, Saved, Done, OthersOK, local
<1>3. GiveUp \/ ChangesFailed => dropped' \in BOOLEAN
  BY DEF GiveUp, ChangesFailed, OthersOK
<1>4. Saved => stat' \in Stats
  BY <1>1 DEF Saved
<1> QED BY <1>2, <1>3, <1>4

LEMMA FileFields ==
  ASSUME NEW b \in BOOLEAN, NEW v, NEW t
  PROVE  LET f == [exists |-> b, version |-> v, content |-> t] IN f.exists = b /\ f.version = v
  OBVIOUS

LEMMA OthersKept ==
  ASSUME OthersOK, [Next]_vars
  PROVE  OthersOK'
<1>0. NoStat \in Stats /\ Stat \in Stats /\ AutoSaves \subseteq {"on", "off"}
      /\ MaxEdits \in Nat /\ MaxForeign \in Nat /\ MaxFailures \in Nat /\ MaxSaves \in Nat
      /\ edits \in Nat /\ foreign \in Nat /\ failures \in Nat /\ saves \in Nat
  BY EditorAssumption DEF OthersOK, Stats, Stat
<1>1. ASSUME NEW at \in {0, Len(text)}, Type(at) PROVE OthersOK'
  BY <1>0, <1>1 DEF Type, OthersOK, local, resource, TimerAfterEdit
<1>2. ASSUME NEW value \in AutoSaves, SetAutoSave(value) PROVE OthersOK'
  BY <1>0, <1>2 DEF SetAutoSave, OthersOK, local, resource, counters
<1>3. ASSUME TimerFires \/ Watched \/ UNCHANGED vars \/ \E s \in probes : Probed(s)
      PROVE  OthersOK'
  BY <1>3 DEF TimerFires, Watched, Probed, vars, OthersOK, local, resource, history, counters
<1>4. ASSUME Save PROVE OthersOK'
  BY <1>0, <1>4 DEF Save, OthersOK, local, resource
<1>5. ASSUME ParticipantEdits PROVE OthersOK'
  BY <1>0, <1>5 DEF ParticipantEdits, OthersOK, local, resource
<1>6. ASSUME ForeignWrites \/ ForeignDeletes PROVE OthersOK'
  <2>1. ASSUME ForeignWrites PROVE file'.exists = TRUE /\ file'.version = file.version + 1
    <3> DEFINE t == <<-(foreign + 1)>>
    <3>1. file' = [exists |-> TRUE, version |-> file.version + 1, content |-> t]
      BY <2>1 DEF ForeignWrites, WriteFile
    <3> HIDE DEF t
    <3> QED BY <3>1, FileFields
  <2>2. ASSUME ForeignDeletes PROVE file'.exists = FALSE /\ file'.version = file.version + 1
    BY <2>2, FileFields DEF ForeignDeletes
  <2>3. ASSUME ForeignWrites PROVE OthersOK'
    BY <1>0, <2>1, <2>3 DEF ForeignWrites, WriteFile, OthersOK, local, resource
  <2>4. ASSUME ForeignDeletes PROVE OthersOK'
    BY <1>0, <2>2, <2>4 DEF ForeignDeletes, OthersOK, local, resource
  <2> QED BY <1>6, <2>3, <2>4
<1>7. ASSUME SyncStep PROVE OthersOK'
  <2>1. ASSUME StartSync PROVE OthersOK'
    <3>1. seen' \in Stats
      BY <2>1, EndTypes DEF StartSync, OthersOK, local
    <3> QED BY <2>1, <3>1 DEF StartSync, OthersOK, resource, counters
  <2>2. ASSUME ResolveStat PROVE OthersOK'
    <3>1. seen' \in Stats /\ stat' \in Stats
      BY <1>0, <2>2, EndTypes DEF ResolveStat, OthersOK
    <3> QED BY <2>2, <3>1 DEF ResolveStat, OthersOK, counters
  <2>3. ASSUME ResolveRead PROVE OthersOK'
    <3>1. seen' \in Stats
      BY <2>3, EndTypes DEF ResolveRead, OthersOK
    <3> QED BY <2>3, <3>1 DEF ResolveRead, OthersOK, resource, counters
  <2>4. ASSUME SyncReply PROVE OthersOK'
    <3>1. seen' \in Stats
      BY <2>4, EndTypes DEF SyncReply
    <3>2. stat' \in Stats /\ unseen' \in BOOLEAN
      BY <2>4 DEF SyncReply, OthersOK
    <3> QED BY <2>4, <3>1, <3>2 DEF SyncReply, OthersOK, counters
  <2> QED BY <1>7, <2>1, <2>2, <2>3, <2>4 DEF SyncStep
<1>8. ASSUME SaveStep PROVE OthersOK'
  <2>1. ASSUME StartSave PROVE OthersOK'
    <3>1. seen' \in Stats
      BY <2>1, EndTypes DEF StartSave, OthersOK, local
    <3> QED BY <2>1, <3>1 DEF StartSave, OthersOK, resource, counters
  <2>2. ASSUME PopChanges PROVE OthersOK'
    <3>1. seen' \in Stats /\ stranded' \in BOOLEAN
      BY <2>2, EndTypes DEF PopChanges, OthersOK
    <3> QED BY <2>2, <3>1 DEF PopChanges, OthersOK, resource, counters
  <2>3. ASSUME UpdateCheck \/ SetCheck \/ CreateCheck PROVE OthersOK'
    <3>1. seen' \in Stats /\ dropped' \in BOOLEAN
      BY <2>3, EndTypes DEF UpdateCheck, SetCheck, CreateCheck, OthersOK, local
    <3> QED BY <2>3, <3>1 DEF UpdateCheck, SetCheck, CreateCheck, OthersOK, resource, counters
  <2>4. ASSUME UpdateWrite PROVE OthersOK'
    <3>1. seen' \in Stats /\ dropped' \in BOOLEAN
      BY <2>4, EndTypes DEF UpdateWrite, OthersOK
    <3>2. file'.exists \in BOOLEAN /\ file'.version \in Nat /\ event' \in BOOLEAN
          /\ unseen' \in BOOLEAN
      <4>1. CASE file.exists
        <5> DEFINE t == applyContentChanges(file.content, changes)
        <5>1. file' = [exists |-> TRUE, version |-> file.version + 1, content |-> t]
              /\ event' = TRUE /\ unseen' = FALSE
          BY <2>4, <4>1 DEF UpdateWrite, WriteFile
        <5> HIDE DEF t
        <5>2. file'.exists = TRUE /\ file'.version = file.version + 1
          BY <5>1, FileFields
        <5>3. file'.version \in Nat
          BY <5>2 DEF OthersOK
        <5>4. file'.exists \in BOOLEAN /\ event' \in BOOLEAN /\ unseen' \in BOOLEAN
          BY <5>1, <5>2, Zenon
        <5> QED BY <5>3, <5>4
      <4>2. CASE ~file.exists
        BY <2>4, <4>2 DEF UpdateWrite, OthersOK
      <4> QED BY <4>1, <4>2
    <3> QED BY <2>4, <3>1, <3>2 DEF UpdateWrite, OthersOK, resource, counters
  <2>5. ASSUME UpdateStat \/ SetStat PROVE OthersOK'
    <3>1. seen' \in Stats /\ stat' \in Stats /\ dropped' \in BOOLEAN
      BY <2>5, EndTypes DEF UpdateStat, SetStat, OthersOK
    <3> QED BY <2>5, <3>1 DEF UpdateStat, SetStat, OthersOK, counters
  <2>6. ASSUME GetStat PROVE OthersOK'
    BY <1>0, <2>6 DEF GetStat, OthersOK, resource, history, counters
  <2>7. ASSUME SetWrite PROVE OthersOK'
    <3>1. file'.exists \in BOOLEAN /\ file'.version \in Nat /\ event' \in BOOLEAN
      BY <2>7 DEF SetWrite, WriteFile, OthersOK
    <3> QED BY <2>7, <3>1 DEF SetWrite, OthersOK, resource, counters
  <2> QED BY <1>8, <2>1, <2>2, <2>3, <2>4, <2>5, <2>6, <2>7 DEF SaveStep
<1>9. ASSUME CallFails PROVE OthersOK'
  <2>1. failures' \in 0 .. MaxFailures
    BY <1>0, <1>9 DEF CallFails
  <2>2. seen' \in Stats /\ dropped' \in BOOLEAN
    BY <1>9, EndTypes DEF CallFails, OthersOK
  <2> QED BY <1>9, <2>1, <2>2 DEF CallFails, OthersOK, resource
<1> QED BY <1>1, <1>2, <1>3, <1>4, <1>5, <1>6, <1>7, <1>8, <1>9 DEF Next

LEMMA OthersStart ==
  ASSUME Init
  PROVE  OthersOK
<1>1. file.exists = TRUE /\ file.version = 0
  BY DEF Init
<1>2. autoSave \in {"on", "off"} /\ MaxEdits \in Nat /\ MaxForeign \in Nat
      /\ MaxFailures \in Nat /\ MaxSaves \in Nat
  BY EditorAssumption DEF Init
<1>3. edits = 0 /\ foreign = 0 /\ failures = 0 /\ saves = 0 /\ typed = {} /\ timer = "none"
      /\ seen = NoStat /\ stat = 0 /\ probes = {} /\ event = FALSE
      /\ dropped = FALSE /\ stranded = FALSE /\ unseen = FALSE
  BY DEF Init
<1>4. /\ file.exists \in BOOLEAN /\ event \in BOOLEAN
      /\ dropped \in BOOLEAN /\ stranded \in BOOLEAN /\ unseen \in BOOLEAN
  BY <1>1, <1>3, Zenon
<1>5. /\ edits \in 0 .. MaxEdits /\ foreign \in 0 .. MaxForeign
      /\ failures \in 0 .. MaxFailures /\ saves \in 0 .. MaxSaves
  BY <1>2, <1>3
<1>6. seen \in Stats /\ stat \in Stats /\ probes \subseteq Stats /\ file.version \in Nat
  BY <1>1, <1>3 DEF Stats
<1> QED BY <1>2, <1>3, <1>4, <1>5, <1>6 DEF OthersOK

-----------------------------------------------------------------------------
(* Texts and changes.                                                      *)

Atoms(cs) == {cs[i].atom : i \in DOMAIN cs}

LEMMA LessIsWellFounded == IsWellFoundedOn({p \in Nat \X Nat : p[1] < p[2]}, Nat)
BY Zenon, NatLessThanWellFounded DEF OpToRel

\* A set of natural numbers that is not empty has a least element: with it the
\* changes are followed from the first one on.
LEMMA LeastElement ==
  ASSUME NEW T, T \subseteq Nat, T # {}
  PROVE  \E m \in T : \A k \in T : m <= k
<1> DEFINE R == {p \in Nat \X Nat : p[1] < p[2]}
<1>1. IsWellFoundedOn(R, Nat) BY LessIsWellFounded
<1>2. \A x, y \in Nat : y < x => <<y, x>> \in R OBVIOUS
<1> HIDE DEF R
<1>3. PICK m \in T : \A k \in T : ~(<<k, m>> \in R)
  BY <1>1, WFMin
<1>4. \A k \in T : ~(k < m) BY <1>2, <1>3
<1> QED BY <1>4

LEMMA SetOfSequence ==
  ASSUME NEW T, NEW s \in Seq(T), NEW t \in Seq(T)
  PROVE  /\ ToSet(s) \subseteq T
         /\ ToSet(s \o t) = ToSet(s) \cup ToSet(t)
<1>1. /\ DOMAIN s = 1 .. Len(s) /\ DOMAIN t = 1 .. Len(t) /\ DOMAIN (s \o t) = 1 .. Len(s) + Len(t)
      /\ Len(s) \in Nat /\ Len(t) \in Nat
  OBVIOUS
<1>2. \A i \in 1 .. Len(s) : (s \o t)[i] = s[i] /\ s[i] \in T OBVIOUS
<1>3. \A i \in Len(s) + 1 .. Len(s) + Len(t) : (s \o t)[i] = t[i - Len(s)] OBVIOUS
<1>4. ASSUME NEW x \in ToSet(s \o t) PROVE x \in ToSet(s) \cup ToSet(t)
  <2>1. PICK i \in 1 .. Len(s) + Len(t) : x = (s \o t)[i] BY <1>1 DEF ToSet
  <2>2. CASE i <= Len(s) BY <1>1, <1>2, <2>1, <2>2 DEF ToSet
  <2>3. CASE ~(i <= Len(s))
    <3>1. i - Len(s) \in 1 .. Len(t) /\ x = t[i - Len(s)] BY <1>1, <1>3, <2>1, <2>3
    <3> QED BY <1>1, <3>1 DEF ToSet
  <2> QED BY <2>2, <2>3
<1>5. ASSUME NEW x \in ToSet(s) PROVE x \in ToSet(s \o t) /\ x \in T
  <2>1. PICK i \in 1 .. Len(s) : x = s[i] BY <1>1 DEF ToSet
  <2>2. i \in 1 .. Len(s) + Len(t) /\ x = (s \o t)[i] BY <1>1, <1>2, <2>1
  <2> QED BY <1>1, <1>2, <2>1, <2>2 DEF ToSet
<1>6. ASSUME NEW x \in ToSet(t) PROVE x \in ToSet(s \o t)
  <2>1. PICK i \in 1 .. Len(t) : x = t[i] BY <1>1 DEF ToSet
  <2>2. Len(s) + i \in Len(s) + 1 .. Len(s) + Len(t) /\ (Len(s) + i) - Len(s) = i BY <1>1
  <2>3. x = (s \o t)[Len(s) + i] BY <1>3, <2>1, <2>2
  <2>4. Len(s) + i \in 1 .. Len(s) + Len(t) BY <1>1
  <2> QED BY <1>1, <2>3, <2>4 DEF ToSet
<1> QED BY <1>4, <1>5, <1>6

\* A change adds its atom and takes nothing away.
LEMMA Inserted ==
  ASSUME NEW t \in Seq(Int), NEW c \in Changes
  PROVE  /\ Insert(t, c) \in Seq(Int)
         /\ ToSet(t) \subseteq ToSet(Insert(t, c)) /\ c.atom \in ToSet(Insert(t, c))
<1>1. c.at \in Nat /\ c.atom \in Int BY DEF Changes
<1> DEFINE at == IF c.at < Len(t) THEN c.at ELSE Len(t)
<1>2. at \in 0 .. Len(t) /\ Len(t) \in Nat BY <1>1
<1>3. Insert(t, c) = SubSeq(t, 1, at) \o <<c.atom>> \o SubSeq(t, at + 1, Len(t)) BY DEF Insert
<1> HIDE DEF at
<1> DEFINE a == SubSeq(t, 1, at)
           b == <<c.atom>>
           d == SubSeq(t, at + 1, Len(t))
<1>4. /\ a \in Seq(Int) /\ b \in Seq(Int) /\ d \in Seq(Int) /\ a \o b \in Seq(Int)
      /\ Len(a) = at /\ Len(d) = Len(t) - at
  BY <1>1, <1>2
<1>5. \A i \in 1 .. at : a[i] = t[i] BY <1>2
<1>6. \A i \in 1 .. Len(t) - at : d[i] = t[at + i] BY <1>2
<1>7. ToSet(Insert(t, c)) = ToSet(a) \cup ToSet(b) \cup ToSet(d)
  <2> HIDE DEF a, b, d
  <2>1. ToSet(a \o b) = ToSet(a) \cup ToSet(b) BY <1>4, SetOfSequence
  <2> DEFINE ab == a \o b
  <2>2. ToSet(ab \o d) = ToSet(ab) \cup ToSet(d)
    <3> ab \in Seq(Int) BY <1>4
    <3> HIDE DEF ab
    <3> QED BY <1>4, SetOfSequence
  <2> QED BY <1>3, <2>1, <2>2 DEF a, b, d
<1>8. ASSUME NEW x \in ToSet(t) PROVE x \in ToSet(a) \cup ToSet(d)
  <2>1. PICK i \in 1 .. Len(t) : x = t[i] BY <1>2 DEF ToSet
  <2>2. CASE i <= at
    <3>1. i \in DOMAIN a /\ a[i] = x BY <1>2, <1>4, <1>5, <2>1, <2>2
    <3> QED BY <3>1 DEF ToSet
  <2>3. CASE ~(i <= at)
    <3>1. PICK k \in 1 .. Len(t) - at : at + k = i
      <4>1. i - at \in 1 .. Len(t) - at /\ at + (i - at) = i BY <1>2, <2>3
      <4> QED BY <4>1
    <3>2. DOMAIN d = 1 .. Len(t) - at BY <1>2
    <3> HIDE DEF d
    <3>3. k \in DOMAIN d /\ d[k] = x BY <1>6, <2>1, <3>1, <3>2
    <3> QED BY <3>3 DEF ToSet
  <2> QED BY <2>2, <2>3
<1>9. c.atom \in ToSet(b)
  <2>1. 1 \in DOMAIN b /\ b[1] = c.atom OBVIOUS
  <2> QED BY <2>1 DEF ToSet
<1>10. Insert(t, c) \in Seq(Int)
  <2> HIDE DEF a, b, d
  <2>1. (a \o b) \o d \in Seq(Int) BY <1>4
  <2> QED BY <1>3, <2>1 DEF a, b, d
<1> QED BY <1>7, <1>8, <1>9, <1>10

LEMMA InsertedAtEnd ==
  ASSUME NEW t \in Seq(Int), NEW n \in Int
  PROVE  Insert(t, [at |-> Len(t), atom |-> n]) = Append(t, n)
<1>1. Len(t) \in Nat OBVIOUS
<1>2. Insert(t, [at |-> Len(t), atom |-> n]) = SubSeq(t, 1, Len(t)) \o <<n>> \o SubSeq(t, Len(t) + 1, Len(t))
  BY <1>1 DEF Insert
<1>3. SubSeq(t, 1, Len(t)) = t /\ SubSeq(t, Len(t) + 1, Len(t)) = <<>> BY <1>1
<1>4. (t \o <<n>>) \o <<>> = Append(t, n) OBVIOUS
<1> QED BY <1>2, <1>3, <1>4

-----------------------------------------------------------------------------
(* The changes one after the other.                                        *)

\* f lists the texts that the changes lead through, from t on.
Leads(f, t, cs) == f[0] = t /\ \A n \in 1 .. Len(cs) : f[n] = Insert(f[n - 1], cs[n])

\* f is the function that applyContentChanges defines.
IsPath(f, t, cs, last) == f = [n \in 0 .. last |-> IF n = 0 THEN t ELSE Insert(f[n - 1], cs[n])]

LEMMA StepsExist ==
  ASSUME NEW t, NEW cs, NEW last \in Nat
  PROVE  \E f : IsPath(f, t, cs, last)
<1> DEFINE Is(f, m) == f = [n \in 0 .. m |-> IF n = 0 THEN t ELSE Insert(f[n - 1], cs[n])]
           Without == {m \in Nat : ~ \E f : Is(f, m)}
<1>1. SUFFICES ASSUME Without # {} PROVE FALSE
  <2>1. CASE Without = {}
    <3>1. last \notin Without BY <2>1
    <3>2. \E f : Is(f, last) BY <3>1
    <3> QED BY <3>2 DEF IsPath
  <2> QED BY <2>1
<1>2. PICK m \in Without : \A k \in Without : m <= k
  BY <1>1, LeastElement
<1>3. m \in Nat /\ ~ \E f : Is(f, m) OBVIOUS
<1>4. CASE m = 0
  <2> DEFINE f == [n \in 0 .. 0 |-> t]
  <2>1. 0 .. 0 = {0} OBVIOUS
  <2>2. Is(f, 0) BY <2>1
  <2> QED BY <1>3, <1>4, <2>2
<1>5. CASE m > 0
  <2>1. m - 1 \in Nat /\ m - 1 \notin Without
    <3> HIDE DEF Without
    <3> QED BY <1>2, <1>3, <1>5
  <2>2. PICK f : Is(f, m - 1) BY <2>1
  <2> DEFINE g == [n \in 0 .. m |-> IF n = m THEN Insert(f[m - 1], cs[m]) ELSE f[n]]
  <2>3. \A n \in 0 .. m : g[n] = IF n = 0 THEN t ELSE Insert(g[n - 1], cs[n])
    <3> SUFFICES ASSUME NEW n \in 0 .. m
                 PROVE  g[n] = IF n = 0 THEN t ELSE Insert(g[n - 1], cs[n])
      OBVIOUS
    <3>1. CASE n = m BY <1>3, <1>5, <3>1
    <3>2. CASE n # m
      <4>1. n \in 0 .. m - 1 /\ (n # 0 => n - 1 \in 0 .. m - 1) BY <1>3, <3>2
      <4>2. f[n] = IF n = 0 THEN t ELSE Insert(f[n - 1], cs[n]) BY <2>2, <4>1
      <4>3. g[n] = f[n] /\ (n # 0 => g[n - 1] = f[n - 1]) BY <1>3, <3>2, <4>1
      <4> QED BY <4>2, <4>3
    <3> QED BY <3>1, <3>2
  <2>4. Is(g, m)
    <3> DEFINE val(n) == IF n = 0 THEN t ELSE Insert(g[n - 1], cs[n])
    <3>1. g = [n \in 0 .. m |-> g[n]] OBVIOUS
    <3> HIDE DEF g
    <3>2. g = [n \in 0 .. m |-> val(n)] BY <2>3, <3>1
    <3> QED BY <3>2
  <2> QED BY <1>3, <2>4
<1> QED BY <1>3, <1>4, <1>5

\* applyContentChanges leads through such texts, and there is one way only.
LEMMA AppliedSteps ==
  ASSUME NEW t, NEW cs, Len(cs) \in Nat
  PROVE  \E f : Leads(f, t, cs) /\ applyContentChanges(t, cs) = f[Len(cs)]
<1> DEFINE last == Len(cs)
<1>1. last \in Nat OBVIOUS
<1>2. applyContentChanges(t, cs) =
        (CHOOSE f : f = [n \in 0 .. last |-> IF n = 0 THEN t ELSE Insert(f[n - 1], cs[n])])[last]
  BY DEF applyContentChanges
<1> HIDE DEF last
<1> DEFINE Is(f) == f = [n \in 0 .. last |-> IF n = 0 THEN t ELSE Insert(f[n - 1], cs[n])]
           path == CHOOSE f : Is(f)
<1>3. Is(path)
  <2>1. PICK f : IsPath(f, t, cs, last) BY <1>1, StepsExist
  <2>2. Is(f) BY <2>1 DEF IsPath
  <2> HIDE DEF Is
  <2> QED BY <2>2
<1>4. applyContentChanges(t, cs) = path[last] BY <1>2
<1> HIDE DEF path
<1>5. Leads(path, t, cs) BY <1>1, <1>3 DEF Leads, last
<1> QED BY <1>4, <1>5 DEF last

LEMMA AppliedIs ==
  ASSUME NEW t, NEW cs, Len(cs) \in Nat, NEW g, Leads(g, t, cs)
  PROVE  applyContentChanges(t, cs) = g[Len(cs)]
<1>1. PICK f : Leads(f, t, cs) /\ applyContentChanges(t, cs) = f[Len(cs)] BY AppliedSteps
<1> DEFINE Apart == {n \in 0 .. Len(cs) : f[n] # g[n]}
<1>2. ASSUME Apart # {} PROVE FALSE
  <2> Apart \subseteq Nat OBVIOUS
  <2>1. PICK n \in Apart : \A k \in Apart : n <= k
    <3> HIDE DEF Apart
    <3> QED BY <1>2, LeastElement
  <2>2. n \in 0 .. Len(cs) /\ f[n] # g[n] OBVIOUS
  <2>3. n # 0 BY <1>1, <2>2 DEF Leads
  <2>4. n - 1 \in 0 .. Len(cs) /\ n - 1 \notin Apart BY <2>1, <2>2, <2>3
  <2>5. f[n - 1] = g[n - 1] BY <2>4
  <2>6. n \in 1 .. Len(cs) BY <2>2, <2>3
  <2>7. f[n] = Insert(f[n - 1], cs[n]) /\ g[n] = Insert(g[n - 1], cs[n])
    BY <1>1, <2>6 DEF Leads
  <2> QED BY <2>2, <2>5, <2>7
<1> QED BY <1>1, <1>2

LEMMA AppliedNone ==
  ASSUME NEW t PROVE applyContentChanges(t, <<>>) = t
<1> DEFINE g == [n \in 0 .. 0 |-> t]
<1>1. Len(<<>>) = 0 /\ g[0] = t OBVIOUS
<1>2. Leads(g, t, <<>>) BY <1>1 DEF Leads
<1> HIDE DEF g
<1> QED BY <1>1, <1>2, AppliedIs

\* One more change.
LEMMA AppliedOneMore ==
  ASSUME NEW t, NEW cs \in Seq(Changes), NEW c \in Changes
  PROVE  applyContentChanges(t, Append(cs, c)) = Insert(applyContentChanges(t, cs), c)
<1> DEFINE more == Append(cs, c)
<1>1. /\ Len(cs) \in Nat /\ Len(more) = Len(cs) + 1
      /\ \A n \in 1 .. Len(cs) : more[n] = cs[n]
      /\ more[Len(cs) + 1] = c
  OBVIOUS
<1> HIDE DEF more
<1>2. PICK f : Leads(f, t, more) /\ applyContentChanges(t, more) = f[Len(more)]
  BY <1>1, AppliedSteps
<1>3. Leads(f, t, cs) BY <1>1, <1>2 DEF Leads
<1>4. applyContentChanges(t, cs) = f[Len(cs)] BY <1>1, <1>3, AppliedIs
<1>5. f[Len(cs) + 1] = Insert(f[(Len(cs) + 1) - 1], more[Len(cs) + 1]) BY <1>1, <1>2 DEF Leads
<1>6. (Len(cs) + 1) - 1 = Len(cs) BY <1>1
<1> QED BY <1>1, <1>2, <1>4, <1>5, <1>6 DEF more

\* Changes applied in two parts.
LEMMA AppliedInParts ==
  ASSUME NEW t, NEW cs \in Seq(Changes), NEW ds \in Seq(Changes)
  PROVE  applyContentChanges(applyContentChanges(t, cs), ds) = applyContentChanges(t, cs \o ds)
<1> DEFINE both == cs \o ds
<1>1. /\ Len(cs) \in Nat /\ Len(ds) \in Nat /\ Len(both) = Len(cs) + Len(ds)
      /\ \A n \in 1 .. Len(cs) : both[n] = cs[n]
      /\ \A n \in 1 .. Len(ds) : both[Len(cs) + n] = ds[n]
  OBVIOUS
<1> HIDE DEF both
<1>0. Len(both) \in Nat BY <1>1
<1>2. PICK f : Leads(f, t, both) /\ applyContentChanges(t, both) = f[Len(both)]
  BY <1>0, AppliedSteps
<1>3. Leads(f, t, cs) BY <1>1, <1>2 DEF Leads
<1>4. applyContentChanges(t, cs) = f[Len(cs)] BY <1>1, <1>3, AppliedIs
<1> DEFINE g == [n \in 0 .. Len(ds) |-> f[Len(cs) + n]]
<1>5. Leads(g, f[Len(cs)], ds)
  <2>1. g[0] = f[Len(cs)] BY <1>1
  <2>2. ASSUME NEW n \in 1 .. Len(ds) PROVE g[n] = Insert(g[n - 1], ds[n])
    <3>1. n - 1 \in 0 .. Len(ds) /\ n \in 0 .. Len(ds) /\ (Len(cs) + n) - 1 = Len(cs) + (n - 1)
      BY <1>1
    <3>2. Len(cs) + n \in 1 .. Len(both) BY <1>1
    <3>3. f[Len(cs) + n] = Insert(f[(Len(cs) + n) - 1], both[Len(cs) + n])
      BY <1>2, <3>2 DEF Leads
    <3> QED BY <1>1, <3>1, <3>3
  <2> QED BY <2>1, <2>2 DEF Leads
<1>6. g[Len(ds)] = f[Len(both)] BY <1>1
<1> HIDE DEF g
<1>7. applyContentChanges(f[Len(cs)], ds) = g[Len(ds)] BY <1>1, <1>5, AppliedIs
<1> QED BY <1>2, <1>4, <1>6, <1>7 DEF both

\* The changed text has the atoms of the text and of the changes.
LEMMA AppliedKeeps ==
  ASSUME NEW t \in Seq(Int), NEW cs \in Seq(Changes)
  PROVE  /\ applyContentChanges(t, cs) \in Seq(Int)
         /\ ToSet(t) \cup Atoms(cs) \subseteq ToSet(applyContentChanges(t, cs))
<1>1. Len(cs) \in Nat /\ DOMAIN cs = 1 .. Len(cs) /\ \A n \in 1 .. Len(cs) : cs[n] \in Changes
  OBVIOUS
<1>2. PICK f : Leads(f, t, cs) /\ applyContentChanges(t, cs) = f[Len(cs)] BY <1>1, AppliedSteps
<1> DEFINE Good(n) == /\ f[n] \in Seq(Int) /\ ToSet(t) \subseteq ToSet(f[n])
                      /\ \A i \in 1 .. n : cs[i].atom \in ToSet(f[n])
           Bad == {n \in 0 .. Len(cs) : ~Good(n)}
<1>3. ASSUME Bad # {} PROVE FALSE
  <2> Bad \subseteq Nat OBVIOUS
  <2>1. PICK n \in Bad : \A k \in Bad : n <= k
    <3> HIDE DEF Bad
    <3> QED BY <1>3, LeastElement
  <2>2. n \in 0 .. Len(cs) /\ ~Good(n) OBVIOUS
  <2>3. Good(0) BY <1>2 DEF Leads
  <2>4. n # 0 BY <2>2, <2>3
  <2>5. n - 1 \in 0 .. Len(cs) /\ n - 1 \notin Bad
    <3> HIDE DEF Good
    <3> QED BY <2>1, <2>2, <2>4
  <2>6. Good(n - 1) BY <2>5
  <2>7. n \in 1 .. Len(cs) BY <2>2, <2>4
  <2>8. f[n] = Insert(f[n - 1], cs[n]) BY <1>2, <2>7 DEF Leads
  <2>9. /\ f[n] \in Seq(Int) /\ ToSet(f[n - 1]) \subseteq ToSet(f[n]) /\ cs[n].atom \in ToSet(f[n])
    <3>1. f[n - 1] \in Seq(Int) /\ cs[n] \in Changes BY <1>1, <2>6, <2>7
    <3> QED BY <2>8, <3>1, Inserted
  <2>10. \A i \in 1 .. n : i = n \/ i \in 1 .. n - 1 BY <2>7
  <2>11. Good(n) BY <2>6, <2>9, <2>10
  <2> QED BY <2>2, <2>11
<1>4. Good(Len(cs))
  <2> HIDE DEF Good
  <2> QED BY <1>1, <1>3
<1> QED BY <1>1, <1>2, <1>4 DEF Atoms

LEMMA AtomsOfMore ==
  ASSUME NEW cs \in Seq(Changes), NEW c \in Changes
  PROVE  /\ Append(cs, c) \in Seq(Changes)
         /\ Atoms(Append(cs, c)) = Atoms(cs) \cup {c.atom}
<1> DEFINE more == Append(cs, c)
<1>1. /\ more \in Seq(Changes) /\ Len(cs) \in Nat /\ DOMAIN cs = 1 .. Len(cs)
      /\ DOMAIN more = 1 .. Len(cs) + 1 /\ more[Len(cs) + 1] = c
      /\ \A i \in 1 .. Len(cs) : more[i] = cs[i]
  OBVIOUS
<1> HIDE DEF more
<1>2. ASSUME NEW x \in Atoms(more) PROVE x \in Atoms(cs) \cup {c.atom}
  <2>1. PICK i \in 1 .. Len(cs) + 1 : x = more[i].atom BY <1>1 DEF Atoms
  <2>2. i = Len(cs) + 1 \/ i \in 1 .. Len(cs) BY <1>1
  <2> QED BY <1>1, <2>1, <2>2 DEF Atoms
<1>3. Atoms(cs) \subseteq Atoms(more)
  <2>1. SUFFICES ASSUME NEW i \in 1 .. Len(cs) PROVE cs[i].atom \in Atoms(more)
    BY <1>1 DEF Atoms
  <2>2. i \in 1 .. Len(cs) + 1 /\ cs[i] = more[i] BY <1>1
  <2> QED BY <1>1, <2>2 DEF Atoms
<1>4. c.atom \in Atoms(more)
  <2>1. Len(cs) + 1 \in DOMAIN more BY <1>1
  <2> QED BY <1>1, <2>1 DEF Atoms
<1>5. Atoms(more) = Atoms(cs) \cup {c.atom} BY <1>2, <1>3, <1>4
<1> QED BY <1>1, <1>5 DEF more

LEMMA NoAtoms == Atoms(<<>>) = {} /\ <<>> \in Seq(Changes) /\ <<>> \in Seq(Int)
BY DEF Atoms

LEMMA Joined ==
  ASSUME NEW cs \in Seq(Changes), NEW ds \in Seq(Changes), NEW c \in Changes
  PROVE  /\ cs \o Append(ds, c) = Append(cs \o ds, c)
         /\ cs \o ds \in Seq(Changes) /\ cs \o <<>> = cs /\ <<>> \o cs = cs
  OBVIOUS

-----------------------------------------------------------------------------
(* The document, the file, and the changes on their way between them.      *)

\* The phases of a save that has taken its changes.
SavePhases == {"update", "updateWrite", "updateStat", "getStat", "setCheck", "create",
               "setWrite", "setStat"}

\* What TextIsFileAndChanges assumes.
Alone == alwaysOn /\ foreign = 0 /\ ~dropped /\ ~stranded

DocTypes ==
  /\ text \in Seq(Int) /\ content \in Seq(Int) /\ file.content \in Seq(Int)
  /\ changes \in Seq(Changes) /\ contentChanges \in Seq(Changes) /\ written \subseteq Int

\* Only a save that has taken changes, and has not written them, holds any.
OnlySavesHold ==
  /\ phase \notin SavePhases => changes = <<>>
  /\ phase \in {"updateStat", "setStat"} => changes = <<>>

\* The whole text a save may fall back on is the document without the edits made
\* since the save took it.
HeldText == Alone /\ phase \in SavePhases => applyContentChanges(content, contentChanges) = text

ReadText == Alone /\ phase = "resolved" => content = file.content

\* A clean document has changes only while the save's participants make them.
CleanTaken == Alone /\ contentChanges # <<>> /\ ~dirty => phase = "willSave"

TextInv == TextIsFileAndChanges /\ HeldText /\ ReadText /\ CleanTaken

\* Of what the user typed:
Fresh == Atoms(changes) \cup Atoms(contentChanges) \subseteq 1 .. edits
Waiting ==
  alwaysOn /\ ~dropped => typed \subseteq written \cup Atoms(changes) \cup Atoms(contentChanges)
TypedDirty == alwaysOn /\ ~dirty => typed \cap Atoms(contentChanges) = {}
WaitingShown == alwaysOn => typed \cap Atoms(contentChanges) \subseteq ToSet(text)
HeldShown == alwaysOn /\ phase \in SavePhases => typed \cap Atoms(changes) \subseteq ToSet(content)

TypedInv == Fresh /\ Waiting /\ TypedDirty /\ WaitingShown /\ HeldShown

DocInv == DocTypes /\ OnlySavesHold /\ TextInv /\ TypedInv

\* The history never turns good again.
Worse ==
  /\ alwaysOn' => alwaysOn
  /\ dropped => dropped'
  /\ stranded => stranded'

-----------------------------------------------------------------------------
(* Kinds of steps.                                                         *)

\* Nothing moves but the phase: within the save, or before there is anything to
\* save or to apply.
LEMMA MoveStep ==
  ASSUME DocInv, Worse,
         UNCHANGED <<document, changes, content, file, edits, typed, written, foreign>>,
         \/ phase' = phase
         \/ phase \in SavePhases /\ phase' \in SavePhases \ {"updateStat", "setStat"}
         \/ phase \notin SavePhases \cup {"willSave"} /\ phase' \notin SavePhases \cup {"resolved"}
  PROVE  DocInv'
<1> USE DEF document
<1>1. DocTypes' BY DEF DocInv, DocTypes
<1>2. OnlySavesHold' BY DEF DocInv, OnlySavesHold
<1>3. TextIsFileAndChanges' BY DEF DocInv, TextInv, TextIsFileAndChanges, Worse
<1>4. HeldText' BY DEF DocInv, TextInv, HeldText, Worse, Alone
<1>5. ReadText' BY DEF DocInv, TextInv, ReadText, Worse, Alone, SavePhases
<1>6. CleanTaken' BY DEF DocInv, TextInv, CleanTaken, Worse, Alone, SavePhases
<1>7. Fresh' /\ Waiting' BY DEF DocInv, TypedInv, Fresh, Waiting, Worse
<1>8. TypedDirty' /\ WaitingShown' BY DEF DocInv, TypedInv, TypedDirty, WaitingShown, Worse
<1>9. HeldShown'
  <2>1. CASE phase \in SavePhases BY <2>1 DEF DocInv, TypedInv, HeldShown, Worse
  <2>2. CASE phase \notin SavePhases BY <2>2 DEF HeldShown
  <2> QED BY <2>1, <2>2
<1> QED BY <1>1, <1>2, <1>3, <1>4, <1>5, <1>6, <1>7, <1>8, <1>9 DEF DocInv, TextInv, TypedInv

\* The head of the queue ends.  What it held is written, or known to be dropped.
LEMMA EndStep ==
  ASSUME DocInv, Worse, Finish,
         UNCHANGED <<text, contentChanges, file, edits, typed, written, foreign>>,
         changes # <<>> => dropped',
         alwaysOn /\ ~dirty' => contentChanges = <<>> \/ (~dirty /\ phase # "willSave")
                                  \/ (~dirty /\ stranded')
  PROVE  DocInv'
<1>1. changes' = <<>> /\ content' = <<>> /\ phase' = "idle" BY DEF Finish, Done
<1>2. DocTypes' BY <1>1, NoAtoms DEF DocInv, DocTypes
<1>3. OnlySavesHold' BY <1>1 DEF OnlySavesHold
<1>4. TextIsFileAndChanges' BY <1>1 DEF DocInv, TextInv, TextIsFileAndChanges, Worse
<1>5. HeldText' /\ ReadText' BY <1>1 DEF HeldText, ReadText, SavePhases
<1>6. CleanTaken' BY DEF DocInv, TextInv, CleanTaken, Worse, Alone
<1>7. Fresh' BY <1>1, NoAtoms DEF DocInv, TypedInv, Fresh
<1>8. Waiting' BY <1>1 DEF DocInv, TypedInv, Waiting, Worse
<1>9. TypedDirty' BY NoAtoms DEF DocInv, TypedInv, TypedDirty, Worse
<1>10. WaitingShown' /\ HeldShown'
  BY <1>1 DEF DocInv, TypedInv, WaitingShown, HeldShown, Worse, SavePhases
<1> QED BY <1>2, <1>3, <1>4, <1>5, <1>6, <1>7, <1>8, <1>9, <1>10 DEF DocInv, TextInv, TypedInv

\* The user, who makes the document dirty, or a participant of the save edits.
LEMMA ChangeStep ==
  ASSUME DocInv, Worse, edits \in Nat, typed \subseteq 1 .. edits,
         NEW c \in Changes, c.atom = edits + 1,
         text' = Insert(text, c), contentChanges' = Append(contentChanges, c), edits' = edits + 1,
         \/ dirty' = TRUE /\ typed' = typed \cup {edits + 1}
         \/ dirty' = dirty /\ typed' = typed /\ phase = "willSave",
         UNCHANGED <<changes, content, phase, file, written, foreign>>
  PROVE  DocInv'
<1>1. /\ text \in Seq(Int) /\ content \in Seq(Int) /\ file.content \in Seq(Int)
      /\ changes \in Seq(Changes) /\ contentChanges \in Seq(Changes)
  BY DEF DocInv, DocTypes
<1>2. /\ contentChanges' \in Seq(Changes)
      /\ Atoms(contentChanges)' = Atoms(contentChanges) \cup {edits + 1}
      /\ changes' \o contentChanges' = Append(changes \o contentChanges, c)
      /\ changes \o contentChanges \in Seq(Changes)
  BY <1>1, AtomsOfMore, Joined
<1>3. text' \in Seq(Int) /\ ToSet(text) \subseteq ToSet(text)' /\ edits + 1 \in ToSet(text)'
  BY <1>1, Inserted
<1>4. DocTypes' BY <1>1, <1>2, <1>3 DEF DocInv, DocTypes
<1>5. OnlySavesHold' BY DEF DocInv, OnlySavesHold
<1>6. TextIsFileAndChanges'
  <2>1. SUFFICES ASSUME Alone
                 PROVE  applyContentChanges(file.content, changes \o contentChanges)' = text'
    BY DEF TextIsFileAndChanges, Alone, Worse
  <2>2. applyContentChanges(file.content, changes \o contentChanges) = text
    BY <2>1 DEF DocInv, TextInv, TextIsFileAndChanges, Alone
  <2>3. applyContentChanges(file.content, Append(changes \o contentChanges, c)) = Insert(text, c)
    BY <1>2, <2>2, AppliedOneMore
  <2> QED BY <1>2, <2>3
<1>7. HeldText' BY <1>1, AppliedOneMore DEF DocInv, TextInv, HeldText, Worse, Alone
<1>8. ReadText' BY DEF DocInv, TextInv, ReadText, Worse, Alone
<1>9. CleanTaken' BY DEF CleanTaken
<1>10. Fresh' BY <1>2 DEF DocInv, TypedInv, Fresh
<1>11. Waiting' BY <1>2 DEF DocInv, TypedInv, Waiting, Worse
<1>12. edits + 1 \notin typed /\ edits + 1 \notin Atoms(changes)
  BY DEF DocInv, TypedInv, Fresh
<1>13. TypedDirty' BY <1>2, <1>12 DEF DocInv, TypedInv, TypedDirty, Worse
<1>14. WaitingShown' BY <1>2, <1>3 DEF DocInv, TypedInv, WaitingShown, Worse
<1>15. HeldShown' BY <1>12 DEF DocInv, TypedInv, HeldShown, Worse
<1> QED BY <1>4, <1>5, <1>6, <1>7, <1>8, <1>9, <1>10, <1>11, <1>13, <1>14, <1>15
        DEF DocInv, TextInv, TypedInv

\* A save takes the changes and the text.
LEMMA TakeStep ==
  ASSUME DocInv, Worse, phase = "willSave", phase' \in {"update", "getStat"},
         changes' = contentChanges, contentChanges' = <<>>, content' = text,
         UNCHANGED <<text, dirty, file, edits, typed, written, foreign>>
  PROVE  DocInv'
<1>1. /\ text \in Seq(Int) /\ contentChanges \in Seq(Changes) /\ changes = <<>>
      /\ contentChanges' \in Seq(Changes)
  BY NoAtoms DEF DocInv, DocTypes, OnlySavesHold, SavePhases
<1>2. changes \o contentChanges = contentChanges /\ changes' \o contentChanges' = contentChanges
  BY <1>1, Joined
<1>3. DocTypes' BY <1>1 DEF DocInv, DocTypes
<1>4. OnlySavesHold' BY DEF OnlySavesHold, SavePhases
<1>5. TextIsFileAndChanges' BY <1>2 DEF DocInv, TextInv, TextIsFileAndChanges, Worse
<1>6. HeldText' BY AppliedNone DEF HeldText
<1>7. ReadText' /\ CleanTaken' BY DEF ReadText, CleanTaken
<1>8. Fresh' /\ Waiting' BY <1>1, NoAtoms DEF DocInv, TypedInv, Fresh, Waiting, Worse
<1>9. TypedDirty' /\ WaitingShown' BY NoAtoms DEF TypedDirty, WaitingShown
<1>10. HeldShown' BY DEF DocInv, TypedInv, WaitingShown, HeldShown, Worse
<1> QED BY <1>3, <1>4, <1>5, <1>6, <1>7, <1>8, <1>9, <1>10 DEF DocInv, TextInv, TypedInv

\* What a save took is in the file, with all the text it was applied to, or
\* replaced.
LEMMA WriteStep ==
  ASSUME DocInv, Worse, phase \in SavePhases, phase' \in {"updateStat", "setStat"},
         file'.content = applyContentChanges(file.content, changes) \/ file'.content = content,
         written' = written \cup ToSet(file'.content), changes' = <<>>,
         UNCHANGED <<document, content, edits, typed, foreign>>
  PROVE  DocInv'
<1> USE DEF document
<1>1. /\ text \in Seq(Int) /\ content \in Seq(Int) /\ file.content \in Seq(Int)
      /\ changes \in Seq(Changes) /\ contentChanges \in Seq(Changes)
  BY DEF DocInv, DocTypes
<1>2. file'.content \in Seq(Int) BY <1>1, AppliedKeeps
<1>3. DocTypes'
  <2>1. ToSet(file'.content) \subseteq Int BY <1>2, SetOfSequence
  <2>2. written' \subseteq Int BY <2>1 DEF DocInv, DocTypes
  <2> QED BY <1>1, <1>2, <2>2, NoAtoms DEF DocTypes
<1>4. OnlySavesHold' BY DEF OnlySavesHold, SavePhases
<1>5. Alone' => Alone BY DEF Alone, Worse
<1>6. Alone => applyContentChanges(content, contentChanges) = text
  BY DEF DocInv, TextInv, HeldText
<1>7. TextIsFileAndChanges'
  <2>1. SUFFICES ASSUME Alone PROVE applyContentChanges(file'.content, contentChanges) = text
    BY <1>1, <1>5, Joined DEF TextIsFileAndChanges, Alone
  <2>2. applyContentChanges(file.content, changes \o contentChanges) = text
    BY <2>1 DEF DocInv, TextInv, TextIsFileAndChanges, Alone
  <2>3. applyContentChanges(applyContentChanges(file.content, changes), contentChanges) = text
    BY <1>1, <2>2, AppliedInParts
  <2> QED BY <1>6, <2>1, <2>3
<1>8. HeldText' BY <1>5, <1>6 DEF HeldText
<1>9. ReadText' BY DEF ReadText
<1>10. CleanTaken' BY <1>5 DEF DocInv, TextInv, CleanTaken, SavePhases
<1>11. Fresh' BY NoAtoms DEF DocInv, TypedInv, Fresh
<1>12. alwaysOn => typed \cap Atoms(changes) \subseteq ToSet(file'.content)
  <2>1. CASE file'.content = applyContentChanges(file.content, changes)
    BY <1>1, <2>1, AppliedKeeps
  <2>2. CASE file'.content = content
    BY <2>2 DEF DocInv, TypedInv, HeldShown
  <2> QED BY <2>1, <2>2
<1>13. Waiting' BY <1>12 DEF DocInv, TypedInv, Waiting, Worse
<1>14. TypedDirty' /\ WaitingShown' BY DEF DocInv, TypedInv, TypedDirty, WaitingShown, Worse
<1>15. HeldShown' BY NoAtoms DEF HeldShown
<1> QED BY <1>3, <1>4, <1>7, <1>8, <1>9, <1>10, <1>11, <1>13, <1>14, <1>15
        DEF DocInv, TextInv, TypedInv

\* Another program writes or deletes the file.
LEMMA ForeignStep ==
  ASSUME DocInv, ForeignWrites \/ ForeignDeletes, foreign \in Nat
  PROVE  DocInv'
<1> DEFINE t == <<-(foreign + 1)>>
<1>1. t \in Seq(Int) OBVIOUS
<1> HIDE DEF t
<1>2. /\ file'.content \in Seq(Int) /\ written \subseteq written' /\ written' \subseteq Int
      /\ UNCHANGED <<text, dirty, contentChanges, changes, content, phase, edits, typed,
                     alwaysOn, dropped>>
  <2>1. CASE ForeignWrites
    <3>1. file' = [exists |-> TRUE, version |-> file.version + 1, content |-> t]
      BY <2>1 DEF ForeignWrites, WriteFile, t
    <3>2. file'.content = t BY <3>1
    <3>3. ToSet(t) \subseteq Int BY <1>1, SetOfSequence
    <3>4. written' = written \cup ToSet(t) BY <2>1 DEF ForeignWrites, WriteFile, t
    <3> QED BY <1>1, <2>1, <3>2, <3>3, <3>4 DEF ForeignWrites, document, local, DocInv, DocTypes
  <2>2. CASE ForeignDeletes
    BY <2>2, NoAtoms DEF ForeignDeletes, document, local, DocInv, DocTypes
  <2> QED BY <2>1, <2>2
<1>3. foreign' # 0 BY DEF ForeignWrites, ForeignDeletes
<1>4. DocTypes' BY <1>2 DEF DocInv, DocTypes
<1>5. OnlySavesHold' BY <1>2 DEF DocInv, OnlySavesHold
<1>6. TextInv' BY <1>3 DEF TextInv, TextIsFileAndChanges, HeldText, ReadText, CleanTaken, Alone
<1>7. Fresh' /\ Waiting' BY <1>2 DEF DocInv, TypedInv, Fresh, Waiting
<1>8. TypedDirty' /\ WaitingShown' /\ HeldShown'
  BY <1>2 DEF DocInv, TypedInv, TypedDirty, WaitingShown, HeldShown
<1> QED BY <1>4, <1>5, <1>6, <1>7, <1>8 DEF DocInv, TypedInv

-----------------------------------------------------------------------------
(* The steps of the specification.                                         *)

Known == IInv /\ OthersOK /\ DocInv

\* A save that took its changes retries with the whole text, or gives up.
LEMMA FailedStep ==
  ASSUME DocInv, phase \in SavePhases, ChangesFailed \/ GiveUp, dropped \in BOOLEAN,
         UNCHANGED <<document, file, edits, typed, written, foreign, alwaysOn, stranded>>
  PROVE  DocInv'
<1>1. CASE GiveUp
  <2>1. Finish /\ dropped' = (dropped \/ changes # <<>>) BY <1>1 DEF GiveUp
  <2>2. Worse BY <2>1 DEF Worse
  <2>3. alwaysOn /\ ~dirty' => ~dirty /\ phase # "willSave" BY DEF document, SavePhases
  <2> QED BY <2>1, <2>2, <2>3, EndStep DEF document
<1>2. CASE phase' = "getStat" /\ UNCHANGED <<queue, local, dropped>>
  <2>1. Worse /\ UNCHANGED <<changes, content>> BY <1>2 DEF Worse, local
  <2>2. phase' \in SavePhases \ {"updateStat", "setStat"} BY <1>2 DEF SavePhases
  <2> QED BY <2>1, <2>2, MoveStep
<1> QED BY <1>1, <1>2 DEF ChangesFailed

\* A save that succeeded has nothing left to write.
LEMMA SavedKeeps ==
  ASSUME Known, Saved, phase \in {"updateStat", "setStat"}, Running("save", phase),
         UNCHANGED <<text, contentChanges, file, edits, typed, written, foreign, alwaysOn,
                     dropped, stranded>>
  PROVE  DocInv'
<1>1. Finish /\ dirty' = (dirty /\ ~Live) BY DEF Saved
<1>2. changes = <<>> BY DEF Known, DocInv, OnlySavesHold
<1>3. alwaysOn /\ ~dirty' => contentChanges = <<>> \/ (~dirty /\ phase # "willSave")
                                \/ (~dirty /\ stranded')
  BY <1>1 DEF Known, IInv, TookAll, Running
<1>4. Worse /\ DocInv BY DEF Worse, Known
<1> QED BY <1>1, <1>2, <1>3, <1>4, EndStep

LEMMA SaveKeeps ==
  ASSUME Known, SaveStep
  PROVE  DocInv'
<1>0. DocInv /\ dropped \in BOOLEAN /\ stranded \in BOOLEAN BY DEF Known, OthersOK
<1> USE DEF counters
<1>1. ASSUME StartSave PROVE DocInv'
  <2>1. /\ phase = "idle" /\ Worse /\ changes = <<>>
        /\ UNCHANGED <<document, file, edits, typed, written, foreign>>
    BY <1>0, <1>1 DEF StartSave, Running, Worse, DocInv, OnlySavesHold, SavePhases
  <2>2. CASE Finish
    <3>1. alwaysOn /\ ~dirty' => ~dirty /\ phase # "willSave" BY <2>1 DEF document
    <3> QED BY <1>0, <2>1, <2>2, <3>1, EndStep DEF document
  <2>3. CASE phase' = "willSave" /\ UNCHANGED <<queue, local>>
    <3>1. phase \notin SavePhases \cup {"willSave"} /\ phase' \notin SavePhases \cup {"resolved"}
      BY <2>1, <2>3 DEF SavePhases
    <3> QED BY <1>0, <2>1, <2>3, <3>1, MoveStep DEF local
  <2> QED BY <1>1, <2>2, <2>3 DEF StartSave
<1>2. ASSUME PopChanges PROVE DocInv'
  <2>1. /\ phase = "willSave" /\ Worse /\ changes = <<>>
        /\ UNCHANGED <<text, dirty, file, edits, typed, written, foreign>>
    BY <1>0, <1>2 DEF PopChanges, Running, Worse, DocInv, OnlySavesHold, SavePhases
  <2>2. CASE Live /\ contentChanges # <<>>
    <3>1. /\ changes' = contentChanges /\ contentChanges' = <<>> /\ content' = text
          /\ phase' \in {"update", "getStat"}
      BY <1>2, <2>2 DEF PopChanges, ClearedChanges
    <3> QED BY <1>0, <2>1, <3>1, TakeStep
  <2>3. CASE ~(Live /\ contentChanges # <<>>)
    <3>1. Finish /\ UNCHANGED contentChanges BY <1>2, <2>3 DEF PopChanges
    <3>2. alwaysOn /\ ~dirty' => contentChanges = <<>> \/ (~dirty /\ phase # "willSave")
                                    \/ (~dirty /\ stranded')
      <4>1. ~Live /\ ~dirty /\ contentChanges # <<>> => stranded' BY <1>2, Zenon DEF PopChanges
      <4> QED BY <2>1, <2>3, <4>1
    <3>3. UNCHANGED <<text, contentChanges, file, edits, typed, written, foreign>>
      BY <2>1, <3>1
    <3>4. changes # <<>> => dropped' BY <2>1
    <3> QED BY <1>0, <2>1, <3>1, <3>2, <3>3, <3>4, EndStep
  <2> QED BY <2>2, <2>3
<1>3. ASSUME UpdateCheck \/ SetCheck \/ CreateCheck PROVE DocInv'
  <2>1. /\ phase \in {"update", "setCheck", "create"}
        /\ UNCHANGED <<document, file, edits, typed, written, foreign, alwaysOn, stranded>>
    BY <1>3 DEF UpdateCheck, SetCheck, CreateCheck, Running
  <2>2. \/ ChangesFailed \/ GiveUp
        \/ phase' \in {"updateWrite", "setWrite"} /\ UNCHANGED <<queue, local, dropped>>
    BY <1>3 DEF UpdateCheck, SetCheck, CreateCheck
  <2>3. phase \in SavePhases BY <2>1 DEF SavePhases
  <2>4. CASE ChangesFailed \/ GiveUp BY <1>0, <2>1, <2>3, <2>4, FailedStep
  <2>5. CASE phase' \in {"updateWrite", "setWrite"} /\ UNCHANGED <<queue, local, dropped>>
    <3>1. phase' \in SavePhases \ {"updateStat", "setStat"} /\ Worse /\ UNCHANGED <<changes, content>>
      BY <2>1, <2>5 DEF SavePhases, Worse, local
    <3> QED BY <1>0, <2>1, <2>3, <3>1, MoveStep
  <2> QED BY <2>2, <2>4, <2>5
<1>4. ASSUME UpdateWrite PROVE DocInv'
  <2>1. phase = "updateWrite" /\ phase \in SavePhases
    BY <1>4 DEF UpdateWrite, Running, SavePhases
  <2>2. UNCHANGED <<document, edits, typed, foreign, alwaysOn, stranded>>
    BY <1>4 DEF UpdateWrite
  <2>3. CASE file.exists
    <3> DEFINE t == applyContentChanges(file.content, changes)
    <3>1. /\ file' = [exists |-> TRUE, version |-> file.version + 1, content |-> t]
          /\ written' = written \cup ToSet(t)
          /\ changes' = <<>> /\ phase' = "updateStat" /\ UNCHANGED <<content, dropped>>
      BY <1>4, <2>3 DEF UpdateWrite, WriteFile
    <3>2. file'.content = t
      <4> HIDE DEF t
      <4> QED BY <3>1
    <3>3. Worse BY <2>2, <3>1 DEF Worse
    <3> QED BY <1>0, <2>1, <2>2, <3>1, <3>2, <3>3, WriteStep
  <2>4. CASE ~file.exists
    <3>1. ChangesFailed /\ UNCHANGED <<file, written>> BY <1>4, <2>4 DEF UpdateWrite
    <3> QED BY <1>0, <2>1, <2>2, <3>1, FailedStep
  <2> QED BY <2>3, <2>4
<1>5. ASSUME UpdateStat \/ SetStat PROVE DocInv'
  <2>1. /\ phase \in {"updateStat", "setStat"} /\ Running("save", phase)
        /\ UNCHANGED <<text, contentChanges, file, edits, typed, written, foreign, alwaysOn, stranded>>
    BY <1>5 DEF UpdateStat, SetStat, Running
  <2>2. \/ Saved /\ UNCHANGED dropped
        \/ (ChangesFailed \/ GiveUp) /\ UNCHANGED dirty
    BY <1>5 DEF UpdateStat, SetStat
  <2>3. phase \in SavePhases BY <2>1 DEF SavePhases
  <2>4. CASE Saved /\ UNCHANGED dropped BY <2>1, <2>4, SavedKeeps
  <2>5. CASE (ChangesFailed \/ GiveUp) /\ UNCHANGED dirty
    BY <1>0, <2>1, <2>3, <2>5, FailedStep DEF document
  <2> QED BY <2>2, <2>4, <2>5
<1>6. ASSUME GetStat PROVE DocInv'
  <2>1. /\ phase \in SavePhases /\ phase' \in SavePhases \ {"updateStat", "setStat"} /\ Worse
        /\ UNCHANGED <<document, changes, content, file, edits, typed, written, foreign>>
    BY <1>6 DEF GetStat, Running, SavePhases, history, Worse
  <2> QED BY <1>0, <2>1, MoveStep
<1>7. ASSUME SetWrite PROVE DocInv'
  <2>1. /\ phase \in SavePhases /\ phase' \in {"updateStat", "setStat"} /\ Worse
        /\ changes' = <<>>
        /\ UNCHANGED <<document, content, edits, typed, foreign>>
    BY <1>7 DEF SetWrite, Running, SavePhases, Worse
  <2>2. file'.content = content /\ written' = written \cup ToSet(content)
    BY <1>7 DEF SetWrite, WriteFile
  <2> QED BY <1>0, <2>1, <2>2, WriteStep
<1> QED BY <1>1, <1>2, <1>3, <1>4, <1>5, <1>6, <1>7 DEF SaveStep

LEMMA SyncKeeps ==
  ASSUME Known, SyncStep
  PROVE  DocInv'
<1>0. DocInv /\ dropped \in BOOLEAN BY DEF Known, OthersOK
<1> USE DEF counters
<1>1. ASSUME StartSync \/ ResolveStat PROVE DocInv'
  <2>1. /\ phase \in {"idle", "resolveStat"} /\ Worse
        /\ UNCHANGED <<document, file, edits, typed, written, foreign>>
    BY <1>1 DEF StartSync, ResolveStat, Running, Worse
  <2>2. changes = <<>> BY <1>0, <2>1 DEF DocInv, OnlySavesHold, SavePhases
  <2>3. \/ Finish
        \/ phase' \in {"resolveStat", "resolveRead"} /\ UNCHANGED <<changes, content>>
    BY <1>1 DEF StartSync, ResolveStat, local
  <2>4. CASE Finish
    <3>1. alwaysOn /\ ~dirty' => ~dirty /\ phase # "willSave" BY <2>1 DEF document
    <3> QED BY <1>0, <2>1, <2>2, <2>4, <3>1, EndStep DEF document
  <2>5. CASE phase' \in {"resolveStat", "resolveRead"} /\ UNCHANGED <<changes, content>>
    <3>1. phase \notin SavePhases \cup {"willSave"} /\ phase' \notin SavePhases \cup {"resolved"}
      BY <2>1, <2>5 DEF SavePhases
    <3> QED BY <1>0, <2>1, <2>5, <3>1, MoveStep
  <2> QED BY <2>3, <2>4, <2>5
<1>2. ASSUME ResolveRead PROVE DocInv'
  <2>1. /\ phase = "resolveRead" /\ Worse
        /\ UNCHANGED <<document, file, edits, typed, written, foreign, alwaysOn, dropped>>
    BY <1>2 DEF ResolveRead, Running, Worse
  <2>2. changes = <<>> BY <1>0, <2>1 DEF DocInv, OnlySavesHold, SavePhases
  <2>3. CASE file.exists
    <3>1. content' = file.content /\ phase' = "resolved" /\ UNCHANGED changes
      BY <1>2, <2>3 DEF ResolveRead
    <3>2. DocTypes' BY <1>0, <2>1, <3>1 DEF DocInv, DocTypes, document
    <3>3. OnlySavesHold' BY <2>2, <3>1 DEF OnlySavesHold
    <3>4. TextIsFileAndChanges'
      BY <1>0, <2>1, <3>1 DEF DocInv, TextInv, TextIsFileAndChanges, Worse, document
    <3>5. ReadText' BY <2>1, <3>1 DEF ReadText
    <3>6. HeldText' /\ HeldShown' BY <3>1 DEF HeldText, HeldShown, SavePhases
    <3>7. CleanTaken' BY <1>0, <2>1 DEF DocInv, TextInv, CleanTaken, Worse, Alone, document
    <3>8. Fresh' /\ Waiting'
      BY <1>0, <2>1, <3>1 DEF DocInv, TypedInv, Fresh, Waiting, document
    <3>9. TypedDirty' /\ WaitingShown'
      BY <1>0, <2>1, <3>1 DEF DocInv, TypedInv, TypedDirty, WaitingShown, document
    <3> QED BY <3>2, <3>3, <3>4, <3>5, <3>6, <3>7, <3>8, <3>9 DEF DocInv, TextInv, TypedInv
  <2>4. CASE ~file.exists
    <3>1. Finish BY <1>2, <2>4 DEF ResolveRead
    <3>2. alwaysOn /\ ~dirty' => ~dirty /\ phase # "willSave" BY <2>1 DEF document
    <3> QED BY <1>0, <2>1, <2>2, <3>1, <3>2, EndStep DEF document
  <2> QED BY <2>3, <2>4
<1>3. ASSUME SyncReply PROVE DocInv'
  <2>1. /\ phase = "resolved" /\ Finish /\ Worse
        /\ UNCHANGED <<dirty, contentChanges, file, edits, typed, written, foreign,
                       alwaysOn, dropped, stranded>>
        /\ text' = IF SyncApplies THEN content ELSE text
    BY <1>3 DEF SyncReply, Running, Worse
  <2>2. changes = <<>> BY <1>0, <2>1 DEF DocInv, OnlySavesHold, SavePhases
  <2>3. CASE ~SyncApplies
    <3>1. text' = text /\ (alwaysOn /\ ~dirty' => ~dirty /\ phase # "willSave")
      BY <2>1, <2>3
    <3> QED BY <1>0, <2>1, <2>2, <3>1, EndStep
  <2>4. CASE SyncApplies
    <3>1. text' = content /\ ~dirty BY <2>1, <2>4 DEF SyncApplies
    <3>2. changes' = <<>> /\ content' = <<>> /\ phase' = "idle" BY <2>1 DEF Finish, Done
    <3>3. DocTypes' BY <1>0, <2>1, <3>1, <3>2, NoAtoms DEF DocInv, DocTypes
    <3>4. OnlySavesHold' BY <3>2 DEF OnlySavesHold
    <3>5. Alone => contentChanges = <<>> /\ content = file.content
      BY <1>0, <2>1, <3>1 DEF DocInv, TextInv, CleanTaken, ReadText
    <3>6. Alone' => Alone BY <2>1 DEF Alone
    <3>7. TextIsFileAndChanges'
      <4>1. SUFFICES ASSUME Alone
                     PROVE  applyContentChanges(file.content, <<>> \o contentChanges) = text'
        BY <2>1, <3>2, <3>6 DEF TextIsFileAndChanges, Alone
      <4>2. <<>> \o contentChanges = <<>> BY <3>5, <4>1
      <4> QED BY <3>1, <3>5, <4>1, <4>2, AppliedNone
    <3>8. HeldText' /\ ReadText' BY <3>2 DEF HeldText, ReadText, SavePhases
    <3>9. CleanTaken' BY <2>1, <3>5, <3>6 DEF CleanTaken
    <3>10. Fresh' /\ Waiting' BY <1>0, <2>1, <2>2, <3>2 DEF DocInv, TypedInv, Fresh, Waiting
    <3>11. TypedDirty' BY <1>0, <2>1 DEF DocInv, TypedInv, TypedDirty
    <3>12. WaitingShown' BY <1>0, <2>1, <3>1 DEF DocInv, TypedInv, TypedDirty, WaitingShown
    <3>13. HeldShown' BY <3>2 DEF HeldShown, SavePhases
    <3> QED BY <3>3, <3>4, <3>7, <3>8, <3>9, <3>10, <3>11, <3>12, <3>13
            DEF DocInv, TextInv, TypedInv
  <2> QED BY <2>3, <2>4
<1> QED BY <1>1, <1>2, <1>3 DEF SyncStep

LEMMA EditKeeps ==
  ASSUME Known, (\E at \in {0, Len(text)} : Type(at)) \/ ParticipantEdits
  PROVE  DocInv'
<1>0. DocInv /\ text \in Seq(Int) /\ Len(text) \in Nat BY DEF Known, DocInv, DocTypes
<1>1. edits \in Nat /\ typed \subseteq 1 .. edits BY EditorAssumption DEF Known, OthersOK
<1>2. ASSUME NEW at \in {0, Len(text)}, Type(at) PROVE DocInv'
  <2> DEFINE c == [at |-> at, atom |-> edits + 1]
  <2>1. c \in Changes /\ c.atom = edits + 1 BY <1>0, <1>1 DEF Changes
  <2>2. /\ text' = Insert(text, c) /\ contentChanges' = Append(contentChanges, c)
        /\ edits' = edits + 1 /\ dirty' = TRUE /\ typed' = typed \cup {edits + 1}
        /\ UNCHANGED <<changes, content, phase, file, written, foreign>>
    BY <1>2 DEF Type, pushContentChanges, local
  <2>3. Worse BY <1>2 DEF Type, Worse
  <2> HIDE DEF c
  <2> QED BY <1>0, <1>1, <2>1, <2>2, <2>3, ChangeStep
<1>3. ASSUME ParticipantEdits PROVE DocInv'
  <2> DEFINE c == [at |-> Len(text), atom |-> edits + 1]
  <2>1. c \in Changes /\ c.atom = edits + 1 BY <1>0, <1>1 DEF Changes
  <2>2. Insert(text, c) = Append(text, edits + 1) BY <1>0, <1>1, InsertedAtEnd
  <2>3. /\ text' = Append(text, edits + 1) /\ contentChanges' = Append(contentChanges, c)
        /\ edits' = edits + 1 /\ dirty' = dirty /\ typed' = typed /\ phase = "willSave"
        /\ UNCHANGED <<changes, content, phase, file, written, foreign>>
    BY <1>3 DEF ParticipantEdits, Running, pushContentChanges, local
  <2>4. Worse BY <1>3 DEF ParticipantEdits, Worse
  <2> HIDE DEF c
  <2> QED BY <1>0, <1>1, <2>1, <2>2, <2>3, <2>4, ChangeStep
<1> QED BY <1>2, <1>3

LEMMA DocKept ==
  ASSUME Known, [Next]_vars
  PROVE  DocInv'
<1>0. DocInv /\ dropped \in BOOLEAN /\ foreign \in Nat
  BY EditorAssumption DEF Known, OthersOK
<1>1. ASSUME \/ TimerFires \/ Save \/ Watched \/ UNCHANGED vars
             \/ (\E value \in AutoSaves : SetAutoSave(value)) \/ (\E s \in probes : Probed(s))
      PROVE  DocInv'
  <2>1. /\ Worse /\ phase' = phase
        /\ UNCHANGED <<document, changes, content, file, edits, typed, written, foreign>>
    <3>1. ASSUME NEW value \in AutoSaves, SetAutoSave(value) PROVE alwaysOn' => alwaysOn
      BY <3>1, Zenon DEF SetAutoSave
    <3>2. CASE \E value \in AutoSaves : SetAutoSave(value)
      BY <3>1, <3>2 DEF SetAutoSave, Worse, counters, local
    <3>3. CASE Save
      BY <3>3 DEF Save, Worse, local
    <3>4. CASE TimerFires \/ Watched \/ UNCHANGED vars \/ \E s \in probes : Probed(s)
      <4>1. UNCHANGED <<document, local, file, history, phase>>
        BY <3>4 DEF TimerFires, Watched, vars, Probed
      <4> QED BY <4>1 DEF Worse, history, counters, local
    <3> QED BY <1>1, <3>2, <3>3, <3>4
  <2> QED BY <1>0, <2>1, MoveStep
<1>2. ASSUME CallFails PROVE DocInv'
  <2>1. UNCHANGED <<document, file, edits, typed, written, foreign, alwaysOn, stranded>>
    BY <1>2 DEF CallFails
  <2>2. CASE phase \in SavePhases /\ (ChangesFailed \/ GiveUp)
    BY <1>0, <2>1, <2>2, FailedStep
  <2>3. CASE phase \in {"resolveStat", "resolveRead"} /\ Finish /\ UNCHANGED dropped
    <3>1. changes = <<>> BY <1>0, <2>3 DEF DocInv, OnlySavesHold, SavePhases
    <3>2. Worse /\ (alwaysOn /\ ~dirty' => ~dirty /\ phase # "willSave")
      BY <2>1, <2>3 DEF Worse, document
    <3> QED BY <1>0, <2>1, <2>3, <3>1, <3>2, EndStep DEF document
  <2> QED BY <1>2, <2>2, <2>3 DEF CallFails, SavePhases
<1> QED BY <1>0, <1>1, <1>2, EditKeeps, SaveKeeps, SyncKeeps, ForeignStep DEF Next, Known

LEMMA DocStarts ==
  ASSUME Init
  PROVE  DocInv
<1>1. /\ text = <<>> /\ content = <<>> /\ changes = <<>> /\ contentChanges = <<>>
      /\ phase = "idle" /\ dirty = FALSE /\ typed = {} /\ written = {}
  BY DEF Init
<1>2. file.content = <<>> BY DEF Init
<1>3. DocTypes BY <1>1, <1>2, NoAtoms DEF DocTypes
<1>4. OnlySavesHold BY <1>1 DEF OnlySavesHold
<1>5. TextIsFileAndChanges
  <2>1. changes \o contentChanges = <<>> BY <1>1
  <2> QED BY <1>1, <1>2, <2>1, AppliedNone DEF TextIsFileAndChanges
<1>6. HeldText /\ ReadText /\ CleanTaken /\ HeldShown
  BY <1>1 DEF HeldText, ReadText, CleanTaken, HeldShown, SavePhases
<1>7. Fresh /\ Waiting /\ TypedDirty /\ WaitingShown
  BY <1>1, NoAtoms DEF Fresh, Waiting, TypedDirty, WaitingShown
<1> QED BY <1>3, <1>4, <1>5, <1>6, <1>7 DEF DocInv, TextInv, TypedInv

LEMMA KnownKept ==
  ASSUME Known, [Next]_vars
  PROVE  Known'
BY NextKeeps, OthersKept, DocKept DEF Known

\* The texts, the changes made in them, the queue, the phase of its head, the stats,
\* the file and the counts keep their types, and an operation is in a phase only
\* while it heads the queue.
THEOREM TypeCorrect == Spec => []TypeOK
<1>1. Init => Known BY InitHolds, OthersStart, DocStarts DEF Known
<1>2. Known => TypeOK
  BY DEF Known, DocInv, DocTypes, IInv, QueueOK, OthersOK, Operations, Stats, TypeOK
<1> QED BY <1>1, <1>2, KnownKept, PTL DEF Spec

\* While nobody else writes, the auto save is on and no save gave up, the file and
\* the changes not yet written to it are the text, whatever is typed while saves and
\* syncs await the file system, and however they cancel or fail (pushContentChanges,
\* popContentChanges, applyContentChanges in doSave).
THEOREM TextKept == Spec => []TextIsFileAndChanges
<1>1. Init => Known BY InitHolds, OthersStart, DocStarts DEF Known
<1>2. Known => TextIsFileAndChanges BY DEF Known, DocInv, TextInv
<1> QED BY <1>1, <1>2, KnownKept, PTL DEF Spec

\* Nothing takes a typed atom from the text but the reply to a sync, and that only
\* when it has been written.
LEMMA TextOnlyGrows ==
  ASSUME Known, [Next]_vars, alwaysOn, ~dropped
  PROVE  typed \cap (ToSet(text) \ ToSet(text)') \subseteq written
<1>0. text \in Seq(Int) /\ Len(text) \in Nat /\ edits \in Nat
  BY EditorAssumption DEF Known, OthersOK, DocInv, DocTypes
<1>1. CASE SyncReply /\ SyncApplies
  <2>1. phase = "resolved" /\ ~dirty BY <1>1 DEF SyncReply, Running, SyncApplies
  <2>2. changes = <<>> BY <2>1 DEF Known, DocInv, OnlySavesHold, SavePhases
  <2>3. typed \cap Atoms(contentChanges) = {} BY <2>1 DEF Known, DocInv, TypedInv, TypedDirty
  <2>4. typed \subseteq written BY <2>2, <2>3, NoAtoms DEF Known, DocInv, TypedInv, Waiting
  <2> QED BY <2>4
<1>2. CASE \E at \in {0, Len(text)} : Type(at)
  <2>1. PICK at \in {0, Len(text)} : Type(at) BY <1>2
  <2> DEFINE c == [at |-> at, atom |-> edits + 1]
  <2>2. c \in Changes /\ text' = Insert(text, c) BY <1>0, <2>1 DEF Changes, Type
  <2> HIDE DEF c
  <2> QED BY <1>0, <2>2, Inserted
<1>3. CASE ParticipantEdits
  <2> DEFINE c == [at |-> Len(text), atom |-> edits + 1]
  <2>1. c \in Changes BY <1>0 DEF Changes
  <2>2. text' = Insert(text, c) BY <1>0, <1>3, InsertedAtEnd DEF ParticipantEdits
  <2> HIDE DEF c
  <2> QED BY <1>0, <2>1, <2>2, Inserted
<1>4. CASE text' = text BY <1>4
<1>5. \/ SyncReply /\ SyncApplies
      \/ \E at \in {0, Len(text)} : Type(at)
      \/ ParticipantEdits
      \/ text' = text
  BY DEF Next, vars, document, SetAutoSave, TimerFires, Save, SaveStep, SyncStep, CallFails, Watched,
         Probed, ForeignWrites, ForeignDeletes, StartSave, PopChanges, UpdateCheck, UpdateWrite,
         UpdateStat, GetStat, SetCheck, CreateCheck, SetWrite, SetStat, StartSync, ResolveStat,
         ResolveRead, SyncReply
<1> QED BY <1>1, <1>2, <1>3, <1>4, <1>5

\* With auto save on, what the user typed leaves the editor for another program's
\* text only after it was written to the file, as long as no save gave up: for any
\* number of edits, saves and writes of others (the check of the token and of the
\* dirty mark in doSync).
THEOREM TypedKept == Spec => TypedNotOverwritten
<1>1. Init => Known BY InitHolds, OthersStart, DocStarts DEF Known
<1>2. Known /\ [Next]_vars
        => [alwaysOn /\ ~dropped => typed \cap (ToSet(text) \ ToSet(text')) \subseteq written]_vars
  BY TextOnlyGrows
<1> QED BY <1>1, <1>2, KnownKept, PTL DEF Spec, TypedNotOverwritten
=============================================================================
