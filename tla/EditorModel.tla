----------------------------- MODULE EditorModel -----------------------------
(***************************************************************************)
(* One text document from the keys to the disk: MonacoEditorModel with its *)
(* queue of saves and syncs, Resource.save, FileResource, and the file     *)
(* system of the backend, which another program writes to as well.         *)
(*                                                                         *)
(* A text is a sequence of atoms.  The n-th edit puts the atom n at the    *)
(* end; the other program replaces the text by a single negative atom.  A  *)
(* stat is the number of the write that left the file as it is.            *)
(***************************************************************************)
EXTENDS Integers, SequencesExt

CONSTANTS AutoSaves,    \* values the preference editor.autoSave takes
          MaxEdits,     \* bound: edits, typed or by save participants
          MaxForeign,   \* bound: writes and deletions by the other program
          MaxFailures,  \* bound: calls of the file system that fail by themselves
          MaxSaves      \* bound: saves the user asks for

ASSUME EditorAssumption ==
  /\ AutoSaves \subseteq {"on", "off"} /\ AutoSaves # {}
  /\ MaxEdits \in Nat /\ MaxForeign \in Nat /\ MaxFailures \in Nat /\ MaxSaves \in Nat

NoStat == -1   \* the stat of a file that is not there

VARIABLES
  \* MonacoEditorModel
  text, dirty, autoSave,
  contentChanges,  \* not yet handed to a save, [at, atom]
  timer,           \* of the auto save: "none", or "live", "cancelled" as its token
  queue,           \* pendingOperation: [op, live], live until its token is cancelled
  phase,           \* of the head of the queue
  \* what the head of the queue holds in its local variables and calls
  changes,         \* popped and not yet written
  content,         \* text to write, or read
  seen,            \* stat a call was given, or took
  \* FileResource
  stat,
  probes,          \* stats isInSync was called with
  \* backend
  file,            \* [exists, version, content]
  event,           \* the watcher has an event under way
  \* history
  edits, foreign, failures, saves,
  typed,           \* atoms of the user's edits
  written,         \* atoms that were in the file some day
  dropped,         \* a save gave up and forgot its changes
  stranded,        \* a cancelled save left its participants' edits in a clean model
  alwaysOn,        \* the auto save was never off
  unseen           \* the file holds a change of the other program the model never had

document == <<text, dirty, contentChanges>>
local == <<changes, content, seen>>
resource == <<stat, probes>>
counters == <<edits, foreign, failures, saves>>
history == <<counters, typed, written, dropped, stranded, alwaysOn, unseen>>
vars == <<document, autoSave, timer, queue, phase, local, resource, file, event, history>>

Init ==
  /\ text = <<>> /\ dirty = FALSE /\ contentChanges = <<>>
  /\ autoSave \in AutoSaves /\ timer = "none"
  /\ queue = <<>> /\ phase = "idle"
  /\ changes = <<>> /\ content = <<>> /\ seen = NoStat
  /\ stat = 0 /\ probes = {}
  /\ file = [exists |-> TRUE, version |-> 0, content |-> <<>>] /\ event = FALSE
  /\ edits = 0 /\ foreign = 0 /\ failures = 0 /\ saves = 0
  /\ typed = {} /\ written = {} /\ dropped = FALSE /\ stranded = FALSE
  /\ alwaysOn = (autoSave = "on") /\ unseen = FALSE

-----------------------------------------------------------------------------
(* The file.                                                               *)

Stat == IF file.exists THEN file.version ELSE NoStat

WriteFile(t) ==
  /\ file' = [exists |-> TRUE, version |-> file.version + 1, content |-> t]
  /\ written' = written \cup ToSet(t)
  /\ event' = TRUE

\* One change, its position brought into the text as TextDocument.offsetAt does.
Insert(t, c) ==
  LET at == IF c.at < Len(t) THEN c.at ELSE Len(t)
  IN  SubSeq(t, 1, at) \o <<c.atom>> \o SubSeq(t, at + 1, Len(t))

\* One after the other.
applyContentChanges(t, cs) ==
  LET applied[n \in 0 .. Len(cs)] == IF n = 0 THEN t ELSE Insert(applied[n - 1], cs[n])
  IN  applied[Len(cs)]

\* The other program.
ForeignWrites ==
  /\ foreign < MaxForeign
  /\ foreign' = foreign + 1
  /\ WriteFile(<<-(foreign + 1)>>)
  /\ unseen' = TRUE
  /\ UNCHANGED <<document, autoSave, timer, queue, phase, local, resource,
                 edits, failures, saves, typed, dropped, stranded, alwaysOn>>

ForeignDeletes ==
  /\ foreign < MaxForeign /\ file.exists
  /\ foreign' = foreign + 1
  /\ file' = [exists |-> FALSE, version |-> file.version + 1, content |-> <<>>]
  /\ event' = TRUE /\ unseen' = TRUE
  /\ UNCHANGED <<document, autoSave, timer, queue, phase, local, resource,
                 edits, failures, saves, typed, written, dropped, stranded, alwaysOn>>

-----------------------------------------------------------------------------
(* MonacoEditorModel: edits, timers and the queue.                         *)

\* cancelSync, cancelSave: operations queued or running with an older token.
Cancelled(q, op) == [i \in DOMAIN q |-> IF q[i].op = op THEN [q[i] EXCEPT !.live = FALSE] ELSE q[i]]
Operation(op, live) == [op |-> op, live |-> live]

\* Defects: an edit leaves the saves under way alone, or the timer.
KeepSaves(q) == Cancelled(q, "sync")

\* markAsDirty: the syncs are cancelled, and with auto save the saves, too.
CancelledByEdit(q) ==
  IF autoSave = "on" THEN Cancelled(Cancelled(q, "sync"), "save") ELSE Cancelled(q, "sync")

TimerIfClean == IF autoSave = "on" /\ ~dirty THEN "live" ELSE timer
\* doAutoSave: the timer is set anew.
TimerAfterEdit == IF autoSave = "on" THEN "live" ELSE timer

pushContentChanges(at) == Append(contentChanges, [at |-> at, atom |-> edits + 1])

\* fireDidChangeContent after the user typed.
Type(at) ==
  /\ edits < MaxEdits /\ edits' = edits + 1
  /\ text' = Insert(text, [at |-> at, atom |-> edits + 1])
  /\ contentChanges' = pushContentChanges(at)
  /\ dirty' = TRUE /\ typed' = typed \cup {edits + 1}
  /\ queue' = CancelledByEdit(queue)
  /\ timer' = TimerAfterEdit
  /\ UNCHANGED <<autoSave, phase, local, resource, file, event,
                 foreign, failures, saves, written, dropped, stranded, alwaysOn, unseen>>

\* The auto save is due: its operation has the token of the last edit.
TimerFires ==
  /\ timer # "none" /\ timer' = "none"
  /\ queue' = Append(queue, Operation("save", timer = "live"))
  /\ UNCHANGED <<document, autoSave, phase, local, resource, file, event, history>>

\* save() cancels every other save, the one the timer is set for included.
Save ==
  /\ saves < MaxSaves /\ saves' = saves + 1
  /\ queue' = Append(Cancelled(queue, "save"), Operation("save", TRUE))
  /\ timer' = IF timer = "live" THEN "cancelled" ELSE timer
  /\ UNCHANGED <<document, autoSave, phase, local, resource, file, event,
                 edits, foreign, failures, typed, written, dropped, stranded, alwaysOn, unseen>>

\* MonacoTextModelService.updateModel
SetAutoSave(value) ==
  /\ value # autoSave /\ autoSave' = value
  /\ alwaysOn' = (alwaysOn /\ value = "on")
  /\ UNCHANGED <<document, timer, queue, phase, local, resource, file, event,
                 counters, typed, written, dropped, stranded, unseen>>

\* Its local variables and its place in the queue are gone.
Done ==
  /\ queue' = Tail(queue)
  /\ changes' = <<>> /\ content' = <<>> /\ seen' = NoStat

\* The head of the queue is done; run() swallows what it threw.
Finish == Done /\ phase' = "idle"

Live == Head(queue).live
Running(op, p) == queue # <<>> /\ Head(queue).op = op /\ phase = p

-----------------------------------------------------------------------------
(* doSync                                                                  *)

StartSync ==
  /\ Running("sync", "idle")
  /\ IF ~Live \/ dirty
     THEN Finish
     ELSE phase' = "resolveStat" /\ UNCHANGED <<queue, local>>
  /\ UNCHANGED <<document, autoSave, timer, resource, file, event, counters, typed, written,
                 dropped, stranded, alwaysOn, unseen>>

\* resolveContent looks at the stat first and reads then.  A file that is not
\* there makes the resource forget its stat, and ends the sync.
ResolveStat ==
  /\ Running("sync", "resolveStat")
  /\ IF file.exists
     THEN /\ seen' = Stat /\ phase' = "resolveRead"
          /\ UNCHANGED <<queue, changes, content, stat>>
     ELSE stat' = NoStat /\ Finish
  /\ UNCHANGED <<document, autoSave, timer, probes, file, event, counters, typed, written,
                 dropped, stranded, alwaysOn, unseen>>

\* (A file deleted in between fails the read: nothing is set.)
ResolveRead ==
  /\ Running("sync", "resolveRead")
  /\ IF file.exists
     THEN /\ content' = file.content /\ phase' = "resolved"
          /\ UNCHANGED <<queue, changes, seen>>
     ELSE Finish
  /\ UNCHANGED <<document, autoSave, timer, resource, file, event, counters, typed, written,
                 dropped, stranded, alwaysOn, unseen>>

\* Defect: an edit during the read is not noticed.
AlwaysApplies == TRUE

SyncApplies == Live /\ ~dirty

\* The resource takes the stat, even if the model then leaves the text alone.
SyncReply ==
  /\ Running("sync", "resolved")
  /\ stat' = seen
  /\ text' = IF SyncApplies THEN content ELSE text
  /\ unseen' = (unseen /\ ~(SyncApplies /\ seen = Stat))
  /\ Finish
  /\ UNCHANGED <<dirty, contentChanges, autoSave, timer, probes, file, event, counters, typed,
                 written, dropped, stranded, alwaysOn>>

-----------------------------------------------------------------------------
(* FileResource.sync on an event of the watcher.                           *)

Watched ==
  /\ event /\ event' = FALSE
  /\ probes' = probes \cup {stat}
  /\ UNCHANGED <<document, autoSave, timer, queue, phase, local, stat, file, history>>

\* Defect: a file that was modified after the stat is in sync.
InSyncIfThere(s) == file.exists

isInSync(s) == IF s = NoStat THEN ~file.exists ELSE file.exists /\ s >= file.version

\* MonacoEditorModel.sync, if the stat is no longer that of the file.
Probed(s) ==
  /\ s \in probes /\ probes' = probes \ {s}
  /\ queue' = IF isInSync(s) THEN queue
              ELSE Append(Cancelled(queue, "sync"), Operation("sync", TRUE))
  /\ UNCHANGED <<document, autoSave, timer, phase, local, stat, file, event, history>>

-----------------------------------------------------------------------------
(* doSave                                                                  *)

StartSave ==
  /\ Running("save", "idle")
  /\ IF Live THEN phase' = "willSave" /\ UNCHANGED <<queue, local>> ELSE Finish
  /\ UNCHANGED <<document, autoSave, timer, resource, file, event, counters, typed, written,
                 dropped, stranded, alwaysOn, unseen>>

\* A participant of onWillSaveModel edits: ignoreDirty, but the change counts.
ParticipantEdits ==
  /\ Running("save", "willSave") /\ Live
  /\ edits < MaxEdits /\ edits' = edits + 1
  /\ text' = Append(text, edits + 1)
  /\ contentChanges' = pushContentChanges(Len(text))
  /\ UNCHANGED <<dirty, autoSave, timer, queue, phase, local, resource, file, event,
                 foreign, failures, saves, typed, written, dropped, stranded, alwaysOn, unseen>>

\* Defect: the changes stay after they were handed to a save.
KeepChanges == contentChanges
ClearedChanges == <<>>

\* popContentChanges and getValue; then Resource.save tries the changes, unless
\* they are longer than the text, or the resource was not read.
PopChanges ==
  /\ Running("save", "willSave")
  /\ IF Live /\ contentChanges # <<>>
     THEN /\ changes' = contentChanges /\ contentChanges' = ClearedChanges
          /\ content' = text
          /\ \/ phase' = "update" /\ stat # NoStat
             \/ phase' = "getStat"
          /\ seen' = stat
          /\ UNCHANGED <<queue>>
     ELSE Finish /\ UNCHANGED contentChanges
  /\ stranded' = (stranded \/ (~Live /\ ~dirty /\ contentChanges # <<>>))
  /\ UNCHANGED <<text, dirty, autoSave, timer, resource, file, event, counters, typed, written,
                 dropped, alwaysOn, unseen>>

\* The save ends without success; what it popped is forgotten.
GiveUp ==
  /\ Finish
  /\ dropped' = (dropped \/ changes # <<>>)

\* saveContentChanges threw: the whole text is saved, unless cancelled.
ChangesFailed ==
  IF Live THEN phase' = "getStat" /\ UNCHANGED <<queue, local, dropped>> ELSE GiveUp

\* updateContent compares the stats, applies the changes, and takes the new stat.
UpdateCheck ==
  /\ Running("save", "update")
  /\ IF Stat = seen
     THEN phase' = "updateWrite" /\ UNCHANGED <<queue, local, dropped>>
     ELSE ChangesFailed
  /\ UNCHANGED <<document, autoSave, timer, resource, file, event, counters, typed, written,
                 stranded, alwaysOn, unseen>>

UpdateWrite ==
  /\ Running("save", "updateWrite")
  /\ IF file.exists
     THEN /\ WriteFile(applyContentChanges(file.content, changes))
          /\ changes' = <<>> /\ phase' = "updateStat" /\ unseen' = FALSE
          /\ UNCHANGED <<queue, content, seen, dropped>>
     ELSE ChangesFailed /\ UNCHANGED <<file, event, written, unseen>>
  /\ UNCHANGED <<document, autoSave, timer, resource, counters, typed, stranded, alwaysOn>>

\* The save succeeded; the model is clean unless the save was cancelled.
Saved ==
  /\ stat' = Stat
  /\ dirty' = (dirty /\ ~Live)
  /\ Finish

UpdateStat ==
  /\ Running("save", "updateStat")
  /\ IF file.exists
     THEN Saved /\ UNCHANGED dropped
     ELSE ChangesFailed /\ UNCHANGED <<stat, dirty>>
  /\ UNCHANGED <<text, contentChanges, autoSave, timer, probes, file, event, counters, typed,
                 written, stranded, alwaysOn, unseen>>

\* doSaveContents asks for the stat anew, and sets the content or creates the file.
GetStat ==
  /\ Running("save", "getStat")
  /\ seen' = Stat
  /\ phase' = IF file.exists THEN "setCheck" ELSE "create"
  /\ UNCHANGED <<document, autoSave, timer, queue, changes, content, resource, file, event,
                 history>>

\* setContent: if the stats differ the user decides whether to overwrite.
SetCheck ==
  /\ Running("save", "setCheck")
  /\ \/ file.exists /\ phase' = "setWrite" /\ UNCHANGED <<queue, local, dropped>>
     \/ Stat # seen /\ GiveUp
  /\ UNCHANGED <<document, autoSave, timer, resource, file, event, counters, typed, written,
                 stranded, alwaysOn, unseen>>

\* createFile
CreateCheck ==
  /\ Running("save", "create")
  /\ IF file.exists
     THEN GiveUp
     ELSE phase' = "setWrite" /\ UNCHANGED <<queue, local, dropped>>
  /\ UNCHANGED <<document, autoSave, timer, resource, file, event, counters, typed, written,
                 stranded, alwaysOn, unseen>>

SetWrite ==
  /\ Running("save", "setWrite")
  /\ WriteFile(content)
  /\ changes' = <<>> /\ phase' = "setStat" /\ unseen' = FALSE
  /\ UNCHANGED <<document, autoSave, timer, queue, content, seen, resource, counters, typed,
                 dropped, stranded, alwaysOn>>

SetStat ==
  /\ Running("save", "setStat")
  /\ IF file.exists
     THEN Saved /\ UNCHANGED dropped
     ELSE GiveUp /\ UNCHANGED <<stat, dirty>>
  /\ UNCHANGED <<text, contentChanges, autoSave, timer, probes, file, event, counters, typed,
                 written, stranded, alwaysOn, unseen>>

\* A call of the head of the queue is rejected, for a reason of its own.
CallFails ==
  /\ failures < MaxFailures /\ failures' = failures + 1
  /\ \/ phase \in {"update", "updateWrite", "updateStat"} /\ ChangesFailed
     \/ phase \in {"getStat", "setCheck", "create", "setWrite", "setStat"} /\ GiveUp
     \/ phase \in {"resolveStat", "resolveRead"} /\ Finish /\ UNCHANGED dropped
  /\ UNCHANGED <<document, autoSave, timer, resource, file, event, edits, foreign, saves, typed, written,
                 stranded, alwaysOn, unseen>>

-----------------------------------------------------------------------------
SaveStep ==
  \/ StartSave \/ PopChanges \/ UpdateCheck \/ UpdateWrite \/ UpdateStat
  \/ GetStat \/ SetCheck \/ CreateCheck \/ SetWrite \/ SetStat
SyncStep == StartSync \/ ResolveStat \/ ResolveRead \/ SyncReply

Next ==
  \/ \E at \in {0, Len(text)} : Type(at)
  \/ \E value \in AutoSaves : SetAutoSave(value)
  \/ TimerFires \/ Save \/ ParticipantEdits
  \/ SaveStep \/ SyncStep \/ CallFails
  \/ Watched \/ \E s \in probes : Probed(s)
  \/ ForeignWrites \/ ForeignDeletes

Spec == Init /\ [][Next]_vars

\* Timers fire, the promises of the queue and the calls of the file system go on,
\* the watcher reports, the user answers.
Fairness ==
  /\ WF_vars(TimerFires) /\ WF_vars(SaveStep) /\ WF_vars(SyncStep)
  /\ WF_vars(Watched) /\ WF_vars(\E s \in probes : Probed(s))

FairSpec == Spec /\ Fairness

-----------------------------------------------------------------------------
(* Properties.                                                             *)

Phases == {"idle", "willSave", "update", "updateWrite", "updateStat", "getStat", "setCheck",
           "create", "setWrite", "setStat", "resolveStat", "resolveRead", "resolved"}

Changes == [at : Nat, atom : Int]

\* Every variable keeps its type.
TypeOK ==
  /\ text \in Seq(Int) /\ content \in Seq(Int) /\ file.content \in Seq(Int)
  /\ changes \in Seq(Changes) /\ contentChanges \in Seq(Changes) /\ written \subseteq Int
  /\ dirty \in BOOLEAN /\ autoSave \in {"on", "off"} /\ timer \in {"none", "live", "cancelled"}
  /\ queue \in Seq([op : {"save", "sync"}, live : BOOLEAN])
  /\ phase \in Phases /\ (phase # "idle" => queue # <<>>)
  /\ seen \in Nat \cup {NoStat} /\ stat \in Nat \cup {NoStat}
  /\ probes \subseteq Nat \cup {NoStat}
  /\ file.exists \in BOOLEAN /\ file.version \in Nat /\ event \in BOOLEAN
  /\ edits \in 0 .. MaxEdits /\ foreign \in 0 .. MaxForeign /\ failures \in 0 .. MaxFailures
  /\ saves \in 0 .. MaxSaves
  /\ typed \subseteq 1 .. edits
  /\ dropped \in BOOLEAN /\ stranded \in BOOLEAN /\ alwaysOn \in BOOLEAN
  /\ unseen \in BOOLEAN

\* While nobody else writes and no save gave up, the file and the changes not yet
\* written are the text: at every moment, through cancelled saves, edits during
\* a save, edits of participants and the retry with the whole text, each change
\* is applied once, to the text it was made in.
TextIsFileAndChanges ==
  alwaysOn /\ foreign = 0 /\ ~dropped /\ ~stranded =>
    applyContentChanges(file.content, changes \o contentChanges) = text

\* With auto save on, changes not yet handed to a save are shown by the dirty
\* mark, or a save that is not cancelled is about to take them.
UnsavedIsShown ==
  alwaysOn /\ contentChanges # <<>> =>
    \/ dirty
    \/ \E i \in DOMAIN queue :
         queue[i].op = "save" /\ queue[i].live /\ (i = 1 => phase \in {"idle", "willSave"})

\* With auto save on, what was typed leaves the editor for another program's text
\* only after it was written to the file.
TypedNotOverwritten ==
  [][alwaysOn /\ ~dropped => typed \cap (ToSet(text) \ ToSet(text')) \subseteq written]_vars

\* What was typed gets to the file, however edits and saves cancel one another.
Undisturbed == alwaysOn /\ foreign = 0 /\ failures = 0
EditsWritten ==
  []Undisturbed => <>[](typed \subseteq written)

\* Another program's text is shown in the end if the user does not edit.
ForeignShown ==
  [](edits = 0 /\ failures = 0) => <>[](file.exists => text = file.content)

\* What FileShouldOverwrite says: a save notices that the file was modified by
\* somebody else since it was opened, and asks, before it is overwritten.
NoticedBeforeOverwrite ==
  [][phase = "setWrite" /\ phase' = "setStat" /\ unseen /\ file.exists => Stat # seen]_vars
=============================================================================
