----------------------------- MODULE GitWatching -----------------------------
(***************************************************************************)
(* The status of the selected git repository: GitRepositoryTracker in the  *)
(* browser watches it through ReconnectingGitWatcherServer, a              *)
(* DugiteGitWatcherServer per connection numbers what is watched, and one  *)
(* GitRepositoryWatcher per repository polls its status for them.          *)
(*                                                                         *)
(* A watcher that is disposed of while a status is under way, or that a    *)
(* git operation creates for a repository nobody watches, polls on with    *)
(* nobody listening: it is left out.                                       *)
(***************************************************************************)
EXTENDS JsonRpcProxy, FiniteSets

CONSTANTS Repos, NoRepo,
          MaxSelects, MaxChanges, MaxOperations, MaxFailures,  \* bounds
          Removable  \* repositories that may be deleted

ASSUME GitAssumption ==
  /\ NoRepo \notin Repos /\ Removable \subseteq Repos
  /\ MaxSelects \in Nat /\ MaxChanges \in Nat /\ MaxOperations \in Nat /\ MaxFailures \in Nat

Locals == 1 .. MaxSelects
Values == 1 .. MaxChanges + 1

VARIABLES
  \* GitRepositoryTracker
  selected,   \* selectedRepository of the provider
  started,    \* init has asked for the status
  handlers,   \* runs of its handler, and init, that wait: [local, repo, phase, value]
  held,       \* toDispose: local ids to unwatch
  listening,  \* toDispose holds a listener of onGitEvent
  status,     \* workingDirectoryStatus, with the repository it is of
  \* ReconnectingGitWatcherServer
  watcherSequence,
  watchParams,    \* local id -> its repository, NoRepo if not watched
  localToRemote,  \* local id -> id on the server, 0 if none
  \* DugiteGitWatcherServer of the open connection
  serverSequence,
  registered,  \* [id, local, repo]: references it holds, local is history
  \* GitRepositoryWatcher, as long as a reference to it is held
  watcher,     \* repository -> [initial, timer, status, polls]
  \* the repositories
  actual,      \* repository -> its status
  exists,
  \* history
  overtaken,   \* what set status last was older than an event or of another repository
  stolen,      \* local ids that another's unwatch deregistered
  operations, failures

trackerVars == <<selected, started, handlers, held, listening, status, overtaken>>
localVars == <<watcherSequence, watchParams, localToRemote>>
serverVars == <<serverSequence, registered, stolen>>
repoVars == <<actual, exists>>
bounds == <<operations, failures>>
vars == <<proxyVars, trackerVars, localVars, serverVars, watcher, repoVars, bounds>>

Undefined == [repo |-> NoRepo, value |-> 0]
Fresh == [initial |-> TRUE, timer |-> FALSE, status |-> 0, polls |-> <<>>]
WatchCall(l, r, first) == [op |-> "watch", local |-> l, repo |-> r, first |-> first]
UnwatchCall(remote, l) == [op |-> "unwatch", remote |-> remote, by |-> l]

Init ==
  /\ ProxyInit
  /\ selected = NoRepo /\ started = FALSE /\ handlers = {} /\ held = <<>> /\ listening = FALSE
  /\ status = Undefined /\ overtaken = FALSE
  /\ watcherSequence = 1 /\ watchParams = [l \in Locals |-> NoRepo]
  /\ localToRemote = [l \in Locals |-> 0]
  /\ serverSequence = 1 /\ registered = {} /\ stolen = {}
  /\ watcher = [r \in Repos |-> Fresh]
  /\ actual = [r \in Repos |-> 1] /\ exists = [r \in Repos |-> TRUE]
  /\ operations = 0 /\ failures = 0

-----------------------------------------------------------------------------
(* The browser.                                                            *)

\* unwatchGitChanges: the id that is forgotten is the one on the server.
Unwatched(acc, l) ==
  LET remote == acc.mapped[l]
  IN  IF remote = 0 THEN acc
      ELSE [mapped |-> [k \in Locals |-> IF k = remote THEN 0 ELSE acc.mapped[k]],
            calls |-> Append(acc.calls, UnwatchCall(remote, l))]

\* The handler of onDidChangeRepository forgets the status and disposes of what
\* it pushed on toDispose, the last first.
Left == FoldLeft(Unwatched, [mapped |-> localToRemote, calls |-> <<>>], Reverse(held))
StillWatched == [l \in Locals |-> IF l \in ToSet(held) THEN NoRepo ELSE watchParams[l]]

SelectionIs(r) ==
  /\ selected' = r /\ status' = Undefined /\ overtaken' = FALSE
  /\ held' = <<>> /\ listening' = FALSE
  /\ localToRemote' = Left.mapped
  /\ UNCHANGED <<connection, isOpen, connectionPromise, answers, started, serverVars,
                 watcher, repoVars, bounds>>

\* The handler up to its first await: a refresh of the provider runs it with the
\* same repository.
Select(r) ==
  LET l == watcherSequence
  IN  /\ l \in Locals
      /\ SelectionIs(r)
      /\ handlers' = handlers \cup {[local |-> l, repo |-> r, phase |-> "watching", value |-> 0]}
      /\ watcherSequence' = l + 1
      /\ watchParams' = [StillWatched EXCEPT ![l] = r]
      /\ Call(Append(Left.calls, WatchCall(l, r, TRUE)))

\* No repository is left to select.
Deselect ==
  /\ selected # NoRepo
  /\ SelectionIs(NoRepo)
  /\ watchParams' = StillWatched
  /\ Call(Left.calls)
  /\ UNCHANGED <<handlers, watcherSequence>>

\* The handler goes on, whatever is selected by now: it listens, and asks for
\* the status.  An answer to reconnect has no handler.
WatchAnswered ==
  LET a == Head(answers)
      of == {h \in handlers : a.first /\ h.local = a.local}
  IN  /\ answers # <<>> /\ a.op = "watch"
      /\ answers' = Tail(answers)
      /\ localToRemote' = [localToRemote EXCEPT ![a.local] = a.remote]
      /\ held' = IF a.first THEN Append(held, a.local) ELSE held
      /\ listening' = (listening \/ a.first)
      /\ handlers' = (handlers \ of) \cup
           {[h EXCEPT !.phase = "status", !.value = actual[h.repo]] : h \in of}
      /\ UNCHANGED <<connection, isOpen, connectionPromise, waiting, requests, selected, started,
                     status, overtaken, watcherSequence, watchParams, serverVars, watcher,
                     repoVars, bounds>>

\* init asks for the status of what is selected by then.
InitReads ==
  /\ ~started /\ isOpen /\ selected # NoRepo
  /\ started' = TRUE
  /\ handlers' = handlers \cup
       {[local |-> 0, repo |-> selected, phase |-> "status", value |-> actual[selected]]}
  /\ UNCHANGED <<proxyVars, selected, held, listening, status, overtaken, localVars, serverVars,
                 watcher, repoVars, bounds>>

\* The status that a handler asked for, which may be as old as the question.
StatusAnswered(h) ==
  /\ h.phase = "status"
  /\ handlers' = handlers \ {h}
  /\ IF exists[h.repo]
     THEN /\ \E v \in {h.value, actual[h.repo]} : status' = [repo |-> h.repo, value |-> v]
          /\ overtaken' = (h.repo # selected \/ status.repo = selected)
     ELSE UNCHANGED <<status, overtaken>>
  /\ UNCHANGED <<proxyVars, selected, started, held, listening, localVars, serverVars, watcher,
                 repoVars, bounds>>

\* onGitChanged: the listener takes the status of any repository.
EventArrives ==
  LET e == Head(answers)
  IN  /\ answers # <<>> /\ e.op = "event"
      /\ answers' = Tail(answers)
      /\ IF listening
         THEN /\ status' = [repo |-> e.repo, value |-> e.value]
              /\ overtaken' = (e.repo # selected)
         ELSE UNCHANGED <<status, overtaken>>
      /\ UNCHANGED <<connection, isOpen, connectionPromise, waiting, requests, selected, started,
                     handlers, held, listening, localVars, serverVars, watcher, repoVars, bounds>>

\* reconnect, on the first connection too: what waits to be sent is sent twice.
ReconnectCalls ==
  LET watched == SetToSortSeq({l \in Locals : watchParams[l] # NoRepo}, <)
  IN  [i \in DOMAIN watched |-> WatchCall(watched[i], watchParams[watched[i]], FALSE)]

Connect ==
  /\ Listen(ReconnectCalls)
  /\ serverSequence' = 1
  /\ UNCHANGED <<trackerVars, localVars, registered, stolen, watcher, repoVars, bounds>>
-----------------------------------------------------------------------------
(* The backend.                                                            *)

Referenced(refs, r) == \E w \in refs : w.repo = r

\* schedule: a timer that is set is kept, or set anew without delay.
Scheduled(w, initial) == [w EXCEPT !.initial = @ \/ initial, !.timer = TRUE]
Cleared(w) == [w EXCEPT !.timer = FALSE]
\* Defect: sync clears the timer it has set.
SyncedThenCleared(w) == Cleared(Scheduled(w, FALSE))
Synced(w) == Scheduled(Cleared(w), FALSE)

\* The last reference to a watcher is released: it is disposed of, and the
\* next one that asks for the repository gets another.
Released(refs) == [r \in Repos |-> IF Referenced(refs, r) THEN watcher[r] ELSE Fresh]

ServeWatch ==
  LET c == Head(requests)
  IN  /\ requests # <<>> /\ c.op = "watch"
      /\ registered' = registered \cup {[id |-> serverSequence, local |-> c.local, repo |-> c.repo]}
      /\ serverSequence' = serverSequence + 1
      /\ watcher' = [watcher EXCEPT ![c.repo] = Scheduled(@, TRUE)]
      /\ Serve(<<[op |-> "watch", local |-> c.local, remote |-> serverSequence,
                  first |-> c.first]>>)
      /\ UNCHANGED <<trackerVars, localVars, stolen, repoVars, bounds>>

\* An id that is not registered is refused.
ServeUnwatch ==
  LET c == Head(requests)
      named == {w \in registered : w.id = c.remote}
  IN  /\ requests # <<>> /\ c.op = "unwatch"
      /\ registered' = registered \ named
      /\ watcher' = Released(registered \ named)
      /\ stolen' = stolen \cup ({w.local : w \in named} \ {c.by})
      /\ Serve(<<>>)
      /\ UNCHANGED <<trackerVars, localVars, serverSequence, repoVars, bounds>>

\* The connection closes: calls under way are rejected, which ends the
\* handlers that wait for them, and its server releases its references.
ConnectionLost ==
  LET calls == {c \in ToSet(requests) \cup ToSet(answers) : c.op = "watch"}
  IN  /\ Break /\ connection < MaxConnections
      /\ handlers' = {h \in handlers :
                        h.phase = "watching" /\ \A c \in calls : c.first => c.local # h.local}
      /\ registered' = {} /\ watcher' = Released({})
      /\ UNCHANGED <<selected, started, held, listening, status, overtaken, localVars,
                     serverSequence, stolen, repoVars, bounds>>

\* A git operation in a watched repository has ended: its manager syncs.
GitOperation(r) ==
  /\ operations < MaxOperations /\ Referenced(registered, r)
  /\ operations' = operations + 1
  /\ watcher' = [watcher EXCEPT ![r] = Synced(@)]
  /\ UNCHANGED <<proxyVars, trackerVars, localVars, serverVars, repoVars, failures>>

\* The timer of schedule: git is asked for the status.
TimerFires(r) ==
  /\ watcher[r].timer
  /\ watcher' = [watcher EXCEPT ![r].timer = FALSE, ![r].initial = FALSE,
                   ![r].polls = Append(@, [initial |-> watcher[r].initial, value |-> actual[r]])]
  /\ UNCHANGED <<proxyVars, trackerVars, localVars, serverVars, repoVars, bounds>>

Polled(r, i) == [watcher[r] EXCEPT !.polls = RemoveAt(@, i)]

\* Defect: polling ends with a failure.
EndsAfterFailure(r, i) ==
  /\ exists[r] /\ failures < MaxFailures
  /\ failures' = failures + 1
  /\ watcher' = [watcher EXCEPT ![r] = Polled(r, i)]
  /\ UNCHANGED answers

\* git fails: polling goes on.
PollFails(r, i) ==
  /\ exists[r] /\ failures < MaxFailures
  /\ failures' = failures + 1
  /\ watcher' = [watcher EXCEPT ![r] = Scheduled(Polled(r, i), FALSE)]
  /\ UNCHANGED answers

\* The repository is not there: polling ends.
PollFindsNone(r, i) ==
  /\ ~exists[r]
  /\ watcher' = [watcher EXCEPT ![r] = Polled(r, i)]
  /\ UNCHANGED <<answers, failures>>

\* git answers with what was so when it was asked, or is so now: what
\* differs, or is asked for initially, is told to the browser.
PollAnswers(r, i) ==
  \E v \in {watcher[r].polls[i].value, actual[r]} :
    /\ exists[r]
    /\ watcher' = [watcher EXCEPT ![r] = Scheduled([Polled(r, i) EXCEPT !.status = v], FALSE)]
    /\ answers' = IF watcher[r].polls[i].initial \/ v # watcher[r].status
                  THEN Append(answers, [op |-> "event", repo |-> r, value |-> v]) ELSE answers
    /\ UNCHANGED failures

\* Two polls may be under way, and end in any order.
PollEnds(r, i) ==
  /\ PollFails(r, i) \/ PollFindsNone(r, i) \/ PollAnswers(r, i)
  /\ UNCHANGED <<connection, isOpen, connectionPromise, waiting, requests, trackerVars,
                 localVars, serverVars, repoVars, operations>>

StatusChanges(r) ==
  /\ exists[r] /\ actual[r] <= MaxChanges
  /\ actual' = [actual EXCEPT ![r] = @ + 1]
  /\ UNCHANGED <<proxyVars, trackerVars, localVars, serverVars, watcher, exists, bounds>>

IsDeleted(r) ==
  /\ r \in Removable /\ exists[r]
  /\ exists' = [exists EXCEPT ![r] = FALSE]
  /\ UNCHANGED <<proxyVars, trackerVars, localVars, serverVars, watcher, actual, bounds>>

Polling(r) == TimerFires(r) \/ \E i \in DOMAIN watcher[r].polls : PollEnds(r, i)

Next ==
  \/ \E r \in Repos : Select(r) \/ GitOperation(r) \/ StatusChanges(r) \/ IsDeleted(r)
  \/ \E r \in Repos : Polling(r)
  \/ Deselect \/ InitReads \/ WatchAnswered \/ EventArrives \/ \E h \in handlers : StatusAnswered(h)
  \/ Connect \/ ServeWatch \/ ServeUnwatch \/ ConnectionLost

Spec == Init /\ [][Next]_vars

\* Both ends handle what arrives, timers fire and git ends; the last connection is
\* not broken.  Nobody has to select, change or delete a repository.
Fairness ==
  /\ WF_vars(Connect) /\ WF_vars(ServeWatch) /\ WF_vars(ServeUnwatch)
  /\ WF_vars(WatchAnswered) /\ WF_vars(EventArrives)
  /\ WF_vars(\E h \in handlers : StatusAnswered(h))
  /\ \A r \in Repos : WF_vars(Polling(r))

FairSpec == Spec /\ Fairness
-----------------------------------------------------------------------------
(* Properties.                                                             *)

Handlers == [local : {0} \cup Locals, repo : Repos,
             phase : {"watching", "status"}, value : {0} \cup Values]
Watchers == [initial : BOOLEAN, timer : BOOLEAN, status : {0} \cup Values,
             polls : Seq([initial : BOOLEAN, value : Values])]

\* Every variable keeps its type, but for what calls and answers carry.
TypeOK ==
  /\ connection \in 0 .. MaxConnections /\ isOpen \in BOOLEAN
  /\ connectionPromise \in {0, connection}
  /\ selected \in Repos \cup {NoRepo} /\ started \in BOOLEAN
  /\ handlers \subseteq Handlers
  /\ listening \in BOOLEAN /\ overtaken \in BOOLEAN
  /\ watcherSequence \in Nat \ {0} /\ watchParams \in [Locals -> Repos \cup {NoRepo}]
  /\ serverSequence \in Nat \ {0}
  /\ watcher \in [Repos -> Watchers]
  /\ actual \in [Repos -> Values] /\ exists \in [Repos -> BOOLEAN]
  /\ operations \in 0 .. MaxOperations /\ failures \in 0 .. MaxFailures

\* However syncs, watches, failures and two polls at a time cross, polling never
\* stops for a repository that a server watches, as long as it is there.
PollingGoesOn ==
  \A r \in Repos : Referenced(registered, r) /\ exists[r] =>
    watcher[r].timer \/ watcher[r].polls # <<>>

\* When breaks and selections are over, a tracker that holds a watcher of the selected
\* repository, which no other's unwatch stopped by a stale id, shows the status the
\* repository has; unless what it was given last is an answer that came after an
\* event, or is about another repository.
StatusShown ==
  \A r \in Repos : <>[](
    selected = r /\ exists[r] /\ ~overtaken /\ (\E l \in ToSet(held) \ stolen : watchParams[l] = r)
      => status = [repo |-> r, value |-> actual[r]])
=============================================================================
