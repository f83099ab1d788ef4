-------------------------- MODULE GitWatchingProofs --------------------------
(***************************************************************************)
(* Proofs about GitWatching: its variables keep their types, and polling   *)
(* never stops for a repository that is watched.                           *)
(***************************************************************************)
EXTENDS GitWatching, FiniteSetTheorems, TLAPS

\* Every operation on a repository's watcher gives one of the type, and those that
\* schedule give one whose timer runs.
LEMMA WatcherOperations ==
  ASSUME NEW w \in Watchers, NEW b \in BOOLEAN
  PROVE  /\ Scheduled(w, b) \in Watchers /\ Scheduled(w, b).timer
         /\ Cleared(w) \in Watchers
         /\ Synced(w) \in Watchers /\ Synced(w).timer
  BY DEF Watchers, Scheduled, Cleared, Synced

LEMMA FreshType == Fresh \in Watchers
  BY DEF Fresh, Watchers

\* What a sequence holds, and what is left when an element is taken out.
LEMMA Elements ==
  ASSUME NEW T, NEW s \in Seq(T), NEW i \in DOMAIN s
  PROVE  s[i] \in T /\ RemoveAt(s, i) \in Seq(T)
<1>1. s[i] \in T OBVIOUS
<1>2. /\ i \in Int /\ 1 <= i /\ i <= Len(s) /\ Len(s) \in Nat
  OBVIOUS
<1>3. SubSeq(s, 1, i - 1) \in Seq(T) /\ SubSeq(s, i + 1, Len(s)) \in Seq(T)
  BY <1>2
<1> QED BY <1>1, <1>3 DEF RemoveAt

\* A poll that has ended is off the list of those under way.
LEMMA PolledType ==
  ASSUME TypeOK, NEW r \in Repos, NEW i \in DOMAIN watcher[r].polls
  PROVE  Polled(r, i) \in Watchers /\ watcher[r].polls[i].value \in Values
<1> DEFINE P == [initial : BOOLEAN, value : Values]
<1>1. watcher[r] \in Watchers BY DEF TypeOK
<1>2. watcher[r].polls \in Seq(P) BY <1>1 DEF Watchers
<1>3. watcher[r].polls[i] \in P /\ RemoveAt(watcher[r].polls, i) \in Seq(P)
  <2> HIDE DEF P
  <2> QED BY <1>2, Elements
<1> QED BY <1>1, <1>3 DEF Polled, Watchers

\* What is released is a watcher as it was, or a fresh one.
LEMMA ReleasedType ==
  ASSUME TypeOK, NEW refs
  PROVE  Released(refs) \in [Repos -> Watchers]
  BY FreshType DEF Released, TypeOK

LEMMA InitType == Init => TypeOK
<1> SUFFICES ASSUME Init PROVE TypeOK
  OBVIOUS
<1>1. Cardinality({}) = 0 /\ 1 \in Values /\ 1 \in Nat \ {0}
  BY GitAssumption, FS_EmptySet DEF Values
<1>2. watcher \in [Repos -> Watchers] BY FreshType DEF Init
<1>3. /\ connection \in 0 .. MaxConnections /\ isOpen \in BOOLEAN
      /\ connectionPromise \in {0, connection}
  <2>1. connection = 0 /\ isOpen = FALSE /\ connectionPromise = 0 BY DEF Init, ProxyInit
  <2>2. 0 \in 0 .. MaxConnections BY ProxyAssumption
  <2> QED BY <2>1, <2>2
<1>4. operations \in 0 .. MaxOperations /\ failures \in 0 .. MaxFailures
  BY GitAssumption DEF Init
<1>5. /\ watchParams \in [Locals -> Repos \cup {NoRepo}]
      /\ actual \in [Repos -> Values] /\ exists \in [Repos -> BOOLEAN]
  BY <1>1 DEF Init
<1>6. /\ selected \in Repos \cup {NoRepo} /\ started \in BOOLEAN /\ handlers = {}
      /\ listening \in BOOLEAN /\ overtaken \in BOOLEAN
      /\ watcherSequence \in Nat \ {0} /\ serverSequence \in Nat \ {0}
  BY <1>1 DEF Init
<1> QED BY <1>2, <1>3, <1>4, <1>5, <1>6 DEF TypeOK

\* The variables of TypeOK that the browser's steps leave alone.
LEMMA BrowserType ==
  TypeOK /\ (\E r \in Repos : Select(r)) => TypeOK'
<1> SUFFICES ASSUME TypeOK, NEW r \in Repos, Select(r) PROVE TypeOK'
  OBVIOUS
<1> DEFINE l == watcherSequence
<1>1. l \in Locals /\ l + 1 \in Nat \ {0} BY DEF Select, TypeOK
<1>2. SelectionIs(r) BY DEF Select
<1>3. handlers' \subseteq Handlers
  BY <1>1 DEF Select, TypeOK, Handlers
<1>4. watchParams' \in [Locals -> Repos \cup {NoRepo}]
  BY <1>1 DEF Select, StillWatched, TypeOK
<1>5. watcherSequence' \in Nat \ {0} BY <1>1 DEF Select
<1> QED BY <1>2, <1>3, <1>4, <1>5 DEF SelectionIs, TypeOK, repoVars, bounds, serverVars

LEMMA StepType == TypeOK /\ [Next]_vars => TypeOK'
<1> SUFFICES ASSUME TypeOK, [Next]_vars PROVE TypeOK'
  OBVIOUS
<1>1. CASE \E r \in Repos : Select(r)
  BY <1>1, BrowserType
<1>2. CASE \E r \in Repos : GitOperation(r)
  <2>0. PICK r \in Repos : GitOperation(r) BY <1>2
  <2>1. Synced(watcher[r]) \in Watchers BY WatcherOperations DEF TypeOK
  <2>2. watcher' \in [Repos -> Watchers] BY <2>0, <2>1 DEF GitOperation, TypeOK
  <2>3. operations' \in 0 .. MaxOperations BY <2>0, GitAssumption DEF GitOperation, TypeOK
  <2> QED BY <2>0, <2>2, <2>3 DEF GitOperation, TypeOK, proxyVars, trackerVars, localVars, serverVars, repoVars
<1>3. CASE \E r \in Repos : StatusChanges(r)
  <2>0. PICK r \in Repos : StatusChanges(r) BY <1>3
  <2>1. actual' \in [Repos -> Values] BY <2>0, GitAssumption DEF StatusChanges, TypeOK, Values
  <2> QED BY <2>0, <2>1 DEF StatusChanges, TypeOK, proxyVars, trackerVars, localVars, serverVars, bounds
<1>4. CASE \E r \in Repos : IsDeleted(r)
  BY <1>4 DEF IsDeleted, TypeOK, proxyVars, trackerVars, localVars, serverVars, bounds
<1>5. CASE \E r \in Repos : TimerFires(r)
  <2>0. PICK r \in Repos : TimerFires(r) BY <1>5
  <2> DEFINE p == [initial |-> watcher[r].initial, value |-> actual[r]]
  <2>1. watcher[r] \in Watchers /\ p \in [initial : BOOLEAN, value : Values]
    BY DEF TypeOK, Watchers
  <2>2. Append(watcher[r].polls, p) \in Seq([initial : BOOLEAN, value : Values])
    BY <2>1 DEF Watchers
  <2>3. watcher' = [watcher EXCEPT ![r] = [@ EXCEPT !.timer = FALSE, !.initial = FALSE,
                                                    !.polls = Append(watcher[r].polls, p)]]
    BY <2>0 DEF TimerFires, TypeOK
  <2>4. watcher' \in [Repos -> Watchers] BY <2>1, <2>2, <2>3 DEF TypeOK, Watchers
  <2> QED BY <2>0, <2>4 DEF TimerFires, TypeOK, proxyVars, trackerVars, localVars, serverVars, repoVars, bounds
<1>6. CASE \E r \in Repos : \E i \in DOMAIN watcher[r].polls : PollEnds(r, i)
  <2>r. PICK r \in Repos : \E i \in DOMAIN watcher[r].polls : PollEnds(r, i) BY <1>6
  <2>0. PICK i \in DOMAIN watcher[r].polls : PollEnds(r, i) BY <2>r
  <2>1. Polled(r, i) \in Watchers /\ watcher[r].polls[i].value \in Values
    BY PolledType
  <2>2. Scheduled(Polled(r, i), FALSE) \in Watchers BY <2>1, WatcherOperations
  <2>3. \A v \in Values : Scheduled([Polled(r, i) EXCEPT !.status = v], FALSE) \in Watchers
    <3> SUFFICES ASSUME NEW v \in Values
                 PROVE  Scheduled([Polled(r, i) EXCEPT !.status = v], FALSE) \in Watchers
      OBVIOUS
    <3>1. [Polled(r, i) EXCEPT !.status = v] \in Watchers BY <2>1 DEF Watchers
    <3> QED BY <3>1, WatcherOperations
  <2>4. watcher' \in [Repos -> Watchers] /\ failures' \in 0 .. MaxFailures
    <3>1. CASE PollFails(r, i)
      <4>1. watcher' \in [Repos -> Watchers] BY <3>1, <2>2 DEF PollFails, TypeOK
      <4>2. failures' \in 0 .. MaxFailures BY <3>1, GitAssumption DEF PollFails, TypeOK
      <4> QED BY <4>1, <4>2
    <3>2. CASE PollFindsNone(r, i) BY <3>2, <2>1 DEF PollFindsNone, TypeOK
    <3>3. CASE PollAnswers(r, i)
      <4>1. PICK v \in {watcher[r].polls[i].value, actual[r]} :
              /\ watcher' = [watcher EXCEPT ![r] =
                               Scheduled([Polled(r, i) EXCEPT !.status = v], FALSE)]
              /\ UNCHANGED failures
        BY <3>3 DEF PollAnswers
      <4>2. v \in Values BY <2>1 DEF TypeOK
      <4>3. Scheduled([Polled(r, i) EXCEPT !.status = v], FALSE) \in Watchers BY <2>3, <4>2
      <4> QED BY <4>1, <4>3 DEF TypeOK
    <3> QED BY <2>0, <3>1, <3>2, <3>3 DEF PollEnds
  <2> QED BY <2>0, <2>4 DEF PollEnds, TypeOK, trackerVars, localVars, serverVars, repoVars
<1>7. CASE Deselect
  <2>1. watchParams' \in [Locals -> Repos \cup {NoRepo}]
    BY <1>7 DEF Deselect, StillWatched, TypeOK
  <2> QED BY <1>7, <2>1 DEF Deselect, SelectionIs, TypeOK, repoVars, bounds, serverVars
<1>8. CASE InitReads
  <2>1. selected \in Repos BY <1>8 DEF InitReads, TypeOK
  <2>2. handlers' \subseteq Handlers
    BY <1>8, <2>1 DEF InitReads, TypeOK, Handlers
  <2> QED BY <1>8, <2>2 DEF InitReads, TypeOK, proxyVars, localVars, serverVars, repoVars, bounds
<1>9. CASE WatchAnswered
  <2>1. \A h \in handlers : [h EXCEPT !.phase = "status", !.value = actual[h.repo]] \in Handlers
    BY DEF TypeOK, Handlers
  <2> DEFINE of == {h \in handlers : Head(answers).first /\ h.local = Head(answers).local}
  <2>0. handlers' = (handlers \ of) \cup
          {[h EXCEPT !.phase = "status", !.value = actual[h.repo]] : h \in of}
    BY <1>9 DEF WatchAnswered
  <2>2. handlers' \subseteq Handlers
    <3>1. \A h \in handlers' : h \in handlers \/ \E g \in handlers :
            h = [g EXCEPT !.phase = "status", !.value = actual[g.repo]]
      BY <2>0
    <3>2. \A h \in handlers' : h \in Handlers
      BY <3>1, <2>1, Zenon DEF TypeOK
    <3> QED BY <3>2
  <2>3. listening' \in BOOLEAN BY <1>9 DEF WatchAnswered, TypeOK
  <2> QED BY <1>9, <2>2, <2>3 DEF WatchAnswered, TypeOK, serverVars, repoVars, bounds
<1>10. CASE EventArrives
  BY <1>10 DEF EventArrives, TypeOK, localVars, serverVars, repoVars, bounds
<1>11. CASE \E h \in handlers : StatusAnswered(h)
  BY <1>11 DEF StatusAnswered, TypeOK, proxyVars, localVars, serverVars, repoVars, bounds
<1>12. CASE Connect
  BY <1>12, ProxyAssumption DEF Connect, Listen, TypeOK, trackerVars, localVars, repoVars, bounds
<1>13. CASE ServeWatch
  <2>1. \A r \in Repos : Scheduled(watcher[r], TRUE) \in Watchers BY WatcherOperations DEF TypeOK
  <2>2. watcher' \in [Repos -> Watchers] BY <1>13, <2>1 DEF ServeWatch, TypeOK
  <2>3. serverSequence' \in Nat \ {0} BY <1>13 DEF ServeWatch, TypeOK
  <2>4. UNCHANGED <<connection, isOpen, connectionPromise, trackerVars, localVars, repoVars, bounds>>
    BY <1>13 DEF ServeWatch, Serve
  <2> QED BY <2>2, <2>3, <2>4 DEF TypeOK, trackerVars, localVars, repoVars, bounds
<1>14. CASE ServeUnwatch
  <2>1. watcher' \in [Repos -> Watchers] BY <1>14, ReleasedType DEF ServeUnwatch
  <2> QED BY <1>14, <2>1 DEF ServeUnwatch, Serve, TypeOK, trackerVars, localVars, repoVars, bounds
<1>15. CASE ConnectionLost
  <2>1. watcher' \in [Repos -> Watchers] BY <1>15, ReleasedType DEF ConnectionLost
  <2> QED BY <1>15, <2>1 DEF ConnectionLost, Break, TypeOK, localVars, repoVars, bounds
<1>16. CASE UNCHANGED vars
  BY <1>16 DEF vars, TypeOK, proxyVars, trackerVars, localVars, serverVars, repoVars, bounds
<1> QED
  BY <1>1, <1>2, <1>3, <1>4, <1>5, <1>6, <1>7, <1>8, <1>9, <1>10, <1>11, <1>12, <1>13,
     <1>14, <1>15, <1>16 DEF Next, Polling

\* Every variable keeps its type, for any number of repositories, selections, breaks,
\* changes, operations and failures.
THEOREM TypeCorrect == Spec => []TypeOK
<1> QED BY InitType, StepType, PTL DEF Spec

-----------------------------------------------------------------------------
(* Polling goes on.                                                        *)

LEMMA PollingStep == TypeOK /\ PollingGoesOn /\ [Next]_vars => PollingGoesOn'
<1> SUFFICES ASSUME TypeOK, PollingGoesOn, [Next]_vars PROVE PollingGoesOn'
  OBVIOUS
<1>a. \A r \in Repos : watcher[r] \in Watchers BY DEF TypeOK
<1>b. ASSUME NEW refs, refs \subseteq registered, registered' = refs, watcher' = Released(refs),
             exists' = exists
      PROVE  PollingGoesOn'
  BY <1>b DEF PollingGoesOn, Released, Referenced
<1>1. CASE \E r \in Repos : GitOperation(r)
  <2>0. PICK r \in Repos : GitOperation(r) BY <1>1
  <2>1. Synced(watcher[r]).timer BY <1>a, WatcherOperations
  <2> QED BY <2>0, <2>1 DEF GitOperation, PollingGoesOn, Referenced, TypeOK, serverVars, repoVars
<1>2. CASE \E r \in Repos : TimerFires(r)
  <2>0. PICK r \in Repos : TimerFires(r) BY <1>2
  <2> DEFINE p == [initial |-> watcher[r].initial, value |-> actual[r]]
  <2>1. Append(watcher[r].polls, p) # <<>> BY <1>a DEF Watchers
  <2>2. watcher'[r].polls = Append(watcher[r].polls, p) BY <2>0, <1>a DEF TimerFires, TypeOK, Watchers
  <2>3. \A q \in Repos \ {r} : watcher'[q] = watcher[q] BY <2>0 DEF TimerFires, TypeOK
  <2> QED BY <2>0, <2>1, <2>2, <2>3 DEF TimerFires, PollingGoesOn, Referenced, serverVars, repoVars
<1>3. CASE \E r \in Repos : \E i \in DOMAIN watcher[r].polls : PollEnds(r, i)
  <2>r. PICK r \in Repos : \E i \in DOMAIN watcher[r].polls : PollEnds(r, i) BY <1>3
  <2>0. PICK i \in DOMAIN watcher[r].polls : PollEnds(r, i) BY <2>r
  <2>1. Polled(r, i) \in Watchers /\ watcher[r].polls[i].value \in Values
    BY PolledType
  <2>2. exists[r] => watcher'[r].timer
    <3>1. CASE PollFails(r, i) BY <3>1, <2>1, WatcherOperations DEF PollFails, TypeOK
    <3>2. CASE PollFindsNone(r, i) BY <3>2 DEF PollFindsNone
    <3>3. CASE PollAnswers(r, i)
      <4>1. \A v \in Values : [Polled(r, i) EXCEPT !.status = v] \in Watchers
        BY <2>1 DEF Watchers
      <4>2. actual[r] \in Values BY DEF TypeOK
      <4>3. PICK v \in {watcher[r].polls[i].value, actual[r]} :
              watcher' = [watcher EXCEPT ![r] =
                            Scheduled([Polled(r, i) EXCEPT !.status = v], FALSE)]
        BY <3>3 DEF PollAnswers
      <4>4. Scheduled([Polled(r, i) EXCEPT !.status = v], FALSE).timer
        BY <2>1, <4>1, <4>2, WatcherOperations
      <4> QED BY <4>3, <4>4 DEF TypeOK
    <3> QED BY <2>0, <3>1, <3>2, <3>3 DEF PollEnds
  <2>3. \A q \in Repos \ {r} : watcher'[q] = watcher[q]
    BY <2>0 DEF PollEnds, PollFails, PollFindsNone, PollAnswers, TypeOK
  <2> QED BY <2>0, <2>2, <2>3 DEF PollEnds, PollingGoesOn, Referenced, serverVars, repoVars
<1>4. CASE ServeWatch
  <2> DEFINE c == Head(requests)
  <2>1. \A r \in Repos : watcher'[r] = IF r = c.repo THEN Scheduled(watcher[r], TRUE) ELSE watcher[r]
    BY <1>4 DEF ServeWatch, TypeOK
  <2>2. \A r \in Repos : Scheduled(watcher[r], TRUE).timer BY <1>a, WatcherOperations
  <2>3. \A r \in Repos \ {c.repo} : Referenced(registered', r) => Referenced(registered, r)
    BY <1>4 DEF ServeWatch, Referenced
  <2>4. exists' = exists BY <1>4 DEF ServeWatch, repoVars
  <2> QED BY <2>1, <2>2, <2>3, <2>4 DEF PollingGoesOn
<1>5. CASE ServeUnwatch
  BY <1>5, <1>b DEF ServeUnwatch, repoVars
<1>6. CASE ConnectionLost
  BY <1>6, <1>b DEF ConnectionLost, repoVars
<1>7. CASE \E r \in Repos : IsDeleted(r)
  BY <1>7 DEF IsDeleted, PollingGoesOn, TypeOK, serverVars
<1>8. CASE UNCHANGED <<registered, watcher, exists>>
  BY <1>8 DEF PollingGoesOn
<1>9. ASSUME \/ \E r \in Repos : Select(r) \/ StatusChanges(r)
             \/ Deselect \/ InitReads \/ WatchAnswered \/ EventArrives
             \/ \E h \in handlers : StatusAnswered(h)
             \/ Connect \/ UNCHANGED vars
      PROVE  UNCHANGED <<registered, watcher, exists>>
  BY <1>9 DEF Select, Deselect, SelectionIs, StatusChanges, InitReads, WatchAnswered,
     EventArrives, StatusAnswered, Connect, vars, serverVars, repoVars
<1> QED BY <1>1, <1>2, <1>3, <1>4, <1>5, <1>6, <1>7, <1>8, <1>9 DEF Next, Polling

\* Polling never stops for a repository that a server watches, for any number of
\* repositories, polls at a time, syncs, failures and breaks.
THEOREM PollingNeverStops == Spec => []PollingGoesOn
<1>1. Init => PollingGoesOn BY DEF Init, PollingGoesOn, Referenced
<1> QED BY <1>1, InitType, StepType, PollingStep, PTL DEF Spec
=============================================================================
