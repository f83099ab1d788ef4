----------------------- MODULE ConnectionStatusProofs -----------------------
(***************************************************************************)
(* Proofs about ConnectionStatus, for every timeout, delay of the pings    *)
(* and latency that StatusAssumption admits.                               *)
(***************************************************************************)
EXTENDS ConnectionStatus, SequenceTheorems, TLAPS

USE DEF vars, service, calls, history, ONLINE, OFFLINE, NoTimer

\* The unanswered pings, after each of the operations on them.
LEMMA PingSequences ==
  ASSUME TypeOK
  PROVE  /\ Append(inFlight, 0) \in Seq(0 .. MaxLatency) /\ Append(inFlight, 0) # <<>>
         /\ inFlight # <<>> => Tail(inFlight) \in Seq(0 .. MaxLatency)
         /\ [i \in 1 .. waiting |-> 0] \in Seq(0 .. MaxLatency)
         /\ <<>> \in Seq(0 .. MaxLatency)
<1> DEFINE S == 0 .. MaxLatency
<1>1. inFlight \in Seq(S) /\ 0 \in S /\ waiting \in Nat
  BY StatusAssumption DEF TypeOK
<1> HIDE DEF S
<1>2. Append(inFlight, 0) \in Seq(S) /\ Append(inFlight, 0) # <<>>
  <2>1. Append(inFlight, 0) \in Seq(S) /\ Len(Append(inFlight, 0)) = Len(inFlight) + 1
    BY <1>1, AppendProperties
  <2>2. Len(inFlight) \in Nat
    BY <1>1
  <2>3. Len(Append(inFlight, 0)) # 0
    BY <2>1, <2>2
  <2> QED BY <2>1, <2>3, EmptySeq
<1>3. inFlight # <<>> => Tail(inFlight) \in Seq(S)
  BY <1>1, HeadTailProperties
<1>4. [i \in 1 .. waiting |-> 0] \in Seq(S)
  BY <1>1
<1> QED BY <1>2, <1>3, <1>4 DEF S

\* One tick makes the unanswered pings older, up to the cap.
LEMMA OlderPings ==
  ASSUME TypeOK, NEW aged, aged = [i \in DOMAIN inFlight |-> OneMore(inFlight[i], MaxLatency)]
  PROVE  /\ aged \in Seq(0 .. MaxLatency)
         /\ inFlight # <<>> => /\ aged # <<>>
                               /\ Head(aged) = OneMore(Head(inFlight), MaxLatency)
                               /\ Head(inFlight) \in 0 .. MaxLatency
<1> DEFINE S == 0 .. MaxLatency
<1>1. inFlight \in Seq(S) /\ DOMAIN inFlight = 1 .. Len(inFlight) /\ Len(inFlight) \in Nat
  BY LenProperties DEF TypeOK
<1>2. \A i \in 1 .. Len(inFlight) : OneMore(inFlight[i], MaxLatency) \in S
  BY <1>1, ElementOfSeq, StatusAssumption DEF OneMore
<1>3. aged \in [1 .. Len(inFlight) -> S]
  BY <1>1, <1>2
<1>4. aged \in Seq(S) /\ Len(aged) = Len(inFlight)
  BY <1>1, <1>3
<1>5. ASSUME inFlight # <<>>
      PROVE  /\ aged # <<>>
             /\ Head(aged) = OneMore(Head(inFlight), MaxLatency)
             /\ Head(inFlight) \in S
  <2>1. Len(inFlight) \in Nat \ {0} BY <1>1, <1>5, EmptySeq
  <2>2. aged # <<>> BY <1>4, <2>1, EmptySeq
  <2>3. Head(inFlight) = inFlight[1] /\ Head(aged) = aged[1] BY <1>1, <1>4, <1>5, <2>2
  <2>4. aged[1] = OneMore(inFlight[1], MaxLatency) BY <1>1, <2>1
  <2>5. 1 \in 1 .. Len(inFlight) BY <2>1
  <2>6. inFlight[1] \in S BY <1>1, <2>5, ElementOfSeq
  <2> QED BY <2>2, <2>3, <2>4, <2>6
<1> QED BY <1>4, <1>5

-----------------------------------------------------------------------------
(* Types.                                                                  *)

\* A tick takes timers and clocks to values of their ranges.
LEMMA OneLessType ==
  ASSUME NEW n \in Nat, NEW t \in {NoTimer} \cup 0 .. n, t # 0
  PROVE  OneLess(t) \in {NoTimer} \cup 0 .. n
BY DEF OneLess

LEMMA OneMoreType ==
  ASSUME NEW n \in Nat, NEW t \in 0 .. n
  PROVE  OneMore(t, n) \in 0 .. n
BY DEF OneMore

LEMMA InitType == Init => TypeOK
<1> SUFFICES ASSUME Init PROVE TypeOK OBVIOUS
<1>1. inFlight \in Seq(0 .. MaxLatency) BY EmptySeq DEF Init
<1>2. waiting \in Nat /\ scheduledPing \in 0 .. PingDelay /\ silence \in 0 .. Cap /\ steady \in 0 .. Cap
  BY StatusAssumption DEF Init, Cap
<1> QED BY <1>1, <1>2 DEF Init, TypeOK

LEMMA ActivityType ==
  ASSUME Activity
  PROVE  /\ connectionStatus' \in {ONLINE, OFFLINE}
         /\ timer' \in {NoTimer} \cup 0 .. offlineTimeout
         /\ scheduledPing' \in {NoTimer} \cup 0 .. PingDelay
         /\ silence' \in 0 .. Cap /\ heard' \in BOOLEAN
BY StatusAssumption
   DEF Activity, updateStatus, schedulePing, StatusFor, TimerAgain, NextPing, Cap

LEMMA StepType == TypeOK /\ [Next]_vars => TypeOK'
<1> SUFFICES ASSUME TypeOK, [Next]_vars PROVE TypeOK' OBVIOUS
<1> USE StatusAssumption
<1>1. CASE TimerFires
  <2>1. timer' \in 0 .. offlineTimeout /\ connectionStatus' = OFFLINE
    BY <1>1 DEF TimerFires, updateStatus, StatusFor, TimerAgain
  <2> QED BY <1>1, <2>1 DEF TimerFires, TypeOK
<1>2. CASE PingFires
  <2>1. inFlight' \in Seq(0 .. MaxLatency)
    BY <1>2, PingSequences DEF PingFires, TypeOK
  <2>2. waiting' \in Nat /\ scheduledPing' = NoTimer
    BY <1>2 DEF PingFires, TypeOK
  <2> QED BY <1>2, <2>1, <2>2 DEF PingFires, TypeOK
<1>3. CASE PingAnswered
  BY <1>3, PingSequences, ActivityType DEF PingAnswered, TypeOK
<1>4. CASE OtherMessage
  BY <1>4, ActivityType DEF OtherMessage, TypeOK
<1>5. CASE ConnectionLost
  BY <1>5, PingSequences DEF ConnectionLost, NextPingAfterError, NextPing, TypeOK, Cap
<1>6. CASE Connected
  BY <1>6, PingSequences, ActivityType DEF Connected, TypeOK
<1>7. CASE LinkBreaks
  BY <1>7 DEF LinkBreaks, TypeOK, Cap
<1>8. CASE LinkRecovers
  BY <1>8 DEF LinkRecovers, TypeOK
<1>9. CASE Tick
  <2>1. inFlight' \in Seq(0 .. MaxLatency) BY <1>9, OlderPings DEF Tick
  <2>2. silence' \in 0 .. Cap /\ steady' \in 0 .. Cap
    <3>1. Cap \in Nat BY DEF Cap
    <3>2. silence \in 0 .. Cap /\ steady \in 0 .. Cap BY DEF TypeOK
    <3>3. OneMore(silence, Cap) \in 0 .. Cap /\ OneMore(steady, Cap) \in 0 .. Cap
      BY <3>1, <3>2, OneMoreType
    <3>4. 0 \in 0 .. Cap BY <3>1
    <3> QED BY <1>9, <3>3, <3>4 DEF Tick
  <2>3. /\ timer' \in {NoTimer} \cup 0 .. offlineTimeout
        /\ scheduledPing' \in {NoTimer} \cup 0 .. PingDelay
    <3>1. /\ timer \in {NoTimer} \cup 0 .. offlineTimeout /\ timer # 0
          /\ scheduledPing \in {NoTimer} \cup 0 .. PingDelay /\ scheduledPing # 0
      BY <1>9 DEF Tick, TypeOK
    <3>2. OneLess(timer) \in {NoTimer} \cup 0 .. offlineTimeout
      BY <3>1, OneLessType
    <3>3. OneLess(scheduledPing) \in {NoTimer} \cup 0 .. PingDelay
      BY <3>1, OneLessType
    <3> QED BY <1>9, <3>2, <3>3 DEF Tick
  <2> QED BY <1>9, <2>1, <2>2, <2>3 DEF Tick, TypeOK
<1>10. CASE UNCHANGED vars
  BY <1>10 DEF TypeOK
<1> QED BY <1>1, <1>2, <1>3, <1>4, <1>5, <1>6, <1>7, <1>8, <1>9, <1>10 DEF Next

\* TypeOK is an invariant: no operation sets a timer, a status or the list of
\* pings to anything else.
THEOREM TypeCorrect == Spec => []TypeOK
<1>1. Init => TypeOK BY InitType
<1>2. TypeOK /\ [Next]_vars => TypeOK' BY StepType
<1> QED BY <1>1, <1>2, PTL DEF Spec

-----------------------------------------------------------------------------
(* The offline timer measures the silence of the backend.                  *)

TimerInv ==
  /\ heard <=> timer # NoTimer
  /\ connectionStatus = ONLINE /\ heard => timer + silence = offlineTimeout
  /\ connectionStatus = OFFLINE => heard /\ silence >= offlineTimeout

LEMMA InitTimer == Init => TimerInv
BY DEF Init, TimerInv

LEMMA ActivityTimer == ASSUME Activity PROVE TimerInv'
BY StatusAssumption DEF Activity, updateStatus, StatusFor, TimerAgain, TimerInv

LEMMA StepTimer == TypeOK /\ TimerInv /\ [Next]_vars => TimerInv'
<1> SUFFICES ASSUME TypeOK, TimerInv, [Next]_vars PROVE TimerInv' OBVIOUS
<1> USE StatusAssumption
<1>1. CASE TimerFires
  BY <1>1 DEF TimerFires, updateStatus, StatusFor, TimerAgain, TimerInv, TypeOK
<1>2. CASE PingFires
  BY <1>2 DEF PingFires, TimerInv
<1>3. CASE PingAnswered
  BY <1>3, ActivityTimer DEF PingAnswered
<1>4. CASE OtherMessage
  BY <1>4, ActivityTimer DEF OtherMessage
<1>5. CASE ConnectionLost
  BY <1>5 DEF ConnectionLost, TimerInv
<1>6. CASE Connected
  BY <1>6, ActivityTimer DEF Connected
<1>7. CASE LinkBreaks
  BY <1>7 DEF LinkBreaks, TimerInv
<1>8. CASE LinkRecovers
  BY <1>8 DEF LinkRecovers, TimerInv
<1>9. CASE Tick
  BY <1>9 DEF Tick, TimerInv, TypeOK, OneLess, OneMore, Cap
<1>10. CASE UNCHANGED vars
  BY <1>10 DEF TimerInv
<1> QED BY <1>1, <1>2, <1>3, <1>4, <1>5, <1>6, <1>7, <1>8, <1>9, <1>10 DEF Next

LEMMA TimerInvariant == Spec => [](TypeOK /\ TimerInv)
<1>1. Init => TypeOK /\ TimerInv BY InitType, InitTimer
<1>2. TypeOK /\ TimerInv /\ [Next]_vars => (TypeOK /\ TimerInv)' BY StepType, StepTimer
<1> QED BY <1>1, <1>2, PTL DEF Spec

\* FollowsSilence is an invariant: online, once the backend was heard, means that
\* it was heard within the timeout, and offline that it was silent that long.
THEOREM StatusFollowsSilence == Spec => []FollowsSilence
<1>1. TypeOK /\ TimerInv => OnlineIfHeard
  BY StatusAssumption DEF TypeOK, TimerInv, OnlineIfHeard
<1>2. TimerInv => OfflineIfSilent
  BY DEF TimerInv, OfflineIfSilent
<1>3. TypeOK /\ TimerInv => FollowsSilence
  BY <1>1, <1>2 DEF FollowsSilence
<1> QED BY <1>3, TimerInvariant, PTL

-----------------------------------------------------------------------------
(* The pings, and what they do for a good link.                            *)

\* On a connection the next ping is due PingDelay after the last message; once it
\* fired it is unanswered.  A link that was up ever since answers it in time.
PingInv ==
  /\ PingsGoOn
  /\ link # "up" => steady = 0
  /\ link # "down" => waiting = 0 /\ heard
  /\ link # "down" /\ scheduledPing # NoTimer => scheduledPing + silence = PingDelay
  /\ link # "down" /\ scheduledPing = NoTimer => inFlight # <<>> /\ silence >= PingDelay
  /\ link = "up" /\ scheduledPing = NoTimer /\ connectionStatus = ONLINE /\ steady >= silence
       => silence <= PingDelay + Head(inFlight)

LEMMA InitPing == Init => PingInv
BY StatusAssumption DEF Init, PingInv, PingsGoOn

\* After a message of the backend the next ping is scheduled.
LEMMA ActivityPing ==
  ASSUME Activity, link' = "up", waiting' = 0
  PROVE  PingInv'
BY StatusAssumption DEF Activity, schedulePing, NextPing, PingInv, PingsGoOn

LEMMA StepPing == TypeOK /\ TimerInv /\ PingInv /\ [Next]_vars => PingInv'
<1> SUFFICES ASSUME TypeOK, TimerInv, PingInv, [Next]_vars PROVE PingInv' OBVIOUS
<1> USE StatusAssumption
<1>1. CASE TimerFires
  BY <1>1 DEF TimerFires, updateStatus, StatusFor, PingInv, PingsGoOn
<1>2. CASE PingFires
  <2>1. CASE link = "down"
    BY <1>2, <2>1 DEF PingFires, PingInv, PingsGoOn, TypeOK
  <2>2. CASE link # "down"
    <3>1. silence = PingDelay BY <1>2, <2>2 DEF PingFires, PingInv, TypeOK
    <3>2. inFlight' # <<>> /\ inFlight' \in Seq(0 .. MaxLatency)
      BY <1>2, <2>2, PingSequences DEF PingFires
    <3>3. Head(inFlight') \in 0 .. MaxLatency BY <3>2, HeadTailProperties
    <3> QED BY <1>2, <2>2, <3>1, <3>2, <3>3 DEF PingFires, PingInv, PingsGoOn
  <2> QED BY <2>1, <2>2
<1>3. CASE PingAnswered
  BY <1>3, ActivityPing DEF PingAnswered, PingInv
<1>4. CASE OtherMessage
  BY <1>4, ActivityPing DEF OtherMessage, PingInv
<1>5. CASE ConnectionLost
  BY <1>5 DEF ConnectionLost, NextPingAfterError, NextPing, PingInv, PingsGoOn
<1>6. CASE Connected
  BY <1>6, ActivityPing DEF Connected
<1>7. CASE LinkBreaks
  BY <1>7 DEF LinkBreaks, PingInv, PingsGoOn
<1>8. CASE LinkRecovers
  BY <1>8 DEF LinkRecovers, PingInv, PingsGoOn, TypeOK
<1>9. CASE Tick
  <2>1. /\ PingsGoOn'
        /\ link' # "up" => steady' = 0
        /\ link' # "down" => waiting' = 0 /\ heard'
    <3>1. inFlight # <<>> => inFlight' # <<>> BY <1>9, OlderPings DEF Tick
    <3>2. scheduledPing # NoTimer => scheduledPing' # NoTimer
      BY <1>9 DEF Tick, OneLess, TypeOK
    <3> QED BY <1>9, <3>1, <3>2 DEF Tick, PingInv, PingsGoOn
  <2>2. ASSUME link' # "down", scheduledPing' # NoTimer
        PROVE  scheduledPing' + silence' = PingDelay
    <3>1. scheduledPing \in Nat \ {0} /\ scheduledPing' = scheduledPing - 1
      BY <1>9, <2>2 DEF Tick, OneLess, TypeOK
    <3>2. scheduledPing + silence = PingDelay BY <1>9, <2>2, <3>1 DEF Tick, PingInv
    <3>3. silence' = silence + 1
      BY <1>9, <3>1, <3>2 DEF Tick, OneMore, Cap, TypeOK
    <3> QED BY <3>1, <3>2, <3>3 DEF TypeOK
  <2>3. ASSUME link' # "down", scheduledPing' = NoTimer
        PROVE  scheduledPing = NoTimer /\ link # "down"
    BY <1>9, <2>3 DEF Tick, OneLess, TypeOK
  <2>4. ASSUME link' # "down", scheduledPing' = NoTimer
        PROVE  inFlight' # <<>> /\ silence' >= PingDelay
    <3>1. inFlight # <<>> /\ silence >= PingDelay BY <2>3, <2>4 DEF PingInv
    <3>2. silence' = silence + 1 \/ silence' = Cap
      BY <1>9 DEF Tick, OneMore
    <3>3. Cap >= PingDelay /\ silence \in Nat /\ Cap \in Nat BY DEF Cap, TypeOK
    <3>4. inFlight' # <<>> BY <1>9, <3>1, OlderPings DEF Tick
    <3>5. silence' >= PingDelay BY <3>1, <3>2, <3>3
    <3> QED BY <3>4, <3>5
  <2>5. ASSUME link' = "up", scheduledPing' = NoTimer, connectionStatus' = ONLINE,
               steady' >= silence'
        PROVE  silence' <= PingDelay + Head(inFlight')
    <3>1. link = "up" /\ connectionStatus = ONLINE /\ ~AnswerDue /\ timer # 0
      BY <1>9, <2>5 DEF Tick
    <3>2. scheduledPing = NoTimer /\ inFlight # <<>> /\ silence >= PingDelay
      BY <2>3, <2>5, <3>1 DEF PingInv
    <3>3. silence < Cap BY <3>1, <3>2 DEF PingInv, TimerInv, TypeOK, Cap
    <3>4. silence' = silence + 1 BY <1>9, <3>3 DEF Tick, OneMore
    <3>5. steady >= silence
      BY <1>9, <2>5, <3>1, <3>4 DEF Tick, OneMore, TypeOK, Cap
    <3>6. silence <= PingDelay + Head(inFlight) BY <3>1, <3>2, <3>5 DEF PingInv
    <3>7. Head(inFlight) \in 0 .. MaxLatency /\ Head(inFlight') = OneMore(Head(inFlight), MaxLatency)
      BY <1>9, <3>2, OlderPings DEF Tick
    <3>8. Head(inFlight') = Head(inFlight) + 1
      BY <3>1, <3>2, <3>7 DEF AnswerDue, OneMore
    <3> QED BY <3>4, <3>6, <3>7, <3>8 DEF TypeOK
  <2> QED BY <2>1, <2>2, <2>4, <2>5 DEF PingInv
<1>10. CASE UNCHANGED vars
  BY <1>10 DEF PingInv, PingsGoOn
<1> QED BY <1>1, <1>2, <1>3, <1>4, <1>5, <1>6, <1>7, <1>8, <1>9, <1>10 DEF Next

LEMMA PingInvariant == Spec => [](TypeOK /\ TimerInv /\ PingInv)
<1>1. Init => TypeOK /\ TimerInv /\ PingInv BY InitType, InitTimer, InitPing
<1>2. TypeOK /\ TimerInv /\ PingInv /\ [Next]_vars => (TypeOK /\ TimerInv /\ PingInv)'
  BY StepType, StepTimer, StepPing
<1> QED BY <1>1, <1>2, PTL DEF Spec

\* PingsGoOn is an invariant: the loop of the pings never ends.
THEOREM PingLoop == Spec => []PingsGoOn
<1>1. PingInv => PingsGoOn BY DEF PingInv
<1> QED BY <1>1, PingInvariant, PTL

\* NoFalseAlarm holds of every step: no browser whose link was good for the
\* timeout goes offline, whatever the timeout, if an answer takes less than the
\* timeout leaves after a ping.
THEOREM NoFalseAlarms == Spec => NoFalseAlarm
<1> DEFINE Alarm == connectionStatus = ONLINE /\ connectionStatus' = OFFLINE => steady < offlineTimeout
<1>1. TypeOK /\ TimerInv /\ PingInv /\ [Next]_vars => [Alarm]_vars
  <2> SUFFICES ASSUME TypeOK, TimerInv, PingInv, [Next]_vars,
                      connectionStatus = ONLINE, connectionStatus' = OFFLINE
               PROVE  steady < offlineTimeout
    OBVIOUS
  <2>1. TimerFires
    BY DEF Next, PingFires, PingAnswered, OtherMessage, ConnectionLost, Connected,
           LinkBreaks, LinkRecovers, Tick, Activity, updateStatus, StatusFor
  <2>2. silence = offlineTimeout
    BY <2>1, StatusAssumption DEF TimerFires, TimerInv, TypeOK
  <2>3. CASE link # "up"
    BY <2>3, StatusAssumption DEF PingInv
  <2>4. CASE link = "up"
    <3>1. scheduledPing = NoTimer /\ inFlight # <<>>
      BY <2>2, <2>4, StatusAssumption DEF PingInv, TypeOK
    <3>2. Head(inFlight) \in 0 .. MaxLatency
      BY <3>1, HeadTailProperties DEF TypeOK
    <3> QED BY <2>2, <2>4, <3>1, <3>2, StatusAssumption DEF PingInv, TypeOK
  <2> QED BY <2>3, <2>4
<1> QED BY <1>1, PingInvariant, PTL DEF Spec, NoFalseAlarm
=============================================================================
