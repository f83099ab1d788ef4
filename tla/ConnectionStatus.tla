-------------------------- MODULE ConnectionStatus --------------------------
(***************************************************************************)
(* FrontendConnectionStatusService: the browser considers itself offline   *)
(* when it heard nothing from the backend for offlineTimeout; so that      *)
(* silence means a lost connection, it pings the backend in time.  Time    *)
(* advances in ticks, and a timer that is due fires before the next one.   *)
(***************************************************************************)
EXTENDS Integers, Sequences

CONSTANTS offlineTimeout,  \* in ticks
          PingDelay,       \* 0.8 * offlineTimeout, in ticks
          MaxLatency,      \* bound: ticks a good link takes to answer a ping
          MaxPings         \* bound: unanswered pings that other messages overtake

ASSUME StatusAssumption ==
  /\ offlineTimeout \in Nat /\ PingDelay \in Nat /\ MaxLatency \in Nat /\ MaxPings \in Nat
  /\ 0 < PingDelay /\ PingDelay + MaxLatency < offlineTimeout

ONLINE == "ONLINE"
OFFLINE == "OFFLINE"
NoTimer == -1

VARIABLES
  connectionStatus,
  timer,          \* ticks until the browser is offline, NoTimer before any activity
  scheduledPing,  \* ticks until the next ping, NoTimer once it fired
  waiting,        \* pings that wait for a connection
  inFlight,       \* ticks since each unanswered ping was sent, oldest first
  link,           \* "down": no connection; "broken": not working, unnoticed; "up"
  silence,        \* history: ticks without an incoming message
  steady,         \* history: ticks the link has been up
  heard           \* history: some message came in

service == <<connectionStatus, timer, scheduledPing>>
calls == <<waiting, inFlight>>
history == <<silence, steady, heard>>
vars == <<service, calls, link, history>>

\* init: the first ping is scheduled, the offline timer is not.
Init ==
  /\ connectionStatus = ONLINE
  /\ timer = NoTimer
  /\ scheduledPing = PingDelay
  /\ waiting = 0 /\ inFlight = <<>>
  /\ link = "down"
  /\ silence = 0 /\ steady = 0 /\ heard = FALSE

\* Defects: an offline browser stays so; the timer of the last activity goes on.
StatusSticks(success) ==
  IF success /\ connectionStatus = ONLINE THEN ONLINE ELSE OFFLINE
TimerRunsOn == IF timer > 0 THEN timer ELSE offlineTimeout

StatusFor(success) == IF success THEN ONLINE ELSE OFFLINE
TimerAgain == offlineTimeout

updateStatus(success) ==
  /\ connectionStatus' = StatusFor(success)
  /\ timer' = TimerAgain

\* Defect: the ping comes when the browser is offline already.
PingAtTimeout == offlineTimeout

NextPing == PingDelay
schedulePing == scheduledPing' = NextPing

\* Any message of the backend is activity.
Activity ==
  /\ updateStatus(TRUE)
  /\ schedulePing
  /\ silence' = 0 /\ heard' = TRUE

\* The offline timer.
TimerFires ==
  /\ timer = 0
  /\ updateStatus(FALSE)
  /\ UNCHANGED <<scheduledPing, calls, link, history>>

\* The ping timer: the call waits for a connection, if there is none.
PingFires ==
  /\ scheduledPing = 0
  /\ scheduledPing' = NoTimer
  /\ IF link = "down"
     THEN waiting' = waiting + 1 /\ UNCHANGED inFlight
     ELSE inFlight' = Append(inFlight, 0) /\ UNCHANGED waiting
  /\ UNCHANGED <<connectionStatus, timer, link, history>>

\* The answer of a ping is activity; the ping that resolves repeats what that does.
PingAnswered ==
  /\ link = "up" /\ inFlight # <<>>
  /\ inFlight' = Tail(inFlight)
  /\ Activity
  /\ UNCHANGED <<waiting, link, steady>>

OtherMessage ==
  /\ link = "up" /\ Len(inFlight) < MaxPings
  /\ Activity
  /\ UNCHANGED <<calls, link, steady>>

\* The connection is disposed: the pings sent are rejected, and each schedules
\* the next one as it is.
NextPingAfterError == NextPing

ConnectionLost ==
  /\ link \in {"up", "broken"}
  /\ link' = "down" /\ steady' = 0
  /\ scheduledPing' = IF inFlight # <<>> THEN NextPingAfterError ELSE scheduledPing
  /\ inFlight' = <<>>
  /\ UNCHANGED <<connectionStatus, timer, waiting, silence, heard>>

\* The backend answers the opened channel, which is activity; the waiting pings
\* are sent.
Connected ==
  /\ link = "down"
  /\ link' = "up"
  /\ inFlight' = [i \in 1 .. waiting |-> 0] /\ waiting' = 0
  /\ Activity
  /\ UNCHANGED steady

LinkBreaks ==
  /\ link = "up"
  /\ link' = "broken" /\ steady' = 0
  /\ UNCHANGED <<service, calls, silence, heard>>

LinkRecovers ==
  /\ link = "broken"
  /\ link' = "up"
  /\ UNCHANGED <<service, calls, history>>

\* Time passes unless a timer is due or an answer is.
OneLess(t) == IF t = NoTimer THEN NoTimer ELSE t - 1
Cap == offlineTimeout + 1  \* bound: of the clocks that only count up
OneMore(t, cap) == IF t < cap THEN t + 1 ELSE cap

AnswerDue == link = "up" /\ inFlight # <<>> /\ Head(inFlight) = MaxLatency

Tick ==
  /\ timer # 0 /\ scheduledPing # 0 /\ ~AnswerDue
  /\ timer' = OneLess(timer) /\ scheduledPing' = OneLess(scheduledPing)
  /\ inFlight' = [i \in DOMAIN inFlight |-> OneMore(inFlight[i], MaxLatency)]
  /\ silence' = OneMore(silence, Cap)
  /\ steady' = IF link = "up" THEN OneMore(steady, Cap) ELSE 0
  /\ UNCHANGED <<connectionStatus, waiting, link, heard>>

Next ==
  \/ TimerFires \/ PingFires \/ PingAnswered \/ OtherMessage
  \/ ConnectionLost \/ Connected \/ LinkBreaks \/ LinkRecovers
  \/ Tick

Spec == Init /\ [][Next]_vars

\* Timers fire, answers arrive, and time goes on.
FairSpec ==
  /\ Spec
  /\ WF_vars(TimerFires) /\ WF_vars(PingFires) /\ WF_vars(PingAnswered) /\ WF_vars(Tick)

-----------------------------------------------------------------------------
(* Properties.                                                             *)

TypeOK ==
  /\ connectionStatus \in {ONLINE, OFFLINE}
  /\ timer \in {NoTimer} \cup 0 .. offlineTimeout
  /\ scheduledPing \in {NoTimer} \cup 0 .. PingDelay
  /\ waiting \in Nat
  /\ inFlight \in Seq(0 .. MaxLatency)
  /\ link \in {"down", "broken", "up"}
  /\ silence \in 0 .. Cap /\ steady \in 0 .. Cap
  /\ heard \in BOOLEAN

\* Once the backend was heard, the browser that shows itself online heard it
\* within the timeout, however pings, other messages and reconnections, each of
\* which sets the timer again, follow on one another.
OnlineIfHeard ==
  connectionStatus = ONLINE /\ heard => silence <= offlineTimeout

\* It shows itself offline only after the timeout passed in silence.
OfflineIfSilent ==
  connectionStatus = OFFLINE => silence >= offlineTimeout

\* The status tells how long the backend was silent, through pings that overlap,
\* are rejected or wait, other messages, and connections lost and made.
FollowsSilence == OnlineIfHeard /\ OfflineIfSilent

\* The next ping is scheduled or one is unanswered: the pings never stop, through
\* rejected ones, pings that wait for a connection and pings that overlap.
PingsGoOn == scheduledPing # NoTimer \/ waiting > 0 \/ inFlight # <<>>

\* No false alarm: a browser whose link has been good for the timeout does not go
\* offline, for a ping was sent and answered before.
NoFalseAlarm ==
  [][connectionStatus = ONLINE /\ connectionStatus' = OFFLINE => steady < offlineTimeout]_vars

\* A link that stays up brings the browser back online, for good.
BackOnline == <>[](link = "up") => <>[](connectionStatus = ONLINE)

=============================================================================
