---------------------------- MODULE MCWsChannels ----------------------------
(* Without data, two paths over three sessions; with data, one path over   *)
(* two sessions and one close.                                             *)
EXTENDS WsChannels

VARIABLE withData

MCInit == Init /\ withData \in BOOLEAN

MCNext ==
  /\ Next /\ UNCHANGED withData
  /\ IF withData
     THEN /\ listened' \subseteq {CHOOSE p \in Paths : TRUE} /\ closes' <= 1 /\ session' <= 2
          /\ \A s \in Sessions : s >= 2 => link'[s] # "broken"
     ELSE UNCHANGED sent

MCSpec == MCInit /\ [][MCNext]_<<vars, withData>>
=============================================================================
