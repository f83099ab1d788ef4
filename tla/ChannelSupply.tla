--------------------------- MODULE ChannelSupply ----------------------------
(***************************************************************************)
(* What the connection provider of the browser promises the handler that   *)
(* listens on a path: it is given one channel after the other, each one    *)
(* only after the one before is closed, and never one it was given before. *)
(***************************************************************************)
EXTENDS Integers

CONSTANTS Paths, Ids

VARIABLES current,  \* the open channel the handler of a path has, -1 if none
          newest    \* the newest channel the handler of a path was given

vars == <<current, newest>>

Init == /\ current = [p \in Paths |-> -1]
        /\ newest = [p \in Paths |-> -1]

Provide(p) ==
  /\ current[p] = -1
  /\ \E id \in Ids : /\ id > newest[p]
                     /\ current' = [current EXCEPT ![p] = id]
                     /\ newest' = [newest EXCEPT ![p] = id]

\* Losing the socket closes the channels of several paths at once.
Lose(P) ==
  /\ current' = [p \in Paths |-> IF p \in P THEN -1 ELSE current[p]]
  /\ UNCHANGED newest

Next == (\E p \in Paths : Provide(p)) \/ (\E P \in SUBSET Paths : Lose(P))

Spec == Init /\ [][Next]_vars
=============================================================================
