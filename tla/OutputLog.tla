------------------------------ MODULE OutputLog ------------------------------
(***************************************************************************)
(* What a bounded buffer of output promises its readers: each is given the *)
(* bytes that are kept, from the oldest one when it joined, every byte     *)
(* once and in order, and is told that nothing is left when, and only      *)
(* when, it has been given all.  A reader that had not read everything     *)
(* when more was written, or that reads a part, may be left behind, and is *)
(* promised nothing any more.                                              *)
(***************************************************************************)
EXTENDS Integers, Sequences

CONSTANTS Ids, Capacity

VARIABLES total,  \* bytes written so far, numbered from 1
          last,   \* reader -> the last byte it was given or missed; None before it
                  \* joins, Behind once it is left behind, Closed in the end
          got,    \* reader -> all it was ever given, byte after byte
          idle    \* the readers that are told that nothing is left

vars == <<total, last, got, idle>>

None == -1
Behind == -2
Closed == -3

Larger(a, b) == IF a > b THEN a ELSE b
Run(from, to) == [i \in 1 .. to - from + 1 |-> from + i - 1]

Lost(written) == Larger(0, written - Capacity)      \* the last byte no longer kept
Missed(r, written) == Larger(last[r], Lost(written)) \* the last byte r need not get

Init ==
  /\ total = 0 /\ idle = {}
  /\ last = [r \in Ids |-> None] /\ got = [r \in Ids |-> <<>>]

Given(r, from, to) == got'[r] = got[r] \o Run(from, to) /\ last'[r] = to

\* A write; the readers in R are given at once all there is.  Of the others some
\* that still had bytes to read may be left behind: not one that had read nothing,
\* as long as nothing is lost.
Write(n, R) ==
  /\ total' = total + n
  /\ DOMAIN last' = Ids /\ DOMAIN got' = Ids
  /\ \A r \in R : last[r] \in 0 .. total /\ Given(r, Missed(r, total') + 1, total')
  /\ \A r \in Ids \ R :
       /\ got'[r] = got[r]
       /\ \/ last'[r] = last[r]
          \/ /\ last[r] \in 0 .. total - 1 /\ (last[r] > 0 \/ total' > Capacity)
             /\ last'[r] = Behind

Join(r) ==
  /\ last[r] = None
  /\ last' = [last EXCEPT ![r] = Lost(total)]
  /\ UNCHANGED <<total, got>>

\* A read of the kept bytes that follow the last one read, up to some byte.
Read(r) ==
  /\ last[r] \in 0 .. total
  /\ \E to \in Missed(r, total) + 1 .. total :
       /\ got' = [got EXCEPT ![r] = @ \o Run(Missed(r, total) + 1, to)]
       /\ last' = [last EXCEPT ![r] = to]
  /\ UNCHANGED total

\* A read of a part, once bytes were lost, that leaves the reader behind.
Leave(r) ==
  /\ last[r] \in 0 .. total - 1 /\ total > Capacity
  /\ last' = [last EXCEPT ![r] = Behind]
  /\ UNCHANGED <<total, got>>

Close(r) ==
  /\ last[r] \notin {None, Closed}
  /\ last' = [last EXCEPT ![r] = Closed]
  /\ UNCHANGED <<total, got>>

Next ==
  /\ \/ \E n \in 1 .. total' - total, R \in SUBSET Ids : Write(n, R)
     \/ \E r \in Ids : Join(r) \/ Read(r) \/ Leave(r) \/ Close(r)
  /\ idle' = {r \in Ids : last'[r] = total'}

Spec == Init /\ [][Next]_vars
=============================================================================
