----------------------------- MODULE RemoteCall -----------------------------
(***************************************************************************)
(* What a remote call through a proxy promises its caller, whatever the    *)
(* messages it takes: the promise of a call is settled at most once, only  *)
(* after the handler of that very call has finished, and with the kind of  *)
(* answer (value or error) that handler gave; the handler of a call is     *)
(* started only for a call that was made, and only once.                   *)
(***************************************************************************)
CONSTANT Calls

VARIABLES status,   \* what the caller's promise shows
          exec      \* what became of the handler on the other side

vars == <<status, exec>>

Status == {"idle", "pending", "resolved", "rejected"}
Exec   == {"none", "running", "ok", "err"}

TypeOK == status \in [Calls -> Status] /\ exec \in [Calls -> Exec]

Init == /\ status = [c \in Calls |-> "idle"]
        /\ exec = [c \in Calls |-> "none"]

Invoke(c) == /\ status[c] = "idle"
             /\ status' = [status EXCEPT ![c] = "pending"]
             /\ UNCHANGED exec

Start(c) == /\ status[c] = "pending" /\ exec[c] = "none"
            /\ exec' = [exec EXCEPT ![c] = "running"]
            /\ UNCHANGED status

Finish(c) == /\ exec[c] = "running"
             /\ \E o \in {"ok", "err"} : exec' = [exec EXCEPT ![c] = o]
             /\ UNCHANGED status

Settle(c) == /\ status[c] = "pending"
             /\ \/ exec[c] = "ok"  /\ status' = [status EXCEPT ![c] = "resolved"]
                \/ exec[c] = "err" /\ status' = [status EXCEPT ![c] = "rejected"]
             /\ UNCHANGED exec

Next == \E c \in Calls : Invoke(c) \/ Start(c) \/ Finish(c) \/ Settle(c)

Spec == Init /\ [][Next]_vars
=============================================================================
