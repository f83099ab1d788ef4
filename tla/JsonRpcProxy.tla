---------------------------- MODULE JsonRpcProxy ----------------------------
(***************************************************************************)
(* A proxy of JsonRpcProxyFactory over a connection that may break and is  *)
(* then replaced, and the calls on their way between its two ends.  What   *)
(* the calls mean is left to the module of the service behind the proxy.   *)
(*                                                                         *)
(* Connections are those of the web socket: a broken one is disposed of,   *)
(* which rejects the calls it carried.                                     *)
(***************************************************************************)
EXTENDS Integers, SequencesExt

CONSTANT MaxConnections  \* bound: connections made

ASSUME ProxyAssumption == MaxConnections \in Nat

VARIABLES
  connection,         \* number of the newest connection, 0 before the first
  isOpen,             \* it is not broken
  connectionPromise,  \* connection it is resolved with, 0 while it is pending
  waiting,            \* calls that wait for connectionPromise
  requests,           \* calls sent, not yet handled by the server
  answers             \* answers sent, not yet handled by the caller

proxyVars == <<connection, isOpen, connectionPromise, waiting, requests, answers>>

ProxyInit ==
  /\ connection = 0 /\ isOpen = FALSE /\ connectionPromise = 0
  /\ waiting = <<>> /\ requests = <<>> /\ answers = <<>>

\* A callable of the proxy: calls wait for connectionPromise, in their order.
Call(calls) ==
  /\ waiting' = IF connectionPromise = 0 THEN waiting \o calls ELSE waiting
  /\ requests' = IF connectionPromise = 0 THEN requests ELSE requests \o calls

\* listen: the listeners of onDidOpenConnection run before the calls that
\* waited are sent, but what these listeners call is sent after them.
Listen(callsOfListeners) ==
  /\ ~isOpen /\ connection < MaxConnections
  /\ connection' = connection + 1 /\ isOpen' = TRUE
  /\ connectionPromise' = connection + 1
  /\ requests' = waiting \o callsOfListeners
  /\ waiting' = <<>>
  /\ UNCHANGED answers

\* The connection closes: its disposal rejects what it carried, and
\* waitForConnection makes a new promise.
Break ==
  /\ isOpen
  /\ isOpen' = FALSE /\ connectionPromise' = 0
  /\ requests' = <<>> /\ answers' = <<>>
  /\ UNCHANGED <<connection, waiting>>

\* onRequest on the server's side, and the answer it sends.
Serve(answersSent) ==
  /\ requests # <<>>
  /\ requests' = Tail(requests)
  /\ answers' = answers \o answersSent
  /\ UNCHANGED <<connection, isOpen, connectionPromise, waiting>>
=============================================================================
