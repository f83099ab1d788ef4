------------------------------- MODULE MCRpc --------------------------------
\* Either two calls to one host, which may end at any time, or a call to each of
\* two hosts, one of which calls back and may cancel that call.
EXTENDS RpcProtocol

CONSTANT Busy
VARIABLE toOne

MCMaxCalls == [p \in Protocols |-> IF p = <<"main", Busy>> THEN 2
                                   ELSE IF p[1] = "main" \/ p[2] = Busy THEN 1 ELSE 0]

MCInit == Init /\ toOne \in BOOLEAN

Queued(type, p) == {m \in Elements(messagesToSend[p]) : m.type = type}

MCNext ==
  /\ Next /\ UNCHANGED toOne
  /\ IF toOne
     THEN \A p \in Protocols \ {<<"main", Busy>>} : lastMessageId'[p] = 0
     ELSE /\ UNCHANGED alive
          /\ \A p \in Protocols :
               /\ lastMessageId'[p] <= 1
               /\ \A m \in Queued("request", p)' : m.kind = "finite"
               /\ p[1] = "main" => Queued("cancel", p)' = {}

MCSpec == MCInit /\ [][MCNext]_<<vars, toOne>> /\ Fairness
=============================================================================
