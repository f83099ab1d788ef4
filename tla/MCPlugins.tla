------------------------------ MODULE MCPlugins ------------------------------
\* Two plugins of the backend and one of the browser.  One is deployed as the
\* backend starts; users deploy the others, either once over three connections, or
\* over two with a failure, or, one of them again, over a connection that stays.
EXTENDS PluginHosts

CONSTANTS b1, b2, f1, start, first, second

MCWanted == (start :> {b1}) @@ (first :> {b2, f1}) @@ (second :> {b1})

VARIABLE stays

\* Connections made, or still to be made.
Needed == IF isOpen THEN connection ELSE connection + 1

MCInit == Init /\ stays \in BOOLEAN

MCNext ==
  /\ Next /\ UNCHANGED stays
  /\ IF stays THEN (connection' = 1 => isOpen') /\ failures' = 0
              ELSE /\ DeployCall(second) \notin ToSet(waiting') \cup ToSet(requests')
                   /\ Needed' + failures' <= 3

MCSpec == MCInit /\ [][MCNext]_<<vars, stays>> /\ Fairness
=============================================================================
