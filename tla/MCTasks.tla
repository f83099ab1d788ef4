------------------------------ MODULE MCTasks ------------------------------
\* Instances of Tasks that differ in what the user does: a task alone over
\* three connections, or two shells, which all start, over two.
EXTENDS Tasks

VARIABLE uses

MCInit == Init /\ uses \in {Runs, Shells}

\* Which of the shells is opened first makes no difference.
First == CHOOSE w \in Shells : TRUE
Opened == {w \in DOMAIN widget : widget[w] # "none"}

MCNext ==
  /\ Next /\ UNCHANGED uses
  /\ Opened' \subseteq uses /\ (First \notin Opened' => Opened' \cap Shells = {})
  /\ {r \in Runs : run'[r] # "none"} \subseteq uses
  /\ uses = Shells => failures' = 0 /\ connection' <= 2 /\ (connection = 2 => isOpen')

MCSpec == MCInit /\ [][MCNext]_<<vars, uses>> /\ Fairness
=============================================================================
