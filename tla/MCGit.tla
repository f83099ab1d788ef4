-------------------------------- MODULE MCGit --------------------------------
\* Two selections and a break, or one with two of: a status that changes, a git
\* operation, a failure, a repository that is deleted, init's question, or one of
\* these and a break.
EXTENDS GitWatching

CONSTANTS r1, r2

One(condition) == IF condition THEN 1 ELSE 0

Selections == watcherSequence - 1 + One(selected = NoRepo /\ watcherSequence > 1)
Breaks == One(connection > 1 \/ (connection = 1 /\ ~isOpen))
Others == operations + failures + actual[r1] - 1 + One(~exists[r1]) + One(started)

\* The repositories are alike: one is selected first, and it alone changes.
MCNext ==
  /\ Next
  /\ Selections' <= 2 /\ (Selections' = 2 => Others' = 0) /\ Breaks' + Others' <= 2
  /\ watchParams'[1] # r2 /\ actual[r2]' = 1

MCSpec == Init /\ [][MCNext]_vars /\ Fairness
=============================================================================
