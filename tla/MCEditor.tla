------------------------------ MODULE MCEditor ------------------------------
(* Any two of a save the user asks for, a write or a deletion by another   *)
(* program, and a call that fails.                                         *)
EXTENDS EditorModel

MCNext == Next /\ saves' + foreign' + failures' <= 2

MCSpec == Init /\ [][MCNext]_vars /\ Fairness
=============================================================================
