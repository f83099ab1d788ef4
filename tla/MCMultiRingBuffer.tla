-------------------------- MODULE MCMultiRingBuffer --------------------------
(* Small buffers with one or two readers.                                  *)
EXTENDS MultiRingBuffer

WholeAndPart == {-1, 1}
=============================================================================
