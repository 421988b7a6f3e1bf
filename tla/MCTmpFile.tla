------------------------------ MODULE MCTmpFile ------------------------------
(* Blocks of three chunks.  A short line takes one chunk, a middle one     *)
(* two, a long one a whole block, so that it may have to move when a piece *)
(* of it is already placed.                                                *)
EXTENDS TmpFile

MCLineLen == [l \in Line |-> CASE l = "short" -> 1 [] l = "middle" -> 2 [] l = "long" -> 3]
=============================================================================
