------------------------------ MODULE MCPSort ------------------------------
(***************************************************************************)
(* PSort with a rest in the division, two frequencies, so that records may *)
(* be equal, and pipes that hold one record, so that children block.       *)
(***************************************************************************)
EXTENDS PSort
=============================================================================
