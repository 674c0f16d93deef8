----------------------------- MODULE MCReaders -----------------------------
(***************************************************************************)
(* Readers with buffers of four to six bytes and every file of up to ten   *)
(* characters: lines that fill a buffer exactly, miss it by one or need    *)
(* several.                                                                *)
(***************************************************************************)
EXTENDS Readers
=============================================================================
