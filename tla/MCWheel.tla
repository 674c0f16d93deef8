------------------------------ MODULE MCWheel ------------------------------
(***************************************************************************)
(* Wheel with every order of up to four of some words, most of them of two *)
(* letters.                                                                *)
(***************************************************************************)
EXTENDS Wheel, SequencesExt

MCWords ==
  {<< "a" >>, << "a", "a" >>, << "a", "b" >>, << "b", "a" >>, << "b", "c" >>}

MCDictionaries ==
  UNION {SetToSeqs(S) : S \in {T \in SUBSET MCWords : Cardinality(T) \in 1 .. 4}}
=============================================================================
