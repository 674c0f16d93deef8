-------------------------------- MODULE Sort --------------------------------
(***************************************************************************)
(* What psort promises: it ends with its input sorted, or with a failure.  *)
(***************************************************************************)
EXTENDS Integers, Sequences, Functions

CONSTANTS N, Frequencies

VARIABLES
  input,   \* the frequency of each record
  output,  \* the records written
  outcome  \* running, sorted or failed

IsSortedCopy(s, in) ==
  /\ Len(s) = N
  /\ Range(s) = {[freq |-> in[k], word |-> k] : k \in 0 .. N - 1}
  /\ \A i, j \in DOMAIN s : i <= j => s[i].freq <= s[j].freq

SortInit ==
  /\ input \in [0 .. N - 1 -> Frequencies]
  /\ output = << >>
  /\ outcome = "running"

Finish ==
  /\ outcome = "running"
  /\ outcome' = "sorted"
  /\ IsSortedCopy(output', input)
  /\ UNCHANGED input

Fail ==
  /\ outcome = "running"
  /\ outcome' = "failed"
  /\ UNCHANGED << input, output >>

SortSpec == SortInit /\ [][Finish \/ Fail]_<< input, output, outcome >>
=============================================================================
