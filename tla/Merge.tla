------------------------------- MODULE Merge -------------------------------
(***************************************************************************)
(* psort's partition of the records into chunks (read_rec_num) and its     *)
(* merge of the sorted chunks (generate_merge_array, merge), helper.c.     *)
(*                                                                         *)
(* A record is its frequency and a word, which stands for where in the     *)
(* input file it is.  file_content[i] is a sequence, so that its record    *)
(* number k, counted from 0 as in the code, is file_content[i][k + 1].     *)
(***************************************************************************)
EXTENDS Integers, FiniteSets, SequencesExt

CONSTANTS
  record_num,  \* records in the input file
  Asked,       \* the number of processes asked for with -n
  Freqs        \* the frequencies that occur

ASSUME MergeAssumption ==
  /\ record_num \in Nat
  /\ Asked \in Nat \ {0}
  /\ Freqs \subseteq Int

VARIABLES
  file_content,        \* each child's records, sorted
  merge_array,         \* of each unfinished chunk, the next record: the first
                       \* merge_array_size entries of the array
  sorted_file_content  \* the records merged so far

mergeVars == << file_content, merge_array, sorted_file_content >>

\* No more children than records.
chunk_num == IF Asked > record_num THEN record_num ELSE Asked

Children == 0 .. chunk_num - 1

RestTooFar(i) ==  \* slip: off by one
  record_num \div chunk_num + (IF i <= record_num % chunk_num THEN 1 ELSE 0)

\* The records of chunk i; the first chunks have one more if a rest is left.
read_rec_num(i) ==
  record_num \div chunk_num + (IF i < record_num % chunk_num THEN 1 ELSE 0)

Sorted(s) == \A i, j \in DOMAIN s : i <= j => s[i].freq <= s[j].freq

-----------------------------------------------------------------------------
(* The merge.                                                              *)

Entry(i, k) ==
  [freq |-> file_content[i][k + 1].freq, child_index |-> i, rec_index |-> k]

\* generate_merge_array: the first record of each chunk.
FirstEntries == [k \in 1 .. chunk_num |-> Entry(k - 1, 0)]

\* qsort, by frequency alone: entries with equal ones may come in any order.
qsort(a) ==
  {s \in {[k \in DOMAIN a |-> a[p[k]]] : p \in Bijection(DOMAIN a, DOMAIN a)} :
     Sorted(s)}

FreqKept(a) == [a EXCEPT ![1].rec_index = @ + 1]  \* slip: only the index advances

\* The first entry shows the next record of its chunk.
WithNext(a) == [a EXCEPT ![1] = Entry(@.child_index, @.rec_index + 1)]

FirstKept(a) == Front(a)  \* slip: the array shrinks, nothing is moved

\* The last entry takes the place of the first, and the array is one shorter.
WithoutFirst(a) == Front([a EXCEPT ![1] = Last(a)])

\* The array after its first entry has been written.
Advance(a) ==
  IF a[1].rec_index < read_rec_num(a[1].child_index) - 1
  THEN WithNext(a)
  ELSE WithoutFirst(a)

\* One iteration of the loop of merge.
MergeStep ==
  /\ merge_array # << >>
  /\ \E a \in qsort(merge_array) :
       /\ sorted_file_content' =
            Append(sorted_file_content,
                   file_content[a[1].child_index][a[1].rec_index + 1])
       /\ merge_array' = Advance(a)
  /\ UNCHANGED file_content

-----------------------------------------------------------------------------
(* Properties of the merge, which hold while psort merges the chunks of     *)
(* children that all finished.                                             *)

Delivered == UNION {Range(file_content[i]) : i \in Children}

Entries == Range(merge_array)

\* The records that the entries and what follows them in their chunks are.
Remaining ==
  UNION {{file_content[e.child_index][k] :
            k \in e.rec_index + 1 .. read_rec_num(e.child_index)} :
         e \in Entries}

\* The array has entries of chunks there are, and the output has room.
MergeTypeOK ==
  /\ \A e \in Entries : e.child_index \in Children
  /\ Len(merge_array) <= chunk_num
  /\ Len(sorted_file_content) \in 0 .. record_num
  /\ Range(sorted_file_content) \subseteq Delivered

\* The output so far is sorted and nothing still to come belongs before it,
\* although only one record of each chunk is looked at (helper.c:201-205).
MergeSorted ==
  /\ Sorted(sorted_file_content)
  /\ \A r \in Range(sorted_file_content), s \in Remaining : r.freq <= s.freq

\* No record is lost or written twice when chunks run out in any order and the
\* last entry of the array is moved to its front (helper.c:213-222).
MergeComplete ==
  /\ Range(sorted_file_content) \cup Remaining = Delivered
  /\ Range(sorted_file_content) \cap Remaining = {}
  /\ IsInjective(sorted_file_content)
=============================================================================
