------------------------------ MODULE Families ------------------------------
(***************************************************************************)
(* The families of words of family.c: lists of words with one signature,   *)
(* kept in arrays that grow.                                               *)
(*                                                                         *)
(* A word is a sequence of letters.  A family list is the sequence of its  *)
(* nodes from the head; word_ptrs is the part of the array in use, which   *)
(* has room for max_words pointers and a NULL.                             *)
(***************************************************************************)
EXTENDS Integers, Sequences, FiniteSetsExt, Functions

CONSTANTS
  Letters,           \* the lower-case letters
  Dash,              \* "-"
  family_increment   \* the pointers of a new family

ASSUME FamilyAssumption ==
  /\ Dash \notin Letters
  /\ IsFiniteSet(Letters)
  /\ family_increment \in Nat

FirstLetterOnly(word, letter) ==  \* slip: only the first occurrence is noted
  [k \in DOMAIN word |->
    IF word[k] = letter /\ \A j \in DOMAIN word : j < k => word[j] # letter
    THEN letter ELSE Dash]

Signature(word, letter) ==
  [k \in DOMAIN word |-> IF word[k] = letter THEN letter ELSE Dash]

new_family(sig) ==
  [signature |-> sig, word_ptrs |-> << >>, max_words |-> family_increment]

NotGrown(fam, word) ==  \* slip: max_words is not raised
  [fam EXCEPT !.word_ptrs = Append(@, word)]

\* A full array grows by one pointer.
add_word_to_family(fam, word) ==
  [fam EXCEPT
     !.word_ptrs = Append(@, word),
     !.max_words = IF @ = Len(fam.word_ptrs) THEN @ + 1 ELSE @]

\* The places of the families with a signature; find_family takes the first.
Having(famlist, sig) == {k \in DOMAIN famlist : famlist[k].signature = sig}

NewEachTime(famlist, word, letter) ==  \* slip: find_family is not called
  << add_word_to_family(new_family(Signature(word, letter)), word) >> \o famlist

\* The body of the loop of generate_families.
WithWord(famlist, word, letter) ==
  LET sig == Signature(word, letter)
  IN  IF Having(famlist, sig) = {}
      THEN << add_word_to_family(new_family(sig), word) >> \o famlist
      ELSE [famlist EXCEPT ![Min(Having(famlist, sig))] =
              add_word_to_family(@, word)]

LastCreated(famlist) == famlist[1]  \* slip: the capacities are not compared

\* The first of those with the greatest capacity.
find_biggest_family(famlist) ==
  famlist[Min({k \in DOMAIN famlist :
                 \A j \in DOMAIN famlist :
                   famlist[j].max_words <= famlist[k].max_words})]
=============================================================================
