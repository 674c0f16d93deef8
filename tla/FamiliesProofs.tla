--------------------------- MODULE FamiliesProofs ---------------------------
(***************************************************************************)
(* Proofs about the families of Families: what generate_families makes of  *)
(* any list of words, and which family find_biggest_family returns.        *)
(***************************************************************************)
EXTENDS Families, SequenceTheorems, FiniteSetTheorems, WellFoundedInduction,
        TLAPS

Words == Seq(Letters)

FamilyRecords ==
  [signature : Seq(Letters \cup {Dash}), word_ptrs : Seq(Words), max_words : Nat]

\* The places among the first n of a list of the words with a signature.
Places(list, g, n, sig) == {p \in 1 .. n : Signature(list[p], g) = sig}

FamilyOf(fam, list, g, n) ==
  /\ fam \in FamilyRecords
  /\ Range(fam.word_ptrs) = {list[p] : p \in Places(list, g, n, fam.signature)}
  /\ Len(fam.word_ptrs) = Cardinality(Places(list, g, n, fam.signature))
  /\ fam.max_words = IF Len(fam.word_ptrs) > family_increment
                     THEN Len(fam.word_ptrs) ELSE family_increment

\* famlist is what generate_families has made of the first n words of a list.
Divided(famlist, list, g, n) ==
  /\ famlist \in Seq(FamilyRecords)
  /\ \A k \in DOMAIN famlist : /\ FamilyOf(famlist[k], list, g, n)
                               /\ famlist[k].word_ptrs # << >>
  /\ \A k, l \in DOMAIN famlist :
       famlist[k].signature = famlist[l].signature => k = l
  /\ \A p \in 1 .. n : \E k \in DOMAIN famlist :
       famlist[k].signature = Signature(list[p], g)

-----------------------------------------------------------------------------

LEMMA SmallestOf ==
  ASSUME NEW S \in SUBSET Nat, S # {}
  PROVE  Min(S) \in S /\ \A y \in S : Min(S) <= y
<1> DEFINE R == OpToRel(<, Nat)
<1>1. IsWellFoundedOn(R, Nat)
  BY NatLessThanWellFounded
<1>2. \A x, y \in Nat : << x, y >> \in R <=> x < y
  BY DEF OpToRel
<1> HIDE DEF R
<1>3. PICK x \in S : \A y \in S : << y, x >> \notin R
  BY <1>1, WFMin
<1>4. ASSUME NEW y \in S PROVE x <= y
  <2>1. x \in Nat /\ y \in Nat
    OBVIOUS
  <2>2. ~ (y < x)
    BY <1>2, <1>3, <2>1
  <2> QED
    BY <2>1, <2>2
<1> QED
  BY <1>4 DEF Min

LEMMA AppendRange ==
  ASSUME NEW S, NEW s \in Seq(S), NEW e \in S
  PROVE  /\ Append(s, e) \in Seq(S)
         /\ Append(s, e) # << >>
         /\ Len(Append(s, e)) = Len(s) + 1
         /\ Range(Append(s, e)) = Range(s) \cup {e}
<1> DEFINE t == Append(s, e)
<1>1. /\ t \in Seq(S)
      /\ Len(s) \in Nat /\ Len(t) = Len(s) + 1
      /\ DOMAIN s = 1 .. Len(s) /\ DOMAIN t = 1 .. Len(s) + 1
      /\ \A k \in 1 .. Len(s) : t[k] = s[k]
      /\ t[Len(s) + 1] = e
  OBVIOUS
<1> HIDE DEF t
<1>2. t # << >>
  <2>1. Len(<< >>) = 0 /\ Len(t) # 0
    BY <1>1
  <2> QED
    BY <2>1
<1>3. 1 .. Len(s) + 1 = (1 .. Len(s)) \cup {Len(s) + 1}
  BY <1>1
<1>4. ASSUME NEW x \in Range(t) PROVE x \in Range(s) \cup {e}
  BY <1>1, <1>3 DEF Range
<1>5. e \in Range(t)
  BY <1>1, <1>3 DEF Range
<1>6. ASSUME NEW x \in Range(s) PROVE x \in Range(t)
  BY <1>1, <1>3 DEF Range
<1>7. Range(t) = Range(s) \cup {e}
  BY <1>4, <1>5, <1>6
<1> QED
  BY <1>1, <1>2, <1>7 DEF t

LEMMA SignatureType ==
  ASSUME NEW w \in Words, NEW g \in Letters
  PROVE  Signature(w, g) \in Seq(Letters \cup {Dash})
BY DEF Signature, Words

LEMMA PlacesFinite ==
  ASSUME NEW list, NEW g, NEW n \in Nat, NEW sig
  PROVE  /\ IsFiniteSet(Places(list, g, n, sig))
         /\ Cardinality(Places(list, g, n, sig)) \in 0 .. n
<1>1. IsFiniteSet(1 .. n) /\ Cardinality(1 .. n) = n
  BY FS_Interval
<1>2. Places(list, g, n, sig) \subseteq 1 .. n
  BY DEF Places
<1> QED
  BY <1>1, <1>2, FS_Subset, FS_CardinalityType

LEMMA NextPlaceOut ==
  ASSUME NEW list, NEW g, NEW n \in Nat, NEW sig,
         Signature(list[n + 1], g) # sig
  PROVE  Places(list, g, n + 1, sig) = Places(list, g, n, sig)
<1>1. 1 .. n + 1 = (1 .. n) \cup {n + 1} /\ n + 1 \notin 1 .. n
  OBVIOUS
<1> QED
  BY <1>1 DEF Places

\* add_word_to_family, for the next word of the list.
LEMMA FamilyGrows ==
  ASSUME FamilyAssumption, NEW list \in Seq(Words), NEW g \in Letters,
         NEW n \in Nat, n < Len(list),
         NEW fam, FamilyOf(fam, list, g, n),
         Signature(list[n + 1], g) = fam.signature
  PROVE  LET new == add_word_to_family(fam, list[n + 1])
         IN  /\ FamilyOf(new, list, g, n + 1)
             /\ new.signature = fam.signature
             /\ new.word_ptrs # << >>
<1> DEFINE w == list[n + 1]
           ptrs == fam.word_ptrs
           new == add_word_to_family(fam, w)
           inc == family_increment
<1>1. w \in Words
  OBVIOUS
<1>2. fam \in FamilyRecords /\ ptrs \in Seq(Words) /\ Len(ptrs) \in Nat
      /\ fam.max_words \in Nat /\ inc \in Nat
  BY DEF FamilyOf, FamilyRecords, FamilyAssumption
<1>3. /\ new.signature = fam.signature
      /\ new.word_ptrs = Append(ptrs, w)
      /\ new.max_words = IF fam.max_words = Len(ptrs) THEN fam.max_words + 1
                         ELSE fam.max_words
      /\ new \in FamilyRecords
  <2>1. new = [fam EXCEPT
                 !.word_ptrs = Append(ptrs, w),
                 !.max_words = IF fam.max_words = Len(ptrs)
                               THEN fam.max_words + 1 ELSE fam.max_words]
    BY DEF add_word_to_family
  <2>2. Append(ptrs, w) \in Seq(Words)
    BY <1>1, <1>2
  <2>3. (IF fam.max_words = Len(ptrs) THEN fam.max_words + 1 ELSE fam.max_words) \in Nat
    BY <1>2
  <2> HIDE DEF new, w
  <2> QED
    BY <1>2, <2>1, <2>2, <2>3 DEF FamilyRecords
<1>4. /\ Len(Append(ptrs, w)) = Len(ptrs) + 1
      /\ Append(ptrs, w) # << >>
      /\ Range(Append(ptrs, w)) = Range(ptrs) \cup {w}
  BY <1>1, <1>2, AppendRange
<1>5. /\ Places(list, g, n + 1, fam.signature)
           = Places(list, g, n, fam.signature) \cup {n + 1}
      /\ Cardinality(Places(list, g, n + 1, fam.signature))
           = Cardinality(Places(list, g, n, fam.signature)) + 1
  <2> DEFINE sig == fam.signature
  <2>1. Signature(list[n + 1], g) = sig /\ n \in Nat
    OBVIOUS
  <2> HIDE DEF sig
  <2>2. 1 .. n + 1 = (1 .. n) \cup {n + 1} /\ n + 1 \notin 1 .. n
    BY ONLY <2>1
  <2>3. Places(list, g, n + 1, sig) = Places(list, g, n, sig) \cup {n + 1}
    BY ONLY <2>1, <2>2 DEF Places
  <2>4. n + 1 \notin Places(list, g, n, sig)
    BY ONLY <2>2 DEF Places
  <2>5. IsFiniteSet(Places(list, g, n, sig))
    BY ONLY <2>1, PlacesFinite
  <2> DEFINE before == Places(list, g, n, sig)
             place == n + 1
  <2> HIDE DEF before, place
  <2>6. Cardinality(before \cup {place}) = Cardinality(before) + 1
    BY <2>4, <2>5, FS_AddElement DEF before, place
  <2> QED
    BY <2>3, <2>6 DEF sig, before, place
<1>6. Range(new.word_ptrs)
        = {list[p] : p \in Places(list, g, n + 1, new.signature)}
  BY <1>3, <1>4, <1>5 DEF FamilyOf
<1>7. Len(new.word_ptrs) = Cardinality(Places(list, g, n + 1, new.signature))
  BY <1>3, <1>4, <1>5 DEF FamilyOf
<1>8. new.max_words = IF Len(new.word_ptrs) > inc THEN Len(new.word_ptrs) ELSE inc
  <2>1. fam.max_words = IF Len(ptrs) > inc THEN Len(ptrs) ELSE inc
    BY DEF FamilyOf
  <2> QED
    BY <1>2, <1>3, <1>4, <2>1
<1> QED
  BY <1>3, <1>4, <1>6, <1>7, <1>8 DEF FamilyOf

\* One iteration of the loop of generate_families.
LEMMA WordAdded ==
  ASSUME FamilyAssumption, NEW list \in Seq(Words), NEW g \in Letters,
         NEW n \in Nat, n < Len(list),
         NEW famlist, Divided(famlist, list, g, n)
  PROVE  Divided(WithWord(famlist, list[n + 1], g), list, g, n + 1)
<1> DEFINE w == list[n + 1]
           sig == Signature(w, g)
           new == WithWord(famlist, w, g)
<1>1. w \in Words /\ sig \in Seq(Letters \cup {Dash})
  BY SignatureType
<1>2. /\ famlist \in Seq(FamilyRecords)
      /\ Len(famlist) \in Nat
      /\ DOMAIN famlist = 1 .. Len(famlist)
      /\ \A k \in DOMAIN famlist : famlist[k] \in FamilyRecords
  BY DEF Divided
<1>3. ASSUME NEW fam, FamilyOf(fam, list, g, n), fam.signature # sig
      PROVE  FamilyOf(fam, list, g, n + 1)
  <2>1. Places(list, g, n + 1, fam.signature) = Places(list, g, n, fam.signature)
    BY <1>3, NextPlaceOut
  <2> QED
    BY <1>3, <2>1 DEF FamilyOf
<1>4. CASE Having(famlist, sig) = {}
  <2> DEFINE first == add_word_to_family(new_family(sig), w)
  <2>1. new = << first >> \o famlist
    BY <1>4 DEF WithWord
  <2>2. \A k \in DOMAIN famlist : famlist[k].signature # sig
    BY <1>4 DEF Having
  <2>3. Places(list, g, n, sig) = {}
    BY <2>2 DEF Places, Divided
  <2>4. FamilyOf(new_family(sig), list, g, n)
    <3>1. /\ new_family(sig).signature = sig
          /\ new_family(sig).word_ptrs = << >>
          /\ new_family(sig).max_words = family_increment
          /\ new_family(sig) \in FamilyRecords
      BY <1>1 DEF new_family, FamilyRecords, FamilyAssumption
    <3>2. Range(<< >>) = {} /\ Len(<< >>) = 0
      BY DEF Range
    <3>3. Cardinality({}) = 0
      BY FS_EmptySet
    <3>4. {list[p] : p \in {}} = {}
      OBVIOUS
    <3>5. ~ (0 > family_increment)
      BY DEF FamilyAssumption
    <3> QED
      BY <2>3, <3>1, <3>2, <3>3, <3>4, <3>5 DEF FamilyOf
  <2>5. /\ FamilyOf(first, list, g, n + 1)
        /\ first.signature = sig
        /\ first.word_ptrs # << >>
    <3>1. new_family(sig).signature = sig
      BY DEF new_family
    <3> QED
      BY <2>4, <3>1, FamilyGrows
  <2> HIDE DEF first, new
  <2>6. /\ new \in Seq(FamilyRecords)
        /\ DOMAIN new = 1 .. Len(famlist) + 1
        /\ new[1] = first
        /\ \A k \in 1 .. Len(famlist) : new[k + 1] = famlist[k]
    BY <1>2, <2>1, <2>5 DEF FamilyOf
  <2>7. ASSUME NEW k \in DOMAIN new, k # 1
        PROVE  k - 1 \in DOMAIN famlist /\ new[k] = famlist[k - 1]
    <3>1. k - 1 \in 1 .. Len(famlist) /\ (k - 1) + 1 = k
      BY <1>2, <2>6, <2>7
    <3> QED
      BY <1>2, <2>6, <3>1
  <2>8. ASSUME NEW k \in DOMAIN new
        PROVE  FamilyOf(new[k], list, g, n + 1) /\ new[k].word_ptrs # << >>
    <3>1. CASE k = 1
      BY <2>5, <2>6, <3>1
    <3>2. CASE k # 1
      <4>1. FamilyOf(famlist[k - 1], list, g, n)
            /\ famlist[k - 1].word_ptrs # << >>
        BY <2>7, <3>2 DEF Divided
      <4> QED
        BY <1>3, <2>2, <2>7, <3>2, <4>1
    <3> QED
      BY <3>1, <3>2
  <2>9. ASSUME NEW k \in DOMAIN new, NEW l \in DOMAIN new,
               new[k].signature = new[l].signature
        PROVE  k = l
    <3>1. CASE k = 1 \/ l = 1
      BY <2>2, <2>5, <2>6, <2>7, <2>9, <3>1
    <3>2. CASE k # 1 /\ l # 1
      <4>1. k - 1 = l - 1
        BY <2>7, <2>9, <3>2 DEF Divided
      <4> QED
        BY <2>6, <4>1
    <3> QED
      BY <3>1, <3>2
  <2>10. ASSUME NEW p \in 1 .. n + 1
         PROVE  \E k \in DOMAIN new : new[k].signature = Signature(list[p], g)
    <3>1. CASE p = n + 1
      <4>1. 1 \in DOMAIN new
        BY <1>2, <2>6
      <4> QED
        BY <2>5, <2>6, <3>1, <4>1
    <3>2. CASE p # n + 1
      <4>1. p \in 1 .. n
        BY <3>2
      <4>2. PICK k \in DOMAIN famlist : famlist[k].signature = Signature(list[p], g)
        BY <4>1 DEF Divided
      <4>3. k + 1 \in DOMAIN new /\ new[k + 1] = famlist[k]
        BY <1>2, <2>6
      <4> QED
        BY <4>2, <4>3
    <3> QED
      BY <3>1, <3>2
  <2> QED
    BY <2>6, <2>8, <2>9, <2>10 DEF Divided, new
<1>5. CASE Having(famlist, sig) # {}
  <2> DEFINE m == Min(Having(famlist, sig))
             grown == add_word_to_family(famlist[m], w)
  <2>1. m \in DOMAIN famlist /\ famlist[m].signature = sig
    <3>1. Having(famlist, sig) \in SUBSET Nat
      BY <1>2 DEF Having
    <3>2. m \in Having(famlist, sig)
      BY <1>5, <3>1, SmallestOf
    <3> QED
      BY <3>2 DEF Having
  <2>2. new = [famlist EXCEPT ![m] = grown]
    BY <1>5 DEF WithWord
  <2>3. FamilyOf(famlist[m], list, g, n)
    BY <2>1 DEF Divided
  <2>4. /\ FamilyOf(grown, list, g, n + 1)
        /\ grown.signature = sig
        /\ grown.word_ptrs # << >>
    BY <2>1, <2>3, FamilyGrows
  <2> HIDE DEF m, grown, new
  <2>5. /\ new \in Seq(FamilyRecords)
        /\ DOMAIN new = DOMAIN famlist
        /\ new[m] = grown
        /\ \A k \in DOMAIN famlist \ {m} : new[k] = famlist[k]
    BY <1>2, <2>1, <2>2, <2>4 DEF FamilyOf
  <2>6. \A k \in DOMAIN famlist : new[k].signature = famlist[k].signature
    BY <2>1, <2>4, <2>5
  <2>7. ASSUME NEW k \in DOMAIN new
        PROVE  FamilyOf(new[k], list, g, n + 1) /\ new[k].word_ptrs # << >>
    <3>1. CASE k = m
      BY <2>4, <2>5, <3>1
    <3>2. CASE k # m
      <4>1. famlist[k].signature # sig
        BY <2>1, <2>5, <3>2 DEF Divided
      <4> QED
        BY <1>3, <2>5, <3>2, <4>1 DEF Divided
    <3> QED
      BY <3>1, <3>2
  <2>8. \A k, l \in DOMAIN new : new[k].signature = new[l].signature => k = l
    BY <2>5, <2>6 DEF Divided
  <2>9. ASSUME NEW p \in 1 .. n + 1
        PROVE  \E k \in DOMAIN new : new[k].signature = Signature(list[p], g)
    <3>1. CASE p = n + 1
      BY <2>1, <2>5, <2>6, <3>1
    <3>2. CASE p # n + 1
      <4>1. p \in 1 .. n
        BY <3>2
      <4> QED
        BY <2>5, <2>6, <4>1 DEF Divided
    <3> QED
      BY <3>1, <3>2
  <2> QED
    BY <2>5, <2>7, <2>8, <2>9 DEF Divided, new
<1> QED
  BY <1>4, <1>5

\* find_biggest_family returns a family of the list with the greatest capacity.
LEMMA BiggestChosen ==
  ASSUME FamilyAssumption, NEW list \in Seq(Words), NEW g, NEW n \in Nat \ {0},
         NEW famlist, Divided(famlist, list, g, n)
  PROVE  \E k \in DOMAIN famlist :
           /\ find_biggest_family(famlist) = famlist[k]
           /\ \A j \in DOMAIN famlist :
                famlist[j].max_words <= famlist[k].max_words
<1> DEFINE B == n + family_increment
           Gaps == {B - famlist[k].max_words : k \in DOMAIN famlist}
           Best == {k \in DOMAIN famlist :
                      \A j \in DOMAIN famlist :
                        famlist[j].max_words <= famlist[k].max_words}
<1>1. DOMAIN famlist \subseteq Nat /\ DOMAIN famlist # {}
  <2>1. 1 \in 1 .. n
    OBVIOUS
  <2> QED
    BY <2>1 DEF Divided
<1>2. B \in Nat
  BY DEF FamilyAssumption
<1>3. \A k \in DOMAIN famlist : famlist[k].max_words \in 0 .. B
  <2> TAKE k \in DOMAIN famlist
  <2>1. FamilyOf(famlist[k], list, g, n)
    BY DEF Divided
  <2>2. Len(famlist[k].word_ptrs) \in 0 .. n
    BY <2>1, PlacesFinite DEF FamilyOf
  <2> QED
    BY <2>1, <2>2 DEF FamilyOf, FamilyAssumption
<1>4. Gaps \in SUBSET Nat /\ Gaps # {}
  <2>1. \A k \in DOMAIN famlist : B - famlist[k].max_words \in Nat
    <3> HIDE DEF B
    <3> QED
      BY <1>2, <1>3
  <2> QED
    BY <1>1, <2>1
<1>5. PICK k \in DOMAIN famlist :
        \A j \in DOMAIN famlist :
          B - famlist[k].max_words <= B - famlist[j].max_words
  <2>1. Min(Gaps) \in Gaps /\ \A y \in Gaps : Min(Gaps) <= y
    <3> HIDE DEF Gaps
    <3> QED
      BY <1>4, SmallestOf
  <2> QED
    BY <2>1
<1>6. \A j \in DOMAIN famlist : famlist[j].max_words <= famlist[k].max_words
  <2> TAKE j \in DOMAIN famlist
  <2>1. famlist[j].max_words \in 0 .. B /\ famlist[k].max_words \in 0 .. B
    BY <1>3
  <2>2. B - famlist[k].max_words <= B - famlist[j].max_words
    BY <1>5
  <2> HIDE DEF B
  <2> QED
    BY <1>2, <2>1, <2>2
<1>7. Min(Best) \in Best
  <2>1. Best \in SUBSET Nat /\ Best # {}
    BY <1>1, <1>6
  <2> HIDE DEF Best
  <2> QED
    BY <2>1, SmallestOf
<1>8. find_biggest_family(famlist) = famlist[Min(Best)]
  BY DEF find_biggest_family
<1> QED
  BY <1>7, <1>8
=============================================================================
