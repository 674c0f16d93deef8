---------------------------- MODULE WheelProofs ----------------------------
(***************************************************************************)
(* Proofs about Wheel for every alphabet, dictionary and family_increment: *)
(* the words that remain explain the board, the player can always go on,   *)
(* and the program implements the honest game of HangMan.                  *)
(***************************************************************************)
EXTENDS Wheel, FamiliesProofs

-----------------------------------------------------------------------------
(* The invariant.                                                          *)

TypesInv ==
  /\ words \in Seq(Words)
  /\ at \in {"length", "prune", "guesses", "guess", "families", "over", "again",
              "ended"}
  /\ eof \in BOOLEAN
  /\ len \in Nat
  /\ word_list \in Seq(Words)
  /\ Range(word_list) \subseteq Range(words)
  /\ Len(word_list) <= Len(words)
  /\ letters_guessed \subseteq Letters
  /\ guesses \in 0 .. Cardinality(Letters)
  /\ guess \in Letters \cup {OtherChar}
  /\ added \in 0 .. Len(words)
  /\ revealed \in Range(words) \cup {NoWord}

\* Before the guesses start.
DialogueInv ==
  /\ at \in {"length", "prune", "guesses"} =>
       current_word = << >> /\ letters_guessed = {} /\ guesses = 0
  /\ at \notin {"again", "ended"} => revealed = NoWord

OfLength(n) == {words[p] : p \in {q \in 1 .. n : Len(words[q]) = len}}

LengthInv ==
  /\ at = "prune" =>
       len > 0 /\ Len(word_list) <= added /\ Range(word_list) = OfLength(added)
  /\ at = "guesses" =>
       len > 0 /\ word_list # << >> /\ Range(word_list) = OfLength(Len(words))

OpenInv ==
  at \in {"guess", "families"} =>
    guesses > 0 /\ \E k \in DOMAIN current_word : current_word[k] = Dash

FamiliesInv ==
  at = "families" =>
    /\ guess \in letters_guessed
    /\ added <= Len(word_list)
    /\ Divided(famlist, word_list, guess, added)

OverInv ==
  /\ at = "over" =>
       /\ biggest_fam = word_list
       /\ guesses = 0 \/ Won(current_word)
       /\ DOMAIN current_word # {}
  /\ at = "again" => revealed \in Range(words)

WheelInv ==
  /\ TypesInv
  /\ DialogueInv
  /\ LengthInv
  /\ WordsExplainBoard
  /\ OpenInv
  /\ FamiliesInv
  /\ OverInv

-----------------------------------------------------------------------------
(* What is shown of a word.                                                *)

LEMMA ShownFacts ==
  ASSUME NEW w \in Words, NEW L
  PROVE  /\ DOMAIN Shown(w, L) = DOMAIN w
         /\ \A k \in DOMAIN w : Shown(w, L)[k] = IF w[k] \in L THEN w[k] ELSE Dash
BY DEF Shown

LEMMA SignatureFacts ==
  ASSUME NEW w \in Words, NEW g
  PROVE  /\ DOMAIN Signature(w, g) = DOMAIN w
         /\ \A k \in DOMAIN w : Signature(w, g)[k] = IF w[k] = g THEN g ELSE Dash
BY DEF Signature

\* The words that explain the new board are those that explained the old one
\* and have the signature that was put on it.
LEMMA BoardAfterAnswer ==
  ASSUME FamilyAssumption, NEW L \in SUBSET Letters, NEW g \in Letters \ L,
         NEW v \in Words, NEW w \in Words
  PROVE  LET board == Shown(v, L)
             sig == Signature(v, g)
             after == [k \in DOMAIN board |->
                        IF sig[k] = g THEN g ELSE board[k]]
         IN  Shown(w, L \cup {g}) = after
               <=> Shown(w, L) = board /\ Signature(w, g) = sig
<1> DEFINE board == Shown(v, L)
           sig == Signature(v, g)
           after == [k \in DOMAIN board |-> IF sig[k] = g THEN g ELSE board[k]]
<1>1. /\ DOMAIN board = DOMAIN v /\ DOMAIN sig = DOMAIN v
      /\ \A k \in DOMAIN v : /\ board[k] = IF v[k] \in L THEN v[k] ELSE Dash
                             /\ sig[k] = IF v[k] = g THEN g ELSE Dash
  BY ShownFacts, SignatureFacts
<1>2. /\ DOMAIN Shown(w, L) = DOMAIN w /\ DOMAIN Signature(w, g) = DOMAIN w
      /\ DOMAIN Shown(w, L \cup {g}) = DOMAIN w
      /\ \A k \in DOMAIN w :
           /\ Shown(w, L)[k] = IF w[k] \in L THEN w[k] ELSE Dash
           /\ Signature(w, g)[k] = IF w[k] = g THEN g ELSE Dash
           /\ Shown(w, L \cup {g})[k] =
                IF w[k] \in L \cup {g} THEN w[k] ELSE Dash
  BY ShownFacts, SignatureFacts
<1>3. /\ \A k \in DOMAIN w : w[k] \in Letters
      /\ \A k \in DOMAIN v : v[k] \in Letters
      /\ Dash \notin Letters /\ g \notin L /\ g # Dash
  BY DEF Words, FamilyAssumption
<1>4. /\ DOMAIN after = DOMAIN v
      /\ \A k \in DOMAIN v : after[k] = IF v[k] = g THEN g ELSE board[k]
  BY <1>1, <1>3
<1>5. ASSUME Shown(w, L \cup {g}) = after
      PROVE  Shown(w, L) = board /\ Signature(w, g) = sig
  <2>1. DOMAIN w = DOMAIN v
    BY <1>2, <1>4, <1>5
  <2>2. ASSUME NEW k \in DOMAIN w
        PROVE  Shown(w, L)[k] = board[k] /\ Signature(w, g)[k] = sig[k]
    <3>1. Shown(w, L \cup {g})[k] = after[k]
      BY <1>5
    <3> HIDE DEF board, sig, after
    <3> QED
      BY <1>1, <1>2, <1>3, <1>4, <2>1, <3>1
  <2> QED
    BY <1>1, <1>2, <2>1, <2>2 DEF Shown, Signature
<1>6. ASSUME Shown(w, L) = board, Signature(w, g) = sig
      PROVE  Shown(w, L \cup {g}) = after
  <2>1. DOMAIN w = DOMAIN v
    BY <1>1, <1>2, <1>6
  <2>2. ASSUME NEW k \in DOMAIN w
        PROVE  Shown(w, L \cup {g})[k] = after[k]
    <3>1. Shown(w, L)[k] = board[k] /\ Signature(w, g)[k] = sig[k]
      BY <1>6
    <3> HIDE DEF board, sig, after
    <3> QED
      BY <1>1, <1>2, <1>3, <1>4, <2>1, <3>1
  <2> QED
    BY <1>2, <1>4, <2>1, <2>2 DEF Shown
<1> QED
  BY <1>5, <1>6

LEMMA FirstBoard ==
  ASSUME NEW n \in Nat, NEW w \in Words
  PROVE  Shown(w, {}) = [k \in 1 .. n |-> Dash] <=> Len(w) = n
<1>1. DOMAIN w = 1 .. Len(w) /\ Len(w) \in Nat
  BY DEF Words
<1>2. Shown(w, {}) = [k \in DOMAIN w |-> Dash]
  BY DEF Shown
<1>3. ASSUME Shown(w, {}) = [k \in 1 .. n |-> Dash] PROVE Len(w) = n
  <2>1. 1 .. Len(w) = 1 .. n
    BY <1>1, <1>2, <1>3
  <2>2. Len(w) <= n
    <3>1. CASE Len(w) = 0
      BY <1>1, <3>1
    <3>2. CASE Len(w) # 0
      <4>1. Len(w) \in 1 .. Len(w)
        BY <1>1, <3>2
      <4> QED
        BY <2>1, <4>1
    <3> QED
      BY <3>1, <3>2
  <2>3. n <= Len(w)
    <3>1. CASE n = 0
      BY <1>1, <3>1
    <3>2. CASE n # 0
      <4>1. n \in 1 .. n
        BY <3>2
      <4> QED
        BY <2>1, <4>1
    <3> QED
      BY <3>1, <3>2
  <2> DEFINE m == Len(w)
  <2>4. m \in Nat /\ m <= n /\ n <= m
    BY <1>1, <2>2, <2>3
  <2>5. m = n
    <3> HIDE DEF m
    <3> QED
      BY <2>4
  <2> QED
    BY <2>5
<1>4. ASSUME Len(w) = n PROVE Shown(w, {}) = [k \in 1 .. n |-> Dash]
  BY <1>1, <1>2, <1>4
<1> QED
  BY <1>3, <1>4

-----------------------------------------------------------------------------
(* The invariant holds initially, and every action preserves it.           *)

LEMMA LettersCounted == Cardinality(Letters) \in Nat
BY FamilyAssumption, FS_CardinalityType DEF FamilyAssumption

LEMMA InitEstablishes == WheelInit => WheelInv
<1> SUFFICES ASSUME WheelInit PROVE WheelInv
  OBVIOUS
<1> USE DEF WheelInit
<1>1. words \in Seq(Words) /\ Len(words) \in Nat
  BY WheelAssumption DEF WheelAssumption, Words
<1>2. Range(<< >>) = {} /\ << >> \in Seq(Words) /\ Len(<< >>) = 0
  BY DEF Range
<1>3. TypesInv
  <2>1. 0 \in 0 .. Cardinality(Letters) /\ 0 \in 0 .. Len(words) /\ 0 \in Nat
    BY <1>1, LettersCounted
  <2>2. /\ Range(word_list) \subseteq Range(words)
        /\ word_list \in Seq(Words)
        /\ Len(word_list) <= Len(words)
    BY <1>1, <1>2
  <2> QED
    BY <1>1, <2>1, <2>2 DEF TypesInv
<1>4. DialogueInv /\ LengthInv /\ OpenInv /\ FamiliesInv /\ OverInv
  BY DEF DialogueInv, LengthInv, OpenInv, FamiliesInv, OverInv
<1>5. WordsExplainBoard
  BY DEF WordsExplainBoard, InRound
<1> QED
  BY <1>3, <1>4, <1>5 DEF WheelInv

\* Outside a round there is nothing to say of the board.
LEMMA OutsideRound ==
  ASSUME WheelInv, TypesInv', DialogueInv', LengthInv', OverInv',
         at' \notin {"guess", "families", "over"}
  PROVE  WheelInv'
<1>1. WordsExplainBoard'
  BY DEF WordsExplainBoard, InRound
<1>2. OpenInv' /\ FamiliesInv'
  BY DEF OpenInv, FamiliesInv
<1> QED
  BY <1>1, <1>2 DEF WheelInv

LEMMA EndInputPreserves == WheelInv /\ EndInput => WheelInv'
BY DEF WheelInv, EndInput, roundVars, TypesInv, DialogueInv, LengthInv,
       OfLength, WordsExplainBoard, InRound, Answered, OpenInv, FamiliesInv,
       OverInv, Won

LEMMA AskLengthPreserves == WheelInv /\ AskLength => WheelInv'
<1> SUFFICES ASSUME WheelInv, AskLength PROVE WheelInv'
  OBVIOUS
<1> USE DEF AskLength
<1>1. len' \in Nat /\ len' > 0
  BY WheelAssumption DEF WheelAssumption
<1>2. Range(<< >>) = {} /\ << >> \in Seq(Words) /\ Len(<< >>) = 0
  BY DEF Range
<1>3. words \in Seq(Words) /\ Len(words) \in Nat
  BY DEF WheelInv, TypesInv
<1>4. TypesInv'
  BY <1>1, <1>2, <1>3 DEF WheelInv, TypesInv
<1>5. DialogueInv'
  BY DEF WheelInv, DialogueInv
<1>6. OfLength(0)' = {}
  BY DEF OfLength
<1>7. LengthInv' /\ OverInv'
  BY <1>1, <1>2, <1>6 DEF LengthInv, OverInv
<1> QED
  BY <1>4, <1>5, <1>7, OutsideRound

LEMMA PruneWordPreserves == WheelInv /\ PruneWord => WheelInv'
<1> SUFFICES ASSUME WheelInv, PruneWord PROVE WheelInv'
  OBVIOUS
<1> USE DEF PruneWord
<1>1. /\ words \in Seq(Words) /\ Len(words) \in Nat /\ added \in Nat
      /\ added' \in 1 .. Len(words) /\ word_list \in Seq(Words)
      /\ words[added'] \in Words
      /\ Len(word_list) \in Nat /\ Len(word_list) <= added
  BY DEF WheelInv, TypesInv, LengthInv
<1>2. CASE Len(words[added']) = len
  <2>1. word_list' = Append(word_list, words[added'])
    BY <1>2
  <2>2. /\ word_list' \in Seq(Words)
        /\ Len(word_list') = Len(word_list) + 1
        /\ Range(word_list') = Range(word_list) \cup {words[added']}
    BY <1>1, <2>1, AppendRange
  <2>3. OfLength(added') = OfLength(added) \cup {words[added']}
    BY <1>1, <1>2 DEF OfLength
  <2>4. OfLength(added)' = OfLength(added')
    BY DEF OfLength
  <2>5. words[added'] \in Range(words)
    BY <1>1 DEF Range
  <2>6. TypesInv'
    BY <1>1, <2>2, <2>5 DEF WheelInv, TypesInv
  <2>7. DialogueInv' /\ OverInv'
    BY DEF WheelInv, DialogueInv, OverInv
  <2>8. LengthInv'
    <3>1. len > 0 /\ Range(word_list) = OfLength(added)
      BY DEF WheelInv, LengthInv
    <3>2. Range(word_list') = OfLength(added)'
      BY <2>2, <2>3, <2>4, <3>1
    <3>3. Len(word_list') <= added'
      BY <1>1, <2>2
    <3> QED
      BY <3>1, <3>2, <3>3 DEF LengthInv
  <2> QED
    BY <2>6, <2>7, <2>8, OutsideRound
<1>3. CASE Len(words[added']) # len
  <2>1. word_list' = word_list
    BY <1>3
  <2>2. OfLength(added)' = OfLength(added)
    BY <1>1, <1>3 DEF OfLength
  <2>3. TypesInv'
    BY <1>1, <2>1 DEF WheelInv, TypesInv
  <2>4. DialogueInv' /\ OverInv'
    BY DEF WheelInv, DialogueInv, OverInv
  <2>5. LengthInv'
    BY <1>1, <2>1, <2>2 DEF WheelInv, LengthInv
  <2> QED
    BY <2>3, <2>4, <2>5, OutsideRound
<1> QED
  BY <1>2, <1>3

LEMMA PrunedPreserves == WheelInv /\ Pruned => WheelInv'
<1> SUFFICES ASSUME WheelInv, Pruned PROVE WheelInv'
  OBVIOUS
<1> USE DEF Pruned
<1>1. Len(words) \in Nat
  BY DEF WheelInv, TypesInv
<1>2. TypesInv'
  BY <1>1 DEF WheelInv, TypesInv
<1>3. DialogueInv' /\ OverInv'
  BY DEF WheelInv, DialogueInv, OverInv
<1>4. OfLength(Len(words))' = OfLength(added)
  BY DEF OfLength
<1>5. LengthInv'
  BY <1>4 DEF WheelInv, LengthInv
<1> QED
  BY <1>2, <1>3, <1>5, OutsideRound

LEMMA AskGuessesPreserves == WheelInv /\ AskGuesses => WheelInv'
<1> SUFFICES ASSUME WheelInv, AskGuesses PROVE WheelInv'
  OBVIOUS
<1> USE DEF AskGuesses
<1>1. /\ words \in Seq(Words) /\ len \in Nat /\ len > 0
      /\ Range(word_list) = OfLength(Len(words))
      /\ word_list # << >> /\ letters_guessed = {} /\ revealed = NoWord
  BY DEF WheelInv, TypesInv, LengthInv, DialogueInv
<1>2. guesses' \in 0 .. Cardinality(Letters) /\ guesses' > 0
  BY LettersCounted
<1>3. TypesInv'
  BY <1>2 DEF WheelInv, TypesInv
<1>4. Range(words) \subseteq Words
  BY <1>1 DEF Range
<1>5. OfLength(Len(words)) = {w \in Range(words) : Len(w) = len}
  BY <1>1 DEF OfLength, Range
<1>6. \A w \in Range(words) : Shown(w, {}) = [k \in 1 .. len |-> Dash] <=> Len(w) = len
  BY <1>1, <1>4, FirstBoard
<1>7. Answered' = {} /\ current_word' = [k \in 1 .. len |-> Dash]
  BY <1>1 DEF Answered
<1>8. Range(word_list)
        = {w \in Range(words) : Shown(w, {}) = [k \in 1 .. len |-> Dash]}
  BY <1>1, <1>5, <1>6
<1>9. WordsExplainBoard'
  BY <1>1, <1>7, <1>8 DEF WordsExplainBoard, InRound, Shown
<1>10. 1 \in DOMAIN current_word' /\ current_word'[1] = Dash
  BY <1>1
<1>11. OpenInv'
  BY <1>2, <1>10 DEF OpenInv
<1>12. DialogueInv' /\ LengthInv' /\ FamiliesInv' /\ OverInv'
  BY <1>1 DEF DialogueInv, LengthInv, FamiliesInv, OverInv
<1> QED
  BY <1>3, <1>9, <1>11, <1>12 DEF WheelInv

LEMMA StopPreserves ==
  WheelInv /\ (InputEnded \/ PlayNoMore) => WheelInv'
<1> SUFFICES ASSUME WheelInv, InputEnded \/ PlayNoMore PROVE WheelInv'
  OBVIOUS
<1>1. at' = "ended" /\ UNCHANGED << words, eof, roundVars >>
  BY DEF InputEnded, PlayNoMore
<1>2. TypesInv'
  BY <1>1 DEF WheelInv, TypesInv, roundVars
<1>3. DialogueInv' /\ LengthInv' /\ OverInv'
  BY <1>1 DEF DialogueInv, LengthInv, OverInv
<1> QED
  BY <1>1, <1>2, <1>3, OutsideRound

LEMMA NothingDivided ==
  ASSUME NEW list, NEW g
  PROVE  Divided(<< >>, list, g, 0)
BY DEF Divided

LEMMA GetGuessPreserves == WheelInv /\ GetGuess => WheelInv'
<1> SUFFICES ASSUME WheelInv, GetGuess PROVE WheelInv'
  OBVIOUS
<1> USE DEF GetGuess
<1>1. TypesInv'
  <2>1. Len(words) \in Nat
    BY DEF WheelInv, TypesInv
  <2> QED
    BY <2>1 DEF WheelInv, TypesInv
<1>2. Answered' = Answered
  BY DEF Answered
<1>3. WordsExplainBoard'
  BY <1>2 DEF WheelInv, WordsExplainBoard, InRound, Shown
<1>4. OpenInv'
  BY DEF WheelInv, OpenInv
<1>5. FamiliesInv'
  <2>1. Len(word_list) \in Nat
    BY DEF WheelInv, TypesInv
  <2> QED
    BY <2>1, NothingDivided DEF FamiliesInv
<1>6. DialogueInv' /\ LengthInv' /\ OverInv'
  BY DEF WheelInv, DialogueInv, LengthInv, OverInv
<1> QED
  BY <1>1, <1>3, <1>4, <1>5, <1>6 DEF WheelInv

LEMMA AddWordPreserves == WheelInv /\ AddWord => WheelInv'
<1> SUFFICES ASSUME WheelInv, AddWord PROVE WheelInv'
  OBVIOUS
<1> USE DEF AddWord
<1>1. /\ word_list \in Seq(Words) /\ Len(word_list) \in Nat
      /\ Len(word_list) <= Len(words) /\ Len(words) \in Nat
      /\ guess \in Letters /\ added \in Nat /\ added < Len(word_list)
      /\ Divided(famlist, word_list, guess, added)
  BY DEF WheelInv, TypesInv, FamiliesInv
<1>2. TypesInv'
  BY <1>1 DEF WheelInv, TypesInv
<1>3. Divided(WithWord(famlist, word_list[added + 1], guess), word_list, guess, added + 1)
  BY <1>1, FamilyAssumption, WordAdded
<1>4. FamiliesInv'
  BY <1>1, <1>3 DEF WheelInv, FamiliesInv
<1>5. Answered' = Answered
  BY DEF Answered
<1>6. WordsExplainBoard'
  BY <1>5 DEF WheelInv, WordsExplainBoard, InRound, Shown
<1>7. OpenInv' /\ DialogueInv' /\ LengthInv' /\ OverInv'
  BY DEF WheelInv, OpenInv, DialogueInv, LengthInv, OverInv
<1> QED
  BY <1>2, <1>4, <1>6, <1>7 DEF WheelInv

\* What the family that is chosen is, when all words have been dealt with.
LEMMA ChosenFamily ==
  ASSUME WheelInv, at = "families", added = Len(word_list)
  PROVE  LET fam == find_biggest_family(famlist)
         IN  /\ fam.word_ptrs \in Seq(Words)
             /\ fam.word_ptrs # << >>
             /\ Len(fam.word_ptrs) <= Len(word_list)
             /\ Range(fam.word_ptrs)
                  = {w \in Range(word_list) : Signature(w, guess) = fam.signature}
             /\ \A k \in DOMAIN famlist :
                  Len(famlist[k].word_ptrs) > family_increment =>
                    Len(famlist[k].word_ptrs) <= Len(fam.word_ptrs)
<1> DEFINE fam == find_biggest_family(famlist)
           n == Len(word_list)
<1>1. /\ word_list \in Seq(Words) /\ n \in Nat \ {0}
      /\ guess \in Letters
      /\ Divided(famlist, word_list, guess, n)
  <2>1. word_list # << >> /\ word_list \in Seq(Words)
    BY DEF WheelInv, TypesInv, WordsExplainBoard, InRound
  <2>2. n \in Nat \ {0}
    BY <2>1
  <2> QED
    BY <2>1, <2>2 DEF WheelInv, TypesInv, FamiliesInv
<1>2. PICK k \in DOMAIN famlist :
        /\ fam = famlist[k]
        /\ \A j \in DOMAIN famlist : famlist[j].max_words <= famlist[k].max_words
  BY <1>1, FamilyAssumption, BiggestChosen
<1>3. FamilyOf(fam, word_list, guess, n) /\ fam.word_ptrs # << >>
  BY <1>1, <1>2 DEF Divided
<1>4. fam.word_ptrs \in Seq(Words)
  BY <1>3 DEF FamilyOf, FamilyRecords
<1>5. Len(fam.word_ptrs) <= n
  BY <1>1, <1>3, PlacesFinite DEF FamilyOf
<1>6. Range(fam.word_ptrs)
        = {w \in Range(word_list) : Signature(w, guess) = fam.signature}
  <2>1. Range(fam.word_ptrs)
          = {word_list[p] : p \in {q \in 1 .. n : Signature(word_list[q], guess)
                                                    = fam.signature}}
    BY <1>3 DEF FamilyOf, Places
  <2>2. DOMAIN word_list = 1 .. n
    BY <1>1
  <2> HIDE DEF fam, n
  <2>3. ASSUME NEW w \in Range(fam.word_ptrs)
        PROVE  w \in Range(word_list) /\ Signature(w, guess) = fam.signature
    BY <2>1, <2>2 DEF Range
  <2>4. ASSUME NEW w \in Range(word_list), Signature(w, guess) = fam.signature
        PROVE  w \in Range(fam.word_ptrs)
    <3>1. PICK q \in 1 .. n : w = word_list[q]
      BY <2>2 DEF Range
    <3> QED
      BY <2>1, <2>4, <3>1
  <2> QED
    BY <2>3, <2>4
<1>7. ASSUME NEW j \in DOMAIN famlist,
             Len(famlist[j].word_ptrs) > family_increment
      PROVE  Len(famlist[j].word_ptrs) <= Len(fam.word_ptrs)
  <2>1. FamilyOf(famlist[j], word_list, guess, n)
    BY <1>1 DEF Divided
  <2>2. Len(famlist[j].word_ptrs) \in Nat /\ Len(fam.word_ptrs) \in Nat
        /\ family_increment \in Nat
    BY <1>3, <2>1, FamilyAssumption DEF FamilyOf, FamilyRecords, FamilyAssumption
  <2>3. famlist[j].max_words = Len(famlist[j].word_ptrs)
    BY <1>7, <2>1 DEF FamilyOf
  <2>4. famlist[j].max_words <= fam.max_words
    BY <1>2
  <2>5. fam.max_words = IF Len(fam.word_ptrs) > family_increment
                        THEN Len(fam.word_ptrs) ELSE family_increment
    BY <1>3 DEF FamilyOf
  <2> HIDE DEF fam
  <2> QED
    BY <1>7, <2>2, <2>3, <2>4, <2>5
<1> QED
  BY <1>3, <1>4, <1>5, <1>6, <1>7

LEMMA AnswerFacts ==
  ASSUME WheelInv, at = "families", added = Len(word_list)
  PROVE  LET fam == find_biggest_family(famlist)
             sig == fam.signature
         IN  /\ \E v \in Range(words) : /\ Shown(v, Answered) = current_word
                                        /\ Shown(v, letters_guessed) = Filled(sig)
             /\ Range(fam.word_ptrs)
                  = {w \in Range(words) : Shown(w, letters_guessed) = Filled(sig)}
             /\ Found(sig) <=> Filled(sig) # current_word
<1> DEFINE fam == find_biggest_family(famlist)
           sig == fam.signature
           L == letters_guessed \ {guess}
<1>1. /\ words \in Seq(Words) /\ word_list \in Seq(Words)
      /\ L \in SUBSET Letters /\ guess \in Letters \ L
      /\ letters_guessed = L \cup {guess}
      /\ Answered = L
  BY DEF WheelInv, TypesInv, FamiliesInv, Answered
<1>2. Range(words) \subseteq Words
  BY <1>1 DEF Range
<1>3. Range(word_list) = {w \in Range(words) : Shown(w, L) = current_word}
  BY <1>1 DEF WheelInv, WordsExplainBoard, InRound
<1>4. /\ fam.word_ptrs \in Seq(Words) /\ fam.word_ptrs # << >>
      /\ Range(fam.word_ptrs)
           = {w \in Range(word_list) : Signature(w, guess) = sig}
  BY ChosenFamily
<1>5. PICK v \in Range(fam.word_ptrs) : TRUE
  <2> HIDE DEF fam
  <2>1. 1 \in DOMAIN fam.word_ptrs
    BY <1>4
  <2> QED
    BY <2>1 DEF Range
<1>6. /\ v \in Range(words) /\ v \in Words
      /\ Shown(v, L) = current_word /\ Signature(v, guess) = sig
  BY <1>2, <1>3, <1>4, <1>5
<1> HIDE DEF sig, L, fam
<1>7. Filled(sig) = [k \in DOMAIN Shown(v, L) |->
                      IF Signature(v, guess)[k] = guess THEN guess ELSE Shown(v, L)[k]]
  BY <1>6 DEF Filled
<1>8. ASSUME NEW w \in Words
      PROVE  Shown(w, letters_guessed) = Filled(sig)
               <=> Shown(w, L) = current_word /\ Signature(w, guess) = sig
  <2>1. Shown(w, L \cup {guess}) = Filled(sig)
          <=> Shown(w, L) = Shown(v, L) /\ Signature(w, guess) = Signature(v, guess)
    BY <1>1, <1>6, <1>7, FamilyAssumption, BoardAfterAnswer
  <2> QED
    BY <1>1, <1>6, <2>1
<1>9. Range(fam.word_ptrs)
        = {w \in Range(words) : Shown(w, letters_guessed) = Filled(sig)}
  BY <1>2, <1>3, <1>4, <1>8
<1>10. Shown(v, letters_guessed) = Filled(sig)
  BY <1>6, <1>8
<1>11. Found(sig) <=> Filled(sig) # current_word
  <2>1. /\ DOMAIN current_word = DOMAIN v /\ DOMAIN sig = DOMAIN v
        /\ \A k \in DOMAIN v :
             /\ current_word[k] = IF v[k] \in L THEN v[k] ELSE Dash
             /\ sig[k] = IF v[k] = guess THEN guess ELSE Dash
    BY <1>6, ShownFacts, SignatureFacts
  <2>2. guess # Dash /\ guess \notin L
    BY <1>1, FamilyAssumption DEF FamilyAssumption
  <2>3. ASSUME NEW k \in DOMAIN v, sig[k] = guess
        PROVE  Filled(sig) # current_word
    <3>1. Filled(sig)[k] = guess
      BY <2>1, <2>3 DEF Filled
    <3>2. current_word[k] # guess
      BY <2>1, <2>2
    <3> QED
      BY <3>1, <3>2
  <2>4. ASSUME \A k \in DOMAIN v : sig[k] # guess
        PROVE  Filled(sig) = current_word
    <3>1. Filled(sig) = [k \in DOMAIN current_word |-> current_word[k]]
      BY <2>1, <2>4 DEF Filled
    <3>2. current_word = [k \in DOMAIN current_word |-> current_word[k]]
      BY <1>6 DEF Shown
    <3> QED
      BY <3>1, <3>2
  <2> QED
    BY <2>1, <2>3, <2>4 DEF Found
<1> QED
  BY <1>1, <1>6, <1>9, <1>10, <1>11 DEF sig, fam

LEMMA AnswerGuessPreserves == WheelInv /\ AnswerGuess => WheelInv'
<1> SUFFICES ASSUME WheelInv, AnswerGuess PROVE WheelInv'
  OBVIOUS
<1> DEFINE fam == find_biggest_family(famlist)
           sig == fam.signature
<1>1. /\ at = "families" /\ added = Len(word_list)
      /\ biggest_fam' = fam.word_ptrs /\ word_list' = fam.word_ptrs
      /\ current_word' = Filled(sig)
      /\ guesses' = IF Found(sig) THEN guesses ELSE guesses - 1
      /\ at' = IF \/ Found(sig) /\ Won(Filled(sig))
                  \/ ~ Found(sig) /\ guesses' <= 0
               THEN "over" ELSE "guess"
      /\ added' = 0
      /\ UNCHANGED << words, eof, len, letters_guessed, guess, famlist, revealed >>
  BY DEF AnswerGuess, get_new_word_list, Won
<1>2. /\ fam.word_ptrs \in Seq(Words) /\ fam.word_ptrs # << >>
      /\ Len(fam.word_ptrs) <= Len(word_list)
      /\ Range(fam.word_ptrs) \subseteq Range(word_list)
  BY <1>1, ChosenFamily
<1>3. /\ Range(fam.word_ptrs)
           = {w \in Range(words) : Shown(w, letters_guessed) = Filled(sig)}
      /\ Found(sig) <=> Filled(sig) # current_word
  BY <1>1, AnswerFacts
<1>4. /\ guesses \in 1 .. Cardinality(Letters)
      /\ \E k \in DOMAIN current_word : current_word[k] = Dash
      /\ Len(words) \in Nat /\ Len(word_list) \in Nat
      /\ Len(word_list) <= Len(words) /\ revealed = NoWord
  BY <1>1, LettersCounted DEF WheelInv, TypesInv, OpenInv, DialogueInv
<1> HIDE DEF fam, sig
<1>5. guesses' \in 0 .. Cardinality(Letters) /\ at' \in {"over", "guess"}
  BY <1>1, <1>4, LettersCounted
<1>6. TypesInv'
  <2>1. Len(fam.word_ptrs) \in Nat
    BY <1>2
  <2>2. Len(word_list') <= Len(words')
    BY <1>1, <1>2, <1>4, <2>1
  <2> QED
    BY <1>1, <1>2, <1>4, <1>5, <2>2 DEF WheelInv, TypesInv
<1>7. Answered' = letters_guessed
  BY <1>1, <1>5 DEF Answered
<1>8. WordsExplainBoard'
  BY <1>1, <1>2, <1>3, <1>7 DEF WordsExplainBoard, Shown
<1>9. OpenInv'
  <2> SUFFICES ASSUME at' = "guess"
               PROVE  guesses' > 0 /\ \E k \in DOMAIN current_word' : current_word'[k] = Dash
    BY <1>5 DEF OpenInv
  <2>1. CASE Found(sig)
    <3>1. ~ Won(Filled(sig))
      BY <1>1, <2>1
    <3> QED
      BY <1>1, <1>4, <2>1, <3>1 DEF Won
  <2>2. CASE ~ Found(sig)
    BY <1>1, <1>3, <1>4, <2>2
  <2> QED
    BY <2>1, <2>2
<1>10. OverInv'
  <2> SUFFICES ASSUME at' = "over"
               PROVE  guesses' = 0 \/ Won(current_word)'
    <3>1. DOMAIN current_word' = DOMAIN current_word
      BY <1>1 DEF Filled
    <3>2. DOMAIN current_word' # {}
      BY <1>4, <3>1
    <3> QED
      BY <1>1, <1>5, <3>2 DEF OverInv
  <2>1. CASE Found(sig)
    BY <1>1, <2>1 DEF Won
  <2>2. CASE ~ Found(sig)
    BY <1>1, <1>4, <2>2
  <2> QED
    BY <2>1, <2>2
<1>11. DialogueInv' /\ LengthInv' /\ FamiliesInv'
  BY <1>1, <1>4, <1>5 DEF DialogueInv, LengthInv, FamiliesInv
<1> QED
  BY <1>6, <1>8, <1>9, <1>10, <1>11 DEF WheelInv

\* The word the player is told is one that explains all he was shown.
LEMMA TruthTold ==
  ASSUME WheelInv, EndRound
  PROVE  /\ revealed' \in Range(words)
         /\ Shown(revealed', letters_guessed) = current_word
<1>1. /\ at = "over" /\ word_list # << >> /\ biggest_fam = word_list
      /\ guesses = 0 \/ Won(current_word)
      /\ word_list \in Seq(Words) /\ words \in Seq(Words)
      /\ Range(word_list)
           = {w \in Range(words) : Shown(w, letters_guessed) = current_word}
  BY DEF EndRound, WheelInv, TypesInv, OverInv, WordsExplainBoard, InRound, Answered
<1>2. CASE guesses = 0
  BY <1>1, <1>2 DEF EndRound
<1>3. CASE guesses # 0
  <2>1. revealed' = current_word /\ Won(current_word)
    BY <1>1, <1>3 DEF EndRound
  <2>2. PICK w \in Range(word_list) : TRUE
    <3>1. 1 \in DOMAIN word_list
      BY <1>1
    <3> QED
      BY <3>1 DEF Range
  <2>3. w \in Range(words) /\ Shown(w, letters_guessed) = current_word
    BY <1>1, <2>2
  <2>4. w \in Words
    BY <1>1, <2>3 DEF Range
  <2>5. DOMAIN current_word = DOMAIN w
        /\ \A k \in DOMAIN w : current_word[k] = w[k]
    BY <2>1, <2>3, <2>4, ShownFacts DEF Won
  <2>6. current_word = w
    BY <2>3, <2>4, <2>5 DEF Shown, Words
  <2> QED
    BY <2>1, <2>3, <2>6
<1> QED
  BY <1>2, <1>3

LEMMA EndRoundPreserves == WheelInv /\ EndRound => WheelInv'
<1> SUFFICES ASSUME WheelInv, EndRound PROVE WheelInv'
  OBVIOUS
<1>1. revealed' \in Range(words)
  BY TruthTold
<1>2. /\ at = "over" /\ at' = "again"
      /\ UNCHANGED << words, eof, len, word_list, current_word, letters_guessed,
                      guesses, guess, famlist, added, biggest_fam >>
  BY DEF EndRound
<1>3. TypesInv'
  BY <1>1, <1>2 DEF WheelInv, TypesInv
<1>4. DialogueInv' /\ LengthInv' /\ OverInv'
  BY <1>1, <1>2 DEF DialogueInv, LengthInv, OverInv
<1> QED
  BY <1>2, <1>3, <1>4, OutsideRound

LEMMA PlayAgainPreserves == WheelInv /\ PlayAgain => WheelInv'
<1> SUFFICES ASSUME WheelInv, PlayAgain PROVE WheelInv'
  OBVIOUS
<1> USE DEF PlayAgain
<1>1. Range(<< >>) = {} /\ << >> \in Seq(Words) /\ Len(<< >>) = 0
  BY DEF Range
<1>2. words \in Seq(Words) /\ Len(words) \in Nat
  BY DEF WheelInv, TypesInv
<1>3. TypesInv'
  BY <1>1, <1>2, LettersCounted DEF WheelInv, TypesInv
<1>4. DialogueInv' /\ LengthInv' /\ OverInv'
  BY DEF DialogueInv, LengthInv, OverInv
<1> QED
  BY <1>3, <1>4, OutsideRound

LEMMA UnchangedPreserves == WheelInv /\ UNCHANGED vars => WheelInv'
BY DEF vars, roundVars, WheelInv, TypesInv, DialogueInv, LengthInv,
       OfLength, WordsExplainBoard, InRound, Answered, Shown, OpenInv,
       FamiliesInv, OverInv, Won

LEMMA NextPreserves == WheelInv /\ [WheelNext]_vars => WheelInv'
<1> SUFFICES ASSUME WheelInv, [WheelNext]_vars PROVE WheelInv'
  OBVIOUS
<1>1. CASE EndInput
  BY <1>1, EndInputPreserves
<1>2. CASE AskLength
  BY <1>2, AskLengthPreserves
<1>3. CASE PruneWord
  BY <1>3, PruneWordPreserves
<1>4. CASE Pruned
  BY <1>4, PrunedPreserves
<1>5. CASE AskGuesses
  BY <1>5, AskGuessesPreserves
<1>6. CASE InputEnded \/ PlayNoMore
  BY <1>6, StopPreserves
<1>7. CASE GetGuess
  BY <1>7, GetGuessPreserves
<1>8. CASE AddWord
  BY <1>8, AddWordPreserves
<1>9. CASE AnswerGuess
  BY <1>9, AnswerGuessPreserves
<1>10. CASE EndRound
  BY <1>10, EndRoundPreserves
<1>11. CASE PlayAgain
  BY <1>11, PlayAgainPreserves
<1>12. CASE AskLengthAgain \/ GetGuessAgain \/ Ended \/ UNCHANGED vars
  BY <1>12, UnchangedPreserves DEF AskLengthAgain, GetGuessAgain, Ended
<1> QED
  BY <1>1, <1>2, <1>3, <1>4, <1>5, <1>6, <1>7, <1>8, <1>9, <1>10, <1>11, <1>12
  DEF WheelNext, Dialogue, Compute

LEMMA WheelInvariant == WheelSpec => []WheelInv
BY InitEstablishes, NextPreserves, PTL DEF WheelSpec

-----------------------------------------------------------------------------
(* What follows from it.                                                   *)

\* wheel keeps to the types of its variables; in particular the word it tells
\* at the end is a word of the dictionary, and the counter of guesses never
\* falls below 0.
THEOREM WheelTypeCorrect == WheelSpec => []WheelTypeOK
<1>1. WheelInv => WheelTypeOK
  BY DEF WheelInv, TypesInv, WheelTypeOK
<1> QED
  BY <1>1, WheelInvariant, PTL

\* generate_families divides the words it is given, whatever they are, and
\* never writes past a family's array.
THEOREM FamiliesCorrect == WheelSpec => []FamiliesDivide
<1>1. WheelInv => FamiliesDivide
  <2> SUFFICES ASSUME WheelInv, at = "families" PROVE FamiliesDivide
    BY DEF FamiliesDivide
  <2>1. Divided(famlist, word_list, guess, added) /\ added \in Nat
    BY DEF WheelInv, FamiliesInv, TypesInv
  <2>2. ASSUME NEW k \in DOMAIN famlist
        PROVE  LET fam == famlist[k]
                   mine == {p \in 1 .. added :
                              Signature(word_list[p], guess) = fam.signature}
               IN  /\ Range(fam.word_ptrs) = {word_list[p] : p \in mine}
                   /\ Len(fam.word_ptrs) = Cardinality(mine)
                   /\ Len(fam.word_ptrs) \in 1 .. fam.max_words
    <3> DEFINE fam == famlist[k]
    <3>1. FamilyOf(fam, word_list, guess, added) /\ fam.word_ptrs # << >>
      BY <2>1 DEF Divided
    <3>2. fam.word_ptrs \in Seq(Words) /\ fam.max_words \in Nat
      BY <3>1 DEF FamilyOf, FamilyRecords
    <3>3. Len(fam.word_ptrs) \in Nat \ {0}
      <4> HIDE DEF fam
      <4> QED
        BY <3>1, <3>2
    <3>4. Len(fam.word_ptrs) \in 1 .. fam.max_words
      <4>1. fam.max_words = IF Len(fam.word_ptrs) > family_increment
                            THEN Len(fam.word_ptrs) ELSE family_increment
        BY <3>1 DEF FamilyOf
      <4> HIDE DEF fam
      <4> QED
        BY <3>2, <3>3, <4>1, FamilyAssumption DEF FamilyAssumption
    <3> QED
      BY <3>1, <3>4 DEF FamilyOf, Places
  <2> QED
    BY <2>1, <2>2 DEF FamiliesDivide, Divided
<1> QED
  BY <1>1, WheelInvariant, PTL

\* After any number of guesses exactly the words of the dictionary that explain
\* the board are left, and there is one.
THEOREM WordsCorrect == WheelSpec => []WordsExplainBoard
<1>1. WheelInv => WordsExplainBoard
  BY DEF WheelInv
<1> QED
  BY <1>1, WheelInvariant, PTL

\* When the player is asked for a letter there is one he has not guessed, in
\* every word that is left: get_next_guess never asks for the impossible.
THEOREM AlwaysAGuess == WheelSpec => []GuessLeft
<1>1. WheelInv => GuessLeft
  <2> SUFFICES ASSUME WheelInv, at = "guess", NEW w \in Range(word_list)
               PROVE  guesses > 0 /\ Range(w) \ letters_guessed # {}
    BY DEF GuessLeft, WheelInv, OpenInv
  <2>1. /\ guesses > 0
        /\ \E k \in DOMAIN current_word : current_word[k] = Dash
    BY DEF WheelInv, OpenInv
  <2>2. Answered = letters_guessed
    BY DEF Answered
  <2>3. w \in Range(words) /\ Shown(w, letters_guessed) = current_word
    BY <2>2 DEF WheelInv, WordsExplainBoard, InRound
  <2>4. w \in Words
    BY <2>3 DEF WheelInv, TypesInv, Range
  <2>5. PICK k \in DOMAIN w : Shown(w, letters_guessed)[k] = Dash
    BY <2>1, <2>3, <2>4, ShownFacts
  <2>6. w[k] \in Letters /\ Dash \notin Letters
    BY <2>4, FamilyAssumption DEF Words, FamilyAssumption
  <2>7. w[k] \notin letters_guessed
    BY <2>4, <2>5, <2>6, ShownFacts
  <2> QED
    BY <2>1, <2>7 DEF Range
<1> QED
  BY <1>1, WheelInvariant, PTL

\* Although capacities are compared, a family that has outgrown
\* family_increment is chosen only if no other is bigger.
THEOREM GrownChosen == WheelSpec => []GrownIsBiggest
<1>1. WheelInv => GrownIsBiggest
  BY ChosenFamily DEF GrownIsBiggest
<1> QED
  BY <1>1, WheelInvariant, PTL

-----------------------------------------------------------------------------
(* The honest game.                                                        *)

HonestVars == << Range(words), current_word, Answered, guesses, revealed >>

LEMMA AskGuessesRefines == WheelInv /\ AskGuesses => Honest!Begin
<1> SUFFICES ASSUME WheelInv, AskGuesses PROVE Honest!Begin
  OBVIOUS
<1>1. WheelInv'
  BY AskGuessesPreserves
<1>2. /\ at' = "guess" /\ words' = words /\ revealed' = revealed
      /\ letters_guessed' = letters_guessed /\ letters_guessed = {}
      /\ current_word = << >>
      /\ guesses' \in 1 .. Cardinality(Letters)
  BY DEF AskGuesses, WheelInv, DialogueInv
<1>3. Answered = {} /\ Answered' = {}
  BY <1>2 DEF Answered, AskGuesses
<1>4. word_list' # << >> /\ word_list' \in Seq(Words)
      /\ Range(word_list')
           = {w \in Range(words) : Shown(w, {}) = current_word'}
  BY <1>1, <1>2, <1>3 DEF WheelInv, TypesInv, WordsExplainBoard, InRound, Shown
<1>5. \E w \in Range(words) : current_word' = Shown(w, {})
  <2>1. 1 \in DOMAIN word_list'
    BY <1>4
  <2>2. word_list'[1] \in Range(word_list')
    BY <2>1 DEF Range
  <2> QED
    BY <1>4, <2>2
<1> QED
  BY <1>2, <1>3, <1>5 DEF Honest!Begin, Honest!Shows, Shown

LEMMA AnswerRefines == WheelInv /\ AnswerGuess => Honest!Answer
<1> SUFFICES ASSUME WheelInv, AnswerGuess PROVE Honest!Answer
  OBVIOUS
<1> DEFINE sig == find_biggest_family(famlist).signature
<1>1. /\ at = "families" /\ added = Len(word_list)
      /\ current_word' = Filled(sig)
      /\ guesses' = IF Found(sig) THEN guesses ELSE guesses - 1
      /\ at' \in {"over", "guess"}
      /\ words' = words /\ letters_guessed' = letters_guessed
      /\ revealed' = revealed
  BY DEF AnswerGuess
<1>2. /\ guesses > 0 /\ revealed = NoWord
      /\ \E k \in DOMAIN current_word : current_word[k] = Dash
      /\ guess \in letters_guessed /\ letters_guessed \subseteq Letters
  BY <1>1 DEF WheelInv, TypesInv, OpenInv, DialogueInv, FamiliesInv
<1>3. /\ Answered = letters_guessed \ {guess}
      /\ Answered' = letters_guessed
      /\ guess \in Letters \ Answered
      /\ Answered' = Answered \cup {guess}
  BY <1>1, <1>2 DEF Answered
<1>4. PICK v \in Range(words) : /\ Shown(v, Answered) = current_word
                                /\ Shown(v, letters_guessed) = Filled(sig)
  BY <1>1, AnswerFacts
<1>5. Found(sig) <=> Filled(sig) # current_word
  BY <1>1, AnswerFacts
<1> HIDE DEF sig
<1>6. current_word' = Shown(v, Answered') /\ v \in Honest!Possible
  BY <1>1, <1>3, <1>4 DEF Honest!Possible, Honest!Shows, Shown
<1>7. guesses' = IF current_word' = current_word THEN guesses - 1 ELSE guesses
  BY <1>1, <1>5
<1>8. Honest!Playing /\ ~ Honest!Complete
  <2>1. current_word # << >>
    BY <1>2
  <2> QED
    BY <1>2, <2>1 DEF Honest!Playing, Honest!Complete
<1>9. current_word' = Honest!Shows(v, Answered')
  BY <1>6 DEF Honest!Shows, Shown
<1> QED
  BY <1>1, <1>2, <1>3, <1>6, <1>7, <1>8, <1>9 DEF Honest!Answer

LEMMA EndRoundRefines == WheelInv /\ EndRound => Honest!Reveal
<1> SUFFICES ASSUME WheelInv, EndRound PROVE Honest!Reveal
  OBVIOUS
<1>1. /\ at = "over" /\ at' = "again" /\ revealed = NoWord
      /\ guesses = 0 \/ Won(current_word)
      /\ words' = words /\ current_word' = current_word
      /\ letters_guessed' = letters_guessed /\ guesses' = guesses
  BY DEF EndRound, WheelInv, OverInv, DialogueInv
<1>2. Answered = letters_guessed /\ Answered' = letters_guessed
  BY <1>1 DEF Answered
<1>3. revealed' \in Honest!Possible
  BY <1>2, TruthTold DEF Honest!Possible, Honest!Shows, Shown
<1>4. current_word # << >>
  BY <1>1 DEF WheelInv, OverInv
<1> QED
  BY <1>1, <1>2, <1>3, <1>4
  DEF Honest!Reveal, Honest!Playing, Honest!Complete, Won

LEMMA PlayAgainRefines == WheelInv /\ PlayAgain => Honest!Again
<1> SUFFICES ASSUME WheelInv, PlayAgain PROVE Honest!Again
  OBVIOUS
<1>1. revealed \in Range(words) /\ words \in Seq(Words)
  BY DEF PlayAgain, WheelInv, TypesInv, OverInv
<1>2. revealed # NoWord
  <2>1. revealed \in Words
    BY <1>1 DEF Range
  <2> QED
    BY <2>1, WheelAssumption DEF WheelAssumption, Words
<1> QED
  BY <1>2 DEF Honest!Again, PlayAgain, Answered

LEMMA StepRefines ==
  WheelInv /\ [WheelNext]_vars => [Honest!HangManNext]_HonestVars
<1> SUFFICES ASSUME WheelInv, [WheelNext]_vars
             PROVE  Honest!HangManNext \/ UNCHANGED HonestVars
  OBVIOUS
<1>1. CASE AskGuesses
  BY <1>1, AskGuessesRefines DEF Honest!HangManNext
<1>2. CASE AnswerGuess
  BY <1>2, AnswerRefines DEF Honest!HangManNext
<1>3. CASE EndRound
  BY <1>3, EndRoundRefines DEF Honest!HangManNext
<1>4. CASE PlayAgain
  BY <1>4, PlayAgainRefines DEF Honest!HangManNext
<1>5. CASE GetGuess
  BY <1>5 DEF GetGuess, HonestVars, Answered
<1>6. CASE AskLength \/ PruneWord \/ Pruned \/ AddWord
  BY <1>6 DEF AskLength, PruneWord, Pruned, AddWord, HonestVars, Answered
<1>7. CASE EndInput \/ InputEnded \/ PlayNoMore
  BY <1>7 DEF EndInput, InputEnded, PlayNoMore, roundVars, HonestVars, Answered
<1>8. CASE AskLengthAgain \/ GetGuessAgain \/ Ended \/ UNCHANGED vars
  BY <1>8
  DEF AskLengthAgain, GetGuessAgain, Ended, vars, roundVars, HonestVars, Answered
<1> QED
  BY <1>1, <1>2, <1>3, <1>4, <1>5, <1>6, <1>7, <1>8
  DEF WheelNext, Dialogue, Compute

\* Without a secret word wheel plays an honest game: every answer is true of a
\* word that explains all earlier answers, wrong guesses alone cost lives, and
\* the word told at the end explains everything.
THEOREM WheelIsHonest == WheelSpec => ImplementsHangMan
<1>1. WheelInit => Honest!NoRound
  BY DEF WheelInit, Honest!NoRound, Answered
<1>2. WheelInv /\ [WheelNext]_vars => [Honest!HangManNext]_HonestVars
  BY StepRefines
<1>3. WheelSpec => []WheelInv
  BY WheelInvariant
<1> QED
  BY <1>1, <1>2, <1>3, PTL
  DEF WheelSpec, ImplementsHangMan, Honest!HangManSpec, Honest!hangManVars, HonestVars
=============================================================================
