--------------------------- MODULE GameplayProofs ---------------------------
(***************************************************************************)
(* Proofs about Gameplay for every dictionary and every MAX_GUESSES, and   *)
(* that GameState plays Gameplay and Turns, so that what is proved of them *)
(* holds in it.                                                            *)
(***************************************************************************)
EXTENDS GameState, FiniteSetTheorems, TLAPS

\* The strengthening that is inductive: the board is the word seen through
\* the flags, the counter is the flags outside the word, and some letter of
\* the word is hidden.  None of the parts is inductive alone: the counter
\* needs the board, because a win is decided on the board.
GameInv ==
  /\ GameTypeOK
  /\ BoardTruthful
  /\ GuessesAccounted
  /\ RoundOpen

-----------------------------------------------------------------------------

\* A word has a first letter.
LEMMA WordShape ==
  ASSUME NEW w \in Words
  PROVE  /\ w \in Seq(Letters)
         /\ DOMAIN w = 1 .. Len(w)
         /\ Len(w) \in Nat \ {0}
         /\ \A i \in DOMAIN w : w[i] \in Letters
         /\ Range(w) \subseteq Letters
         /\ w[1] \in Range(w)
<1>1. w \in Seq(Letters) /\ w # << >>
  BY GameAssumption
<1>2. /\ DOMAIN w = 1 .. Len(w)
      /\ Len(w) \in Nat \ {0}
      /\ \A i \in DOMAIN w : w[i] \in Letters
  BY <1>1
<1> QED
  BY <1>1, <1>2 DEF Range

\* The state init_game leaves: what both the start and the end of a round need.
LEMMA FreshRound ==
  ASSUME NEW w \in Words, NEW g, g = Dashes(w)
  PROVE  /\ g \in Seq(Letters \cup {Dash})
         /\ g = [i \in DOMAIN w |-> IF w[i] \in {} THEN w[i] ELSE Dash]
         /\ MAX_GUESSES \in 1 .. MAX_GUESSES
         /\ MAX_GUESSES = MAX_GUESSES - Cardinality({} \ Range(w))
         /\ \E l \in Range(w) : l \in Letters \ {}
<1>1. g = [i \in 1 .. Len(w) |-> Dash]
  BY WordShape DEF Dashes
<1>2. g \in Seq(Letters \cup {Dash})
  BY <1>1, WordShape
<1>3. {} \ Range(w) = {}
  OBVIOUS
<1>4. MAX_GUESSES = MAX_GUESSES - Cardinality({} \ Range(w))
  BY <1>3, FS_EmptySet, GameAssumption
<1> QED
  BY <1>1, <1>2, <1>4, WordShape, GameAssumption DEF Dashes

LEMMA InitGameInv == GameInit => GameInv
<1> SUFFICES ASSUME GameInit PROVE GameInv
  OBVIOUS
<1> QED
  BY FreshRound DEF GameInit, GameInv, GameTypeOK, BoardTruthful,
     GuessesAccounted, RoundOpen, IsValidGuess

LEMMA NewRoundInv == NewRound => GameInv'
<1> SUFFICES ASSUME NewRound PROVE GameInv'
  OBVIOUS
<1> QED
  BY FreshRound DEF NewRound, GameInv, GameTypeOK, BoardTruthful,
     GuessesAccounted, RoundOpen, IsValidGuess

\* An accepted guess that does not end the round.
LEMMA ContinueRoundInv ==
  ASSUME GameInv, NEW l \in Letters, ContinueRound(l)
  PROVE  GameInv'
<1> USE DEF GameInv, ContinueRound, IsValidGuess
<1>1. /\ word \in Words /\ word' = word
      /\ letters_guessed \in SUBSET Letters
      /\ letters_guessed' = letters_guessed \cup {l}
      /\ l \notin letters_guessed
  BY DEF GameTypeOK
<1>2. /\ IsFiniteSet(letters_guessed \ Range(word))
      /\ Cardinality(letters_guessed \ Range(word)) \in Nat
  <2>1. letters_guessed \ Range(word) \in SUBSET Letters
    BY <1>1
  <2> QED
    BY <2>1, FS_Subset, FS_CardinalityType, GameAssumption
<1>3. BoardTruthful'
  BY <1>1 DEF BoardTruthful, Reveal
<1>4. guess' \in Seq(Letters \cup {Dash})
  <2>1. guess' = [i \in 1 .. Len(word) |->
                    IF word[i] \in letters_guessed' THEN word[i] ELSE Dash]
    BY <1>1, <1>3, WordShape DEF BoardTruthful
  <2> QED
    BY <2>1, <1>1, WordShape
<1>5. GuessesAccounted'
  <2>1. CASE incorrect_guess(l)
    <3>1. l \notin Range(word)
      BY <2>1 DEF incorrect_guess, Range
    <3>2. letters_guessed' \ Range(word) = (letters_guessed \ Range(word)) \cup {l}
      BY <1>1, <3>1
    <3>3. Cardinality(letters_guessed' \ Range(word))
            = Cardinality(letters_guessed \ Range(word)) + 1
      BY <1>1, <1>2, <3>2, FS_AddElement
    <3> QED
      BY <1>1, <1>2, <2>1, <3>3, GameAssumption DEF GuessesAccounted, LeftAfter
  <2>2. CASE ~ incorrect_guess(l)
    <3>1. l \in Range(word)
      BY <2>2 DEF incorrect_guess, Range
    <3>2. letters_guessed' \ Range(word') = letters_guessed \ Range(word)
      BY <1>1, <3>1
    <3>3. guesses_left \in Int /\ guesses_left' = LeftAfter(l)
      BY DEF GameTypeOK
    <3>4. guesses_left' = guesses_left
      BY <2>2, <3>3 DEF LeftAfter
    <3> QED
      BY <3>2, <3>4 DEF GuessesAccounted
  <2> QED
    BY <2>1, <2>2
<1>6. GameTypeOK'
  <2>1. guesses_left \in 1 .. MAX_GUESSES /\ MAX_GUESSES \in Nat
    BY GameAssumption DEF GameTypeOK
  <2>2. guesses_left' \in 1 .. MAX_GUESSES
    BY <2>1 DEF LeftAfter, IsOver
  <2> QED
    BY <1>1, <1>4, <2>2 DEF GameTypeOK
<1>7. RoundOpen'
  <2>1. PICK i \in DOMAIN word : Reveal(l)[i] = Dash
    BY DEF win
  <2>2. word[i] # l /\ guess[i] = Dash
    BY <2>1, GameAssumption DEF Reveal
  <2>3. word[i] \in Letters /\ word[i] \in Range(word)
    BY <1>1, <2>1, WordShape DEF Range
  <2>4. word[i] \notin letters_guessed
    BY <2>1, <2>2, <2>3, GameAssumption DEF BoardTruthful
  <2> QED
    BY <1>1, <2>2, <2>3, <2>4 DEF RoundOpen
<1> QED
  BY <1>3, <1>5, <1>6, <1>7

LEMMA GameStepInv == GameInv /\ [GameNext]_gameVars => GameInv'
<1> SUFFICES ASSUME GameInv, [GameNext]_gameVars PROVE GameInv'
  OBVIOUS
<1>1. ASSUME NEW l \in Letters, WinRound(l) \/ LoseRound(l) PROVE GameInv'
  BY <1>1, NewRoundInv DEF WinRound, LoseRound
<1>2. ASSUME NEW l \in Letters, ContinueRound(l) PROVE GameInv'
  BY <1>2, ContinueRoundInv
<1>3. CASE UNCHANGED gameVars
  BY <1>3 DEF gameVars, GameInv, GameTypeOK, BoardTruthful, GuessesAccounted,
     RoundOpen, IsValidGuess
<1> QED
  BY <1>1, <1>2, <1>3 DEF GameNext, Guess

\* In every reachable state of the game the board, the flags and the counter
\* agree and the round can still be won (init_game and the guess handling of
\* main), for every dictionary.
THEOREM GameCorrect == GameSpec => []GameInv
BY InitGameInv, GameStepInv, PTL DEF GameSpec

\* The types alone.
THEOREM GameTypeCorrect == GameSpec => []GameTypeOK
<1>1. GameInv => GameTypeOK
  BY DEF GameInv
<1> QED
  BY <1>1, GameCorrect, PTL

\* main's board is never stale and never ahead of the guesses.
THEOREM BoardCorrect == GameSpec => []BoardTruthful
<1>1. GameInv => BoardTruthful
  BY DEF GameInv
<1> QED
  BY <1>1, GameCorrect, PTL

\* The player in turn always has a letter the server accepts.
THEOREM RoundStaysOpen == GameSpec => []RoundOpen
<1>1. GameInv => RoundOpen
  BY DEF GameInv
<1> QED
  BY <1>1, GameCorrect, PTL

\* Exactly the distinct wrong letters of the round are charged for.
THEOREM CounterCorrect == GameSpec => []GuessesAccounted
<1>1. GameInv => GuessesAccounted
  BY DEF GameInv
<1> QED
  BY <1>1, GameCorrect, PTL

-----------------------------------------------------------------------------
(* struct game_state plays the game and passes the turn.                   *)

LEMMA StateParts ==
  ASSUME [StateNext]_stateVars
  PROVE  [GameNext]_gameVars /\ [TurnsNext]_turnVars
<1>1. ASSUME NEW p \in Players, Play(p)
      PROVE  GameNext /\ TurnsNext
  BY <1>1 DEF Play, GameNext, TurnsNext
<1>2. ASSUME NEW p \in Players, ComeOrGo(p)
      PROVE  UNCHANGED gameVars /\ TurnsNext
  BY <1>2 DEF ComeOrGo, TurnsNext
<1>3. CASE UNCHANGED stateVars
  BY <1>3 DEF stateVars
<1> QED
  BY <1>1, <1>2, <1>3 DEF StateNext

\* Players who come and leave do not disturb the round.
THEOREM StatePlaysGame == StateSpec => GameSpec
<1>1. StateInit => GameInit
  BY DEF StateInit
<1>2. [StateNext]_stateVars => [GameNext]_gameVars
  BY StateParts
<1> QED
  BY <1>1, <1>2, PTL DEF StateSpec, GameSpec

\* Rounds that end do not disturb the order of turns.
THEOREM StateTakesTurns == StateSpec => TurnsSpec
<1>1. StateInit => TurnsInit
  BY DEF StateInit
<1>2. [StateNext]_stateVars => [TurnsNext]_turnVars
  BY StateParts
<1> QED
  BY <1>1, <1>2, PTL DEF StateSpec, TurnsSpec

-----------------------------------------------------------------------------
(* The size of the status message.                                         *)

\* The letters flagged in an open round: at most MAX_GUESSES - 1 wrong ones
\* and all but one of those in the word.
LEMMA FlagsBounded ==
  ASSUME GameInv
  PROVE  /\ Cardinality(letters_guessed) \in Nat
         /\ Cardinality(Range(word)) \in Nat
         /\ Cardinality(letters_guessed)
              <= MAX_GUESSES - 1 + Cardinality(Range(word)) - 1
<1> DEFINE In == letters_guessed \cap Range(word)
           Out == letters_guessed \ Range(word)
<1>1. /\ word \in Words
      /\ letters_guessed \in SUBSET Letters
      /\ guesses_left \in 1 .. MAX_GUESSES
      /\ MAX_GUESSES \in Nat
  BY GameAssumption DEF GameInv, GameTypeOK
<1>2. /\ IsFiniteSet(Range(word))
      /\ Cardinality(Range(word)) \in Nat
  BY <1>1, WordShape, FS_Subset, FS_CardinalityType, GameAssumption
<1>3. PICK h \in Range(word) : h \notin letters_guessed
  BY DEF GameInv, RoundOpen, IsValidGuess
<1>4. /\ IsFiniteSet(In)
      /\ Cardinality(In) <= Cardinality(Range(word)) - 1
  <2>1. /\ IsFiniteSet(Range(word) \ {h})
        /\ Cardinality(Range(word) \ {h}) = Cardinality(Range(word)) - 1
    BY <1>2, <1>3, FS_RemoveElement
  <2>2. In \in SUBSET (Range(word) \ {h})
    BY <1>3
  <2> QED
    BY <2>1, <2>2, FS_Subset
<1>5. /\ IsFiniteSet(Out)
      /\ Cardinality(Out) <= MAX_GUESSES - 1
  <2>1. IsFiniteSet(Out) /\ Cardinality(Out) \in Nat
    BY <1>1, FS_Subset, FS_CardinalityType, GameAssumption
  <2> QED
    BY <1>1, <2>1 DEF GameInv, GuessesAccounted
<1>6. Cardinality(In) \in Nat /\ Cardinality(Out) \in Nat
  BY <1>4, <1>5, FS_CardinalityType
<1>7. Cardinality(letters_guessed) = Cardinality(In) + Cardinality(Out)
  <2>1. letters_guessed = In \cup Out /\ In \cap Out = {}
    OBVIOUS
  <2>2. Cardinality(In \cup Out)
          = Cardinality(In) + Cardinality(Out) - Cardinality(In \cap Out)
    BY <1>4, <1>5, FS_Union
  <2>3. Cardinality(In \cap Out) = 0
    BY <2>1, FS_EmptySet
  <2>4. Cardinality(letters_guessed) = Cardinality(In \cup Out)
    BY <2>1
  <2> HIDE DEF In, Out
  <2> QED
    BY <1>6, <2>2, <2>3, <2>4
<1> HIDE DEF In, Out
<1> QED
  BY <1>1, <1>2, <1>4, <1>5, <1>6, <1>7

\* What status_message needs of its buffer depends on the length of the word
\* and on its different letters only (gameplay.c:11-25): this much and no more
\* for every dictionary, every alphabet and every MAX_GUESSES.  With the
\* program's own constants a word of n letters, d of them different, needs up
\* to 99 + n + 2 * d bytes: 126 of its 128 for n = d = 9, and 129 for n = d = 10.
THEOREM StatusIsBounded == GameSpec => []StatusBounded
<1>1. GameInv => StatusBounded
  <2> SUFFICES ASSUME GameInv PROVE StatusBounded
    OBVIOUS
  <2>1. word \in Words /\ MAX_GUESSES \in Nat
    BY GameAssumption DEF GameInv, GameTypeOK
  <2>2. Len(guess) = Len(word)
    <3>1. guess = [i \in 1 .. Len(word) |->
                     IF word[i] \in letters_guessed THEN word[i] ELSE Dash]
      BY <2>1, WordShape DEF GameInv, BoardTruthful
    <3>2. guess \in Seq(Letters \cup {Dash})
      BY DEF GameInv, GameTypeOK
    <3> QED
      BY <2>1, <3>1, <3>2, WordShape
  <2>3. Len(word) \in Nat
    BY <2>1, WordShape
  <2> QED
    BY <2>1, <2>2, <2>3, FlagsBounded DEF StatusBounded, StatusLength
<1> QED
  BY <1>1, GameCorrect, PTL
=============================================================================
