------------------------------ MODULE HangMan ------------------------------
(***************************************************************************)
(* What wheel promises its player: rounds of hang-man in which every       *)
(* answer is true of some word that explains all earlier answers too, and  *)
(* which end with such a word.  There is no secret word, so no variable    *)
(* has to guess at the start which one it will have been.                  *)
(***************************************************************************)
EXTENDS Integers, Sequences

CONSTANTS
  Alphabet,
  Blank,     \* shown in the place of a letter not guessed
  MaxLives,  \* the most wrong guesses a player may ask for
  NoSecret   \* no word has been told

VARIABLES
  dictionary,  \* the words
  board,       \* what is shown of the word
  tried,       \* the letters guessed
  lives,       \* the wrong guesses left
  revealed     \* the word told at the end of the round

hangManVars == << dictionary, board, tried, lives, revealed >>

Shows(w, letters) ==
  [k \in DOMAIN w |-> IF w[k] \in letters THEN w[k] ELSE Blank]

\* The words that explain the board.
Possible == {w \in dictionary : Shows(w, tried) = board}

Complete == \A k \in DOMAIN board : board[k] # Blank

Playing == board # << >> /\ revealed = NoSecret

NoRound ==
  /\ board = << >>
  /\ tried = {}
  /\ lives = 0
  /\ revealed = NoSecret

Begin ==
  /\ board = << >>
  /\ \E w \in dictionary : board' = Shows(w, {})
  /\ lives' \in 1 .. MaxLives
  /\ UNCHANGED << dictionary, tried, revealed >>

Answer ==
  /\ Playing
  /\ lives > 0
  /\ ~ Complete
  /\ \E letter \in Alphabet \ tried, w \in Possible :
       /\ tried' = tried \cup {letter}
       /\ board' = Shows(w, tried')
       /\ lives' = IF board' = board THEN lives - 1 ELSE lives
  /\ UNCHANGED << dictionary, revealed >>

Reveal ==
  /\ Playing
  /\ lives = 0 \/ Complete
  /\ revealed' \in Possible
  /\ UNCHANGED << dictionary, board, tried, lives >>

\* The player would like another round.
Again ==
  /\ revealed # NoSecret
  /\ board' = << >>
  /\ tried' = {}
  /\ lives' = 0
  /\ revealed' = NoSecret
  /\ UNCHANGED dictionary

HangManNext == Begin \/ Answer \/ Reveal \/ Again

HangManSpec == NoRound /\ [][HangManNext]_hangManVars
=============================================================================
