------------------------------ MODULE Gameplay ------------------------------
(***************************************************************************)
(* The hang-man game of the word game server: struct game_state without    *)
(* its player list (word game server/gameplay.h), init_game                *)
(* (gameplay.c) and the part of main that applies an accepted guess        *)
(* (wordsrv.c).  Everything here happens inside one iteration of the       *)
(* server's loop, so an accepted guess is one step, with the start of the  *)
(* next round, when it ends one, as part of the same step.                 *)
(*                                                                         *)
(* Words is what init_game can pick: the lines of the dictionary file.     *)
(***************************************************************************)
EXTENDS Integers, Sequences, FiniteSets, Functions

CONSTANTS
  Letters,      \* the lower-case letters; letters_guessed has one flag for each
  Dash,         \* the '-' that stands for a letter not guessed yet
  Words,        \* the words of the dictionary
  MAX_GUESSES,  \* wrong guesses that end a round
  MAX_MSG       \* bytes of the buffer a status message is built in

\* The code reads any file; a dictionary has at least one word, no empty line
\* and lower-case words only (the shipped one does).
ASSUME GameAssumption ==
  /\ IsFiniteSet(Letters)
  /\ Dash \notin Letters
  /\ Words # {}
  /\ Words \subseteq Seq(Letters) \ {<< >>}
  /\ MAX_GUESSES \in Nat \ {0}

VARIABLES
  word,             \* the word to guess
  guess,            \* the board, as in "-o-d"
  letters_guessed,  \* the letters whose flag is 1
  guesses_left      \* wrong guesses still allowed

gameVars == << word, guess, letters_guessed, guesses_left >>

-----------------------------------------------------------------------------
(* The steps of the game.                                                  *)

\* init_game: an all-dashes board of the word's length, nothing guessed.
Dashes(w) == [i \in DOMAIN w |-> Dash]

GameInit ==
  /\ word \in Words
  /\ guess = Dashes(word)
  /\ letters_guessed = {}
  /\ guesses_left = MAX_GUESSES

NewRoundKeepingLetters ==  \* slip: the flags are not cleared
  /\ word' \in Words
  /\ guess' = Dashes(word')
  /\ guesses_left' = MAX_GUESSES
  /\ UNCHANGED letters_guessed

\* init_game again, for the next round.
NewRound ==
  /\ word' \in Words
  /\ guess' = Dashes(word')
  /\ letters_guessed' = {}
  /\ guesses_left' = MAX_GUESSES

\* The guess passes the three checks: one letter, lower case, not guessed yet.
IsValidGuess(l) == l \in Letters \ letters_guessed

\* The loop over the word: the letter is written where it occurs ...
Reveal(l) == [i \in DOMAIN word |-> IF word[i] = l THEN l ELSE guess[i]]

\* ... and the guess is incorrect if it occurs nowhere ...
incorrect_guess(l) == \A i \in DOMAIN word : word[i] # l

WonBefore(l) == \A i \in DOMAIN word : guess[i] # Dash  \* slip: looks before writing

\* ... and the round is won if no dash is left.
win(l) == \A i \in DOMAIN word : Reveal(l)[i] # Dash

OneLess(l) == guesses_left - 1  \* slip: a correct guess is charged too

LeftAfter(l) == guesses_left - (IF incorrect_guess(l) THEN 1 ELSE 0)

OverLate(left) == left < 0  \* slip: off by one

\* No guesses remain: the game is over.
IsOver(left) == left <= 0

WinOnly(l) ==  \* slip: init_game is not called
  /\ IsValidGuess(l)
  /\ win(l)
  /\ letters_guessed' = letters_guessed \cup {l}
  /\ guess' = Reveal(l)
  /\ guesses_left' = LeftAfter(l)
  /\ UNCHANGED word

WinRound(l) ==
  /\ IsValidGuess(l)
  /\ win(l)
  /\ NewRound

LoseRound(l) ==
  /\ IsValidGuess(l)
  /\ ~ win(l)
  /\ IsOver(LeftAfter(l))
  /\ NewRound

ContinueRound(l) ==
  /\ IsValidGuess(l)
  /\ ~ win(l)
  /\ ~ IsOver(LeftAfter(l))
  /\ letters_guessed' = letters_guessed \cup {l}
  /\ guess' = Reveal(l)
  /\ guesses_left' = LeftAfter(l)
  /\ UNCHANGED word

Guess(l) == WinRound(l) \/ LoseRound(l) \/ ContinueRound(l)

GameNext == \E l \in Letters : Guess(l)

GameSpec == GameInit /\ [][GameNext]_gameVars

-----------------------------------------------------------------------------
(* What the players are shown.                                             *)

\* Bytes status_message writes into its buffer, the final '\0' included: 94
\* of fixed text and counters, the board, two for each letter guessed.
StatusLength == 94 + Len(guess) + 2 * Cardinality(letters_guessed) + 1

-----------------------------------------------------------------------------
(* Properties.                                                             *)

GameTypeOK ==
  /\ word \in Words
  /\ guess \in Seq(Letters \cup {Dash})
  /\ letters_guessed \in SUBSET Letters
  /\ guesses_left \in 1 .. MAX_GUESSES

\* The board shows exactly the letters guessed in this round, each in all its
\* places: the incremental updates of game.guess over a round (wordsrv.c,
\* loop over game.word) never lose or leak a letter, across rounds included.
BoardTruthful ==
  guess = [i \in DOMAIN word |->
             IF word[i] \in letters_guessed THEN word[i] ELSE Dash]

\* guesses_left is MAX_GUESSES minus the guessed letters that are not in the
\* word: repeated, malformed and correct guesses cost nothing.
GuessesAccounted ==
  guesses_left =
    MAX_GUESSES - Cardinality(letters_guessed \ Range(word))

\* Between two guesses the round can still be won: a letter of the word is
\* hidden and not yet flagged, so the player in turn always has a guess that
\* the server accepts and nobody waits for a round that cannot end.
RoundOpen == \E l \in Range(word) : IsValidGuess(l)

\* The most the status message ever needs, at any point of a round and for any
\* dictionary: the last letter of the word and the last wrong one are never
\* flagged while it is shown (gameplay.c:11-25).
StatusBounded ==
  StatusLength <=
    95 + Len(word) + 2 * (Cardinality(Range(word)) - 1) + 2 * (MAX_GUESSES - 1)

\* "Assumes that the caller has allocated MAX_MSG bytes for msg" (gameplay.c:9),
\* which the callers do (wordsrv.c:109, 519): the message fits into them.
StatusFits == StatusLength <= MAX_MSG
=============================================================================
