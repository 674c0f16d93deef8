------------------------------- MODULE Wheel -------------------------------
(***************************************************************************)
(* wheel: rounds of hang-man with one player, played with all the words    *)
(* that could still be the word (wheel.c).  After each guess the words are *)
(* divided into families by where they have the letter, and one family     *)
(* stays.                                                                  *)
(*                                                                         *)
(* The program is sequential: at says where it is.  The player's input is  *)
(* what the conversions (strtol, %c) can make of it, or the end of it.     *)
(***************************************************************************)
EXTENDS Families

CONSTANTS
  MAX_WORD_LENGTH,
  Numbers,       \* what the player may enter as a number
  Dictionaries,  \* what read_words may have returned
  OtherChar,     \* a character that is no lower-case letter
  NoWord         \* no word

ASSUME WheelAssumption ==
  /\ MAX_WORD_LENGTH \in Nat
  /\ Numbers \subseteq Int
  /\ \A d \in Dictionaries : d \in Seq(Seq(Letters))
  /\ OtherChar \notin Letters
  /\ NoWord \notin Seq(Letters)

VARIABLES
  words,            \* the dictionary
  at,               \* length, prune, guesses, guess, families, over, again
                    \* or ended
  eof,              \* the player's input has ended
  len,              \* the length of the words of this round
  word_list,        \* the words that could still be the word
  current_word,     \* what the player is shown
  letters_guessed,
  guesses,          \* the wrong guesses left
  guess,            \* the last letter guessed
  famlist,          \* the families made of word_list for it
  added,            \* the words the loop it is in has dealt with
  biggest_fam,      \* the words of the family chosen last
  revealed          \* the word told at the end of the round

roundVars == << len, word_list, current_word, letters_guessed, guesses, guess,
                famlist, added, biggest_fam, revealed >>
vars == << words, at, eof, roundVars >>

WheelInit ==
  /\ words \in Dictionaries
  /\ at = "length"
  /\ eof = FALSE
  /\ len = 0
  /\ word_list = << >>
  /\ current_word = << >>
  /\ letters_guessed = {}
  /\ guesses = 0
  /\ guess = OtherChar
  /\ famlist = << >>
  /\ added = 0
  /\ biggest_fam = << >>
  /\ revealed = NoWord

\* The input may end at any time.
EndInput ==
  /\ ~ eof
  /\ eof' = TRUE
  /\ UNCHANGED << words, at, roundVars >>

-----------------------------------------------------------------------------
(* The dialogue before a round.                                            *)

\* get_word_list_of_length: other numbers are refused.
AskLength ==
  /\ at = "length"
  /\ ~ eof
  /\ len' \in Numbers \cap 1 .. MAX_WORD_LENGTH
  /\ at' = "prune"
  /\ word_list' = << >>
  /\ added' = 0
  /\ UNCHANGED << words, eof, current_word, letters_guessed, guesses, guess,
                  famlist, biggest_fam, revealed >>

\* A refused number is asked for again, and at the end of the input the
\* question is repeated for ever.
AskLengthAgain ==
  /\ at = "length"
  /\ eof \/ Numbers \ 1 .. MAX_WORD_LENGTH # {}
  /\ UNCHANGED vars

\* prune_word_list, one word.
PruneWord ==
  /\ at = "prune"
  /\ added < Len(words)
  /\ added' = added + 1
  /\ word_list' = IF Len(words[added']) = len
                   THEN Append(word_list, words[added']) ELSE word_list
  /\ UNCHANGED << words, at, eof, len, current_word, letters_guessed, guesses,
                  guess, famlist, biggest_fam, revealed >>

Pruned ==
  /\ at = "prune"
  /\ added = Len(words)
  /\ at' = IF word_list = << >> THEN "length" ELSE "guesses"
  /\ added' = 0
  /\ UNCHANGED << words, eof, len, word_list, current_word, letters_guessed,
                  guesses, guess, famlist, biggest_fam, revealed >>

\* There are as many guesses at most as letters.
AskGuesses ==
  /\ at = "guesses"
  /\ ~ eof
  /\ guesses' \in Numbers \cap 1 .. Cardinality(Letters)
  /\ current_word' = [k \in 1 .. len |-> Dash]
  /\ at' = "guess"
  /\ UNCHANGED << words, eof, len, word_list, letters_guessed, guess, famlist,
                  added, biggest_fam, revealed >>

NotWhileGuessing ==  \* slip: the result of scanf is not looked at
  /\ at \in {"guesses", "again"}
  /\ eof
  /\ at' = "ended"
  /\ UNCHANGED << words, eof, roundVars >>

\* exit(1) where an answer is needed; at the end, no other round.
InputEnded ==
  /\ at \in {"guesses", "guess", "again"}
  /\ eof
  /\ at' = "ended"
  /\ UNCHANGED << words, eof, roundVars >>

-----------------------------------------------------------------------------
(* A guess.                                                                *)

\* get_next_guess returns a lower-case letter that has not been guessed; the
\* old families are freed.
GetGuess ==
  /\ at = "guess"
  /\ ~ eof
  /\ guess' \in Letters \ letters_guessed
  /\ letters_guessed' = letters_guessed \cup {guess'}
  /\ at' = "families"
  /\ famlist' = << >>
  /\ added' = 0
  /\ UNCHANGED << words, eof, len, word_list, current_word, guesses,
                  biggest_fam, revealed >>

\* Anything else is asked for again.
GetGuessAgain ==
  /\ at = "guess"
  /\ ~ eof
  /\ UNCHANGED vars

\* generate_families, one word.
AddWord ==
  /\ at = "families"
  /\ added < Len(word_list)
  /\ added' = added + 1
  /\ famlist' = WithWord(famlist, word_list[added'], guess)
  /\ UNCHANGED << words, at, eof, len, word_list, current_word,
                  letters_guessed, guesses, guess, biggest_fam, revealed >>

Found(sig) == \E k \in DOMAIN sig : sig[k] = guess

OnlyThese(sig) ==  \* slip: the letters shown before are lost
  [k \in DOMAIN current_word |-> IF sig[k] = guess THEN guess ELSE Dash]

\* current_word with the letters of the signature.
Filled(sig) ==
  [k \in DOMAIN current_word |->
    IF sig[k] = guess THEN guess ELSE current_word[k]]

SomeShown(shown) == \E k \in DOMAIN shown : shown[k] # Dash  \* slip

Won(shown) == \A k \in DOMAIN shown : shown[k] # Dash

KeepsAll(fam) == word_list  \* slip: the list is not replaced

get_new_word_list(fam) == fam.word_ptrs

\* The biggest family gives the answer and is what remains of the words.
AnswerGuess ==
  /\ at = "families"
  /\ added = Len(word_list)
  /\ LET fam == find_biggest_family(famlist)
         sig == fam.signature
     IN  /\ biggest_fam' = fam.word_ptrs
         /\ current_word' = Filled(sig)
         /\ guesses' = IF Found(sig) THEN guesses ELSE guesses - 1
         /\ at' = IF \/ Found(sig) /\ Won(current_word')
                     \/ ~ Found(sig) /\ guesses' <= 0
                  THEN "over" ELSE "guess"
         /\ word_list' = get_new_word_list(fam)
  /\ added' = 0
  /\ UNCHANGED << words, eof, len, letters_guessed, guess, famlist, revealed >>

-----------------------------------------------------------------------------
(* The end of a round.                                                     *)

\* The player who has won is told current_word, the one who has lost a random
\* word of the last family.
EndRound ==
  /\ at = "over"
  /\ revealed' \in IF guesses = 0 THEN Range(biggest_fam) ELSE {current_word}
  /\ at' = "again"
  /\ UNCHANGED << words, eof, len, word_list, current_word, letters_guessed,
                  guesses, guess, famlist, added, biggest_fam >>

\* play_round has freed its lists, and starts with nothing when it is called
\* again.
PlayAgain ==
  /\ at = "again"
  /\ ~ eof
  /\ at' = "length"
  /\ len' = 0
  /\ word_list' = << >>
  /\ current_word' = << >>
  /\ letters_guessed' = {}
  /\ guesses' = 0
  /\ guess' = OtherChar
  /\ famlist' = << >>
  /\ added' = 0
  /\ biggest_fam' = << >>
  /\ revealed' = NoWord
  /\ UNCHANGED << words, eof >>

\* Any answer but "y".
PlayNoMore ==
  /\ at = "again"
  /\ ~ eof
  /\ at' = "ended"
  /\ UNCHANGED << words, eof, roundVars >>

Ended == at = "ended" /\ UNCHANGED vars

-----------------------------------------------------------------------------

\* What the program does by itself.
Compute == PruneWord \/ Pruned \/ AddWord \/ AnswerGuess \/ EndRound

Dialogue == AskLength \/ AskLengthAgain \/ AskGuesses \/ GetGuess
              \/ GetGuessAgain \/ PlayAgain \/ PlayNoMore

WheelNext == EndInput \/ Dialogue \/ Compute \/ InputEnded \/ Ended

WheelSpec == WheelInit /\ [][WheelNext]_vars

\* The program runs, and the player who has not left goes on guessing new
\* letters; nothing is assumed of the rest of the dialogue.
FairWheelSpec ==
  /\ WheelSpec
  /\ WF_vars(Compute)
  /\ WF_vars(InputEnded)
  /\ WF_vars(GetGuess)

-----------------------------------------------------------------------------
(* Properties.                                                             *)

Shown(w, letters) ==
  [k \in DOMAIN w |-> IF w[k] \in letters THEN w[k] ELSE Dash]

\* The letters whose answers the player has.
Answered ==
  IF at = "families" THEN letters_guessed \ {guess} ELSE letters_guessed

InRound == at \in {"guess", "families", "over"}

WheelTypeOK ==
  /\ at \in {"length", "prune", "guesses", "guess", "families", "over", "again",
              "ended"}
  /\ eof \in BOOLEAN
  /\ Range(word_list) \subseteq Range(words)
  /\ letters_guessed \subseteq Letters
  /\ guesses \in 0 .. Cardinality(Letters)
  /\ guess \in Letters \cup {OtherChar}
  /\ added \in 0 .. Len(words)
  /\ revealed \in Range(words) \cup {NoWord}

\* The families divide the words looked at so far by their signatures, each in
\* one family and none empty, and their arrays have room for them
\* (family.c:91-114, 185-217).
FamiliesDivide ==
  at = "families" =>
    /\ \A k \in DOMAIN famlist :
         LET fam == famlist[k]
             mine == {p \in 1 .. added :
                        Signature(word_list[p], guess) = fam.signature}
         IN  /\ Range(fam.word_ptrs) = {word_list[p] : p \in mine}
             /\ Len(fam.word_ptrs) = Cardinality(mine)
             /\ Len(fam.word_ptrs) \in 1 .. fam.max_words
    /\ \A k, l \in DOMAIN famlist :
         famlist[k].signature = famlist[l].signature => k = l
    /\ \A p \in 1 .. added :
         \E k \in DOMAIN famlist :
           famlist[k].signature = Signature(word_list[p], guess)

\* After any number of guesses the words that remain are exactly those of the
\* dictionary that explain what the player has been shown (wheel.c:200-231).
WordsExplainBoard ==
  InRound =>
    /\ word_list # << >>
    /\ Range(word_list) =
         {w \in Range(words) : Shown(w, Answered) = current_word}

\* The player who is asked can always go on: he has guesses left and each word
\* that remains has a letter he has not guessed, so that the loop of
\* get_next_guess can end (wheel.c:130-150, 220-228).
GuessLeft ==
  at = "guess" =>
    /\ guesses > 0
    /\ \A w \in Range(word_list) : Range(w) \ letters_guessed # {}

\* family_increment hides the sizes of small families, but a family that has
\* outgrown it is chosen only if no other is bigger (family.c:99-105, 149-157).
GrownIsBiggest ==
  at = "families" /\ added = Len(word_list) =>
    LET fam == find_biggest_family(famlist)
    IN  \A k \in DOMAIN famlist :
          Len(famlist[k].word_ptrs) > family_increment =>
            Len(famlist[k].word_ptrs) <= Len(fam.word_ptrs)

\* Every answer is true of a word that explains the earlier ones too, and so is
\* the word the player is told at the end.
Honest == INSTANCE HangMan WITH
  Alphabet <- Letters,
  Blank <- Dash,
  MaxLives <- Cardinality(Letters),
  NoSecret <- NoWord,
  dictionary <- Range(words),
  board <- current_word,
  tried <- Answered,
  lives <- guesses

ImplementsHangMan == Honest!HangManSpec

\* A player who goes on guessing comes to the end of the round.
RoundEnds == at = "guess" ~> at \in {"again", "ended"}

\* When its input ends the program ends, unless it is asking for a length: that
\* it repeats for ever (wheel.c:88-113).
EndOfInputEnds == eof ~> at \in {"length", "ended"}

\* family.c:134 says that find_biggest_family returns the family with the most
\* words.
MostWords ==
  at = "families" /\ added = Len(word_list) =>
    \A k \in DOMAIN famlist :
      Len(famlist[k].word_ptrs) <= Len(find_biggest_family(famlist).word_ptrs)
=============================================================================
