---------------------------- MODULE MCGameState ----------------------------
(***************************************************************************)
(* GameState on two instances.  Five players come, guess and leave in      *)
(* every order, so that every position of a leaver, a newcomer and the     *)
(* player in turn relative to each other occurs, over rounds with words of *)
(* one and three letters, one of them twice.  And a word of ten different  *)
(* letters and one of eighteen are played, for the status message.         *)
(***************************************************************************)
EXTENDS GameState

\* Three letters are wrong for the longer word, four for the shorter.
MCLetters == {"a", "b", "x", "y", "z"}

MCWords == {<< "a", "b", "a" >>, << "x" >>}

MCManyLetters ==
  {"a", "b", "c", "d", "e", "f", "g", "h", "i", "j", "w", "x", "y", "z"}

\* game.word has MAX_WORD = 20 bytes, with the newline and the NUL.
MCLongWords == {
  << "a", "b", "c", "d", "e", "f", "g", "h", "i", "j" >>,
  << "a", "b", "c", "d", "e", "f", "g", "h", "i",
     "a", "b", "c", "d", "e", "f", "g", "h", "i" >>}
=============================================================================
