----------------------------- MODULE GameState -----------------------------
(***************************************************************************)
(* struct game_state of the word game server as a whole (gameplay.h): the  *)
(* game and the players who take turns in it.  main changes both in one    *)
(* iteration of its loop: an accepted guess counts and passes the turn on, *)
(* and the game goes on while players come and leave.                      *)
(***************************************************************************)
EXTENDS Gameplay, Turns

stateVars == << gameVars, turnVars >>

StateInit == GameInit /\ TurnsInit

\* An accepted guess of the player in turn.
Play(p) == Move(p) /\ \E l \in Letters : Guess(l)

\* A player comes or leaves, in turn or not, in the middle of a round.
ComeOrGo(p) == (Join(p) \/ Leave(p)) /\ UNCHANGED gameVars

StateNext == \E p \in Players : Play(p) \/ ComeOrGo(p)

StateSpec == StateInit /\ [][StateNext]_stateVars

\* Whoever has the turn and stays makes a guess sooner or later: the server has
\* no timeout, so this is up to the players.  Coming and leaving are not assumed
\* to happen, nor to stop.
FairStateSpec == StateSpec /\ \A p \in Players : WF_stateVars(Play(p))

-----------------------------------------------------------------------------
(* Properties.                                                             *)

\* Players of whom not all leave in the end, and who do not all leave again
\* without a guess.
PlayersGuess ==
  /\ []<>(head # << >>)
  /\ SF_stateVars(\E p \in Players : Play(p))

\* A round that players keep guessing in comes to an end (win or game over) and
\* the next one starts with nothing guessed, whoever comes and leaves during it
\* (wordsrv.c:380-389).
RoundsEnd == PlayersGuess => []<>(letters_guessed = {})

\* Everybody who stays gets the turn, although newcomers are put at the head
\* of the list, before players who have waited longer.  For that the player in
\* turn must always have a guess that the server accepts.
TurnComesRound ==
  \A p \in Players : p \in InGame ~> (has_next_turn = p \/ p \notin InGame)
=============================================================================
