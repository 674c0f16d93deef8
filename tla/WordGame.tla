------------------------------ MODULE WordGame ------------------------------
(***************************************************************************)
(* What the word game server promises its players, without sockets, lists, *)
(* buffers or descriptors: a hang-man game for players with different      *)
(* names, who take turns.  WordServer implements it.                       *)
(***************************************************************************)
EXTENDS Gameplay

CONSTANTS
  Names,   \* what a player may be called
  Nobody   \* the turn in an empty game

VARIABLES
  players,  \* the names of those in the game
  turn      \* whose guess counts

WordGameInit ==
  /\ GameInit
  /\ players = {}
  /\ turn = Nobody

\* A player enters under a name that nobody in the game has; the turn is his
\* only if it was nobody's.
Enter(n) ==
  /\ n \notin players
  /\ players' = players \cup {n}
  /\ turn' = IF players = {} THEN n ELSE turn
  /\ UNCHANGED gameVars

\* The player in turn guesses; the turn passes to another if there is one.
Play(n) ==
  /\ n \in players
  /\ turn = n
  /\ GameNext
  /\ turn' \in IF players = {n} THEN {n} ELSE players \ {n}
  /\ UNCHANGED players

\* A player leaves, with the board as it is.  A turn that was his goes to
\* somebody who stays.
Quit(n) ==
  /\ n \in players
  /\ players' = players \ {n}
  /\ turn' \in IF turn # n THEN {turn}
               ELSE IF players = {n} THEN {Nobody} ELSE players \ {n}
  /\ UNCHANGED gameVars

WordGameNext == \E n \in Names : Enter(n) \/ Play(n) \/ Quit(n)

WordGameSpec ==
  WordGameInit /\ [][WordGameNext]_<< players, turn, word, guess,
                                       letters_guessed, guesses_left >>
=============================================================================
