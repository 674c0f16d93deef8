------------------------------- MODULE Turns -------------------------------
(***************************************************************************)
(* The players of the word game server and whose turn it is: the linked    *)
(* list that starts at game.head and the pointer game.has_next_turn, with  *)
(* the operations of wordsrv.c that change them.  The list is a sequence,  *)
(* newest player first, because a player who has entered a name is put at  *)
(* its head.  A struct client is identified with its socket descriptor.    *)
(***************************************************************************)
EXTENDS Integers, Sequences, SequencesExt

CONSTANTS
  Players,  \* those who may be in the game
  NULL      \* the pointer to nobody

ASSUME TurnsAssumption == NULL \notin Players

VARIABLES
  head,          \* the active players, in list order
  has_next_turn  \* the one whose guess is awaited, or NULL

turnVars == << head, has_next_turn >>

InGame == Range(head)

Position(list, c) == CHOOSE i \in DOMAIN list : list[i] = c

Pos(p) == Position(head, p)

-----------------------------------------------------------------------------
(* The operations.                                                         *)

TurnsInit ==
  /\ head = << >>
  /\ has_next_turn = NULL

\* p->next
NextOf(p) == IF Pos(p) < Len(head) THEN head[Pos(p) + 1] ELSE NULL

StopAtTail == NextOf(has_next_turn)  \* slip: no wrap from the tail to the head

SkipOne ==  \* slip: steps twice
  LET n == NextOf(has_next_turn)
  IN  IF n = NULL THEN head[1]
      ELSE IF NextOf(n) = NULL THEN head[1] ELSE NextOf(n)

\* advance_turn: to the next in the list, from the last back to the first.
Advanced ==
  IF head = << >> THEN NULL
  ELSE IF NextOf(has_next_turn) # NULL THEN NextOf(has_next_turn) ELSE head[1]

JoinTakingTurn(p) ==  \* slip: the newcomer takes the turn
  /\ p \notin InGame
  /\ head' = << p >> \o head
  /\ has_next_turn' = p

\* A new player with an accepted name goes to the head of the list and gets
\* the turn if nobody has it.
Join(p) ==
  /\ p \notin InGame
  /\ head' = << p >> \o head
  /\ has_next_turn' = IF has_next_turn = NULL THEN p ELSE has_next_turn

\* The player in turn made an accepted guess.
Move(p) ==
  /\ p = has_next_turn
  /\ has_next_turn' = Advanced
  /\ UNCHANGED head

\* The list without c, who is in it.
remove_player(list, c) == RemoveAt(list, Position(list, c))

\* The player in turn disconnects: the turn advances first, and is taken away
\* from a player who is alone, before the struct is freed.
LeaveInTurn(p) ==
  /\ p = has_next_turn
  /\ has_next_turn' = IF Advanced = p THEN NextOf(p) ELSE Advanced
  /\ head' = remove_player(head, p)

\* Any other player disconnects.
LeaveOutOfTurn(p) ==
  /\ p # has_next_turn
  /\ head' = remove_player(head, p)
  /\ UNCHANGED has_next_turn

LeaveKeepingTurn(p) ==  \* slip: the pointer is left on the freed struct
  /\ p \in InGame
  /\ head' = remove_player(head, p)
  /\ UNCHANGED has_next_turn

Leave(p) == p \in InGame /\ (LeaveInTurn(p) \/ LeaveOutOfTurn(p))

TurnsNext == \E p \in Players : Join(p) \/ Move(p) \/ Leave(p)

TurnsSpec == TurnsInit /\ [][TurnsNext]_turnVars

-----------------------------------------------------------------------------
(* Properties.                                                             *)

\* The list holds each player once, and a game with players always has one of
\* them in turn: has_next_turn is never NULL while main dereferences it
\* (wordsrv.c, game.has_next_turn->fd) and never points to a removed player.
TurnsOK ==
  /\ head \in Seq(Players)
  /\ IsInjective(head)
  /\ IF head = << >> THEN has_next_turn = NULL ELSE has_next_turn \in InGame

\* How far below the player in turn p is in the list.
Ahead(p) == Pos(p) - Pos(has_next_turn)

\* Somebody below the player in turn is neither overtaken (players who join,
\* leave or move never add to the players before him) nor skipped.
NoOvertaking ==
  [][\A p \in InGame \cap Range(head') :
       Ahead(p) > 0 => Ahead(p)' \in 0 .. Ahead(p)]_turnVars
=============================================================================
