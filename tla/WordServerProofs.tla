-------------------------- MODULE WordServerProofs --------------------------
(***************************************************************************)
(* Proofs about WordServer for every set of descriptors, every dictionary  *)
(* and every bound on what clients send.                                   *)
(***************************************************************************)
EXTENDS WordServer, GameplayProofs, TurnsProofs

(* The server plays Gameplay and Turns.                                    *)

LEMMA ClientsStep ==
  ASSUME Clients
  PROVE  /\ UNCHANGED << gameVars, turnVars, serverVars, toldVars >>
         /\ Up
BY DEF Clients, Connect, Send, Close, Reset

\* A handler applies a guess and passes the turn on, lets a player come or
\* leave, or leaves struct game_state as it is.
LEMMA HandleParts ==
  ASSUME NEW f \in Players, Handle(f)
  PROVE  [StateNext]_stateVars
<1>1. ASSUME UNCHANGED << gameVars, turnVars >>
      PROVE  [StateNext]_stateVars
  BY <1>1 DEF stateVars
<1>2. ASSUME NEW why, Stop(why)
      PROVE  UNCHANGED << gameVars, turnVars >>
  BY <1>2 DEF Stop
<1>3. CASE ReadFails(f)
  BY <1>1, <1>2, <1>3 DEF ReadFails
<1>4. CASE PlayerLeaves(f)
  <2>1. Leave(f) /\ UNCHANGED gameVars
    BY <1>4 DEF PlayerLeaves, Release
  <2> QED
    BY <2>1 DEF StateNext, ComeOrGo
<1>5. CASE NewPlayerLeaves(f) \/ PartialLine(f)
  BY <1>1, <1>5 DEF NewPlayerLeaves, PartialLine, Release
<1>6. CASE GuessLetter(f)
  <2>1. CASE WriteFails(InGame)
    BY <1>1, <1>2, <2>1 DEF WriteFails
  <2>2. CASE ~ WriteFails(InGame)
    <3>1. PICK l \in Letters : Line(f) = << l >>
      BY <1>6 DEF GuessLetter, AcceptedGuess
    <3>2. Line(f)[1] \in Letters
      BY <3>1
    <3>3. Guess(Line(f)[1]) /\ Move(f)
      BY <1>6, <2>2 DEF GuessLetter
    <3> QED
      BY <3>2, <3>3 DEF StateNext, Play
  <2> QED
    BY <2>1, <2>2
<1>7. CASE RefuseGuess(f) \/ AskNameAgain(f)
  BY <1>1, <1>7 DEF RefuseGuess, AskNameAgain
<1>8. CASE NotYourTurn(f)
  BY <1>1, <1>2, <1>8 DEF NotYourTurn, WriteFails
<1>9. CASE EnterGame(f)
  <2>1. CASE WriteFails(InGame \cup {f})
    BY <1>1, <1>2, <2>1 DEF WriteFails
  <2>2. CASE ~ WriteFails(InGame \cup {f})
    <3>1. Join(f) /\ UNCHANGED gameVars
      BY <1>9, <2>2 DEF EnterGame
    <3> QED
      BY <3>1 DEF StateNext, ComeOrGo
  <2> QED
    BY <2>1, <2>2
<1> QED
  BY <1>3, <1>4, <1>5, <1>6, <1>7, <1>8, <1>9 DEF Handle

LEMMA StepParts ==
  ASSUME [ServerNext]_vars
  PROVE  [StateNext]_stateVars
<1>1. ASSUME UNCHANGED << gameVars, turnVars >>
      PROVE  [StateNext]_stateVars
  BY <1>1 DEF stateVars
<1>2. CASE Clients
  BY <1>1, <1>2, ClientsStep
<1>3. CASE Select \/ AcceptFails \/ Accept
  BY <1>1, <1>3 DEF Select, AcceptFails, Accept, Stop
<1>4. CASE \E f \in Players : Handle(f)
  BY <1>4, HandleParts
<1>5. CASE UNCHANGED vars
  BY <1>1, <1>5 DEF vars
<1> QED
  BY <1>2, <1>3, <1>4, <1>5 DEF ServerNext, Server, Stopped

\* main changes struct game_state as GameState does, and no other code touches
\* it: a guess that counts and the turn that it passes on are one step, and
\* players come and leave without touching the round.
THEOREM ServerKeepsState == ServerSpec => StateSpec
<1>1. ServerInit => StateInit
  BY DEF ServerInit, StateInit
<1>2. [ServerNext]_vars => [StateNext]_stateVars
  BY StepParts
<1> QED
  BY <1>1, <1>2, PTL DEF ServerSpec, StateSpec

\* The handlers of main play the game of Gameplay: what is proved of the game
\* holds in the server.
THEOREM ServerPlaysGame == ServerSpec => GameSpec
BY ServerKeepsState, StatePlaysGame, PTL

\* In the same way the server passes the turn as in Turns.
THEOREM ServerTakesTurns == ServerSpec => TurnsSpec
BY ServerKeepsState, StateTakesTurns, PTL

-----------------------------------------------------------------------------
(* Who believes that it is his turn.                                       *)

LEMMA AskedStep ==
  ASSUME OnlyMoverAsked, [ServerNext]_vars
  PROVE  OnlyMoverAsked'
<1>1. ASSUME UNCHANGED << turnVars, toldVars >> PROVE OnlyMoverAsked'
  BY <1>1 DEF turnVars, toldVars, OnlyMoverAsked
<1>2. ASSUME announce_turn PROVE OnlyMoverAsked'
  BY <1>2 DEF announce_turn, OnlyMoverAsked
<1>3. ASSUME NEW why, Stop(why) PROVE UNCHANGED << turnVars, toldVars >>
  BY <1>3 DEF Stop
<1>4. CASE Clients
  BY <1>1, <1>4, ClientsStep
<1>5. CASE Select \/ AcceptFails \/ Accept
  BY <1>1, <1>5 DEF Select, AcceptFails, Accept, Stop
<1>6. ASSUME NEW f \in Players, Handle(f) PROVE OnlyMoverAsked'
  <2>1. CASE ReadFails(f)
    BY <1>1, <1>3, <2>1 DEF ReadFails
  <2>2. CASE PlayerLeaves(f)
    <3>1. asked' = asked \ {f}
      BY <2>2 DEF PlayerLeaves, Release
    <3>2. f # has_next_turn => has_next_turn' = has_next_turn
      BY <2>2 DEF PlayerLeaves, Leave, LeaveInTurn, LeaveOutOfTurn
    <3> QED
      BY <3>1, <3>2 DEF OnlyMoverAsked
  <2>3. CASE NewPlayerLeaves(f)
    <3>1. asked' = asked \ {f} /\ has_next_turn' = has_next_turn
      BY <2>3 DEF NewPlayerLeaves, Release, turnVars
    <3> QED
      BY <3>1 DEF OnlyMoverAsked
  <2>4. CASE PartialLine(f) \/ RefuseGuess(f) \/ AskNameAgain(f)
    BY <1>1, <2>4 DEF PartialLine, RefuseGuess, AskNameAgain
  <2>5. CASE GuessLetter(f)
    BY <1>1, <1>2, <1>3, <2>5 DEF GuessLetter, WriteFails
  <2>6. CASE NotYourTurn(f)
    BY <1>1, <1>3, <2>6 DEF NotYourTurn, WriteFails
  <2>7. CASE EnterGame(f)
    BY <1>1, <1>2, <1>3, <2>7 DEF EnterGame, WriteFails
  <2> QED
    BY <1>6, <2>1, <2>2, <2>3, <2>4, <2>5, <2>6, <2>7 DEF Handle
<1>7. CASE UNCHANGED vars
  BY <1>1, <1>7 DEF vars
<1> QED
  BY <1>4, <1>5, <1>6, <1>7 DEF ServerNext, Server, Stopped

\* A player who was asked for a guess has the turn until he guesses, leaves or
\* is told otherwise (announce_turn, and the disconnects that announce nothing).
THEOREM MoverKnown == ServerSpec => []OnlyMoverAsked
<1>1. ServerInit => OnlyMoverAsked
  BY DEF ServerInit, OnlyMoverAsked
<1>2. OnlyMoverAsked /\ [ServerNext]_vars => OnlyMoverAsked'
  BY AskedStep
<1> QED
  BY <1>1, <1>2, PTL DEF ServerSpec

-----------------------------------------------------------------------------
(* The lists and the monitored descriptors.                                *)

\* ClientsMonitored with the types it needs to be inductive.
ListsInv ==
  /\ TurnsOK
  /\ new_players \in Seq(Players)
  /\ conn \in [Players -> {"free", "open", "eof", "reset"}]
  /\ maxfd \in Nat
  /\ ClientsMonitored

Open == {f \in Players : conn[f] # "free"}

\* What a step must keep if it leaves the lists alone.
LEMMA ListsKept ==
  ASSUME ListsInv, [ServerNext]_vars,
         UNCHANGED << head, new_players, allset, maxfd >>,
         Open' = Open,
         conn' \in [Players -> {"free", "open", "eof", "reset"}],
         Up' => Up
  PROVE  ListsInv'
<1>1. TurnsOK'
  BY StepParts, StateParts, TurnsStepOK DEF ListsInv
<1>2. InGame' = InGame /\ Waiting' = Waiting
  BY DEF InGame, Waiting
<1>3. ClientsMonitored'
  <2> SUFFICES ASSUME Up' PROVE ClientsMonitored'
    BY DEF ClientsMonitored
  <2> QED
    BY <1>2 DEF ListsInv, ClientsMonitored, Open
<1> QED
  BY <1>1, <1>3 DEF ListsInv

\* A process that has stopped promises nothing.
LEMMA ListsStopped ==
  ASSUME ListsInv, NEW why, why # "up", Stop(why)
  PROVE  ListsInv'
BY DEF ListsInv, Stop, turnVars, socketVars, TurnsOK, InGame, ClientsMonitored, Up

LEMMA ListsAccept ==
  ASSUME ListsInv, Accept
  PROVE  ListsInv'
<1>1. PICK clientfd \in FreeDescriptors, c \in {"open", "reset"} :
        /\ conn' = [conn EXCEPT ![clientfd] = c]
        /\ allset' = allset \cup {clientfd}
        /\ maxfd' = HigherOf(clientfd)
        /\ new_players' = << clientfd >> \o new_players
  BY DEF Accept
<1>2. Up /\ UNCHANGED turnVars
  BY DEF Accept
<1>3. TurnsOK' /\ InGame' = InGame
  BY <1>2 DEF turnVars, TurnsOK, InGame, ListsInv
<1>4. clientfd \in Players /\ clientfd \notin InGame \cup Waiting
  BY <1>2 DEF FreeDescriptors, ListsInv, ClientsMonitored
<1>5. /\ new_players' \in Seq(Players) /\ IsInjective(new_players')
      /\ Waiting' = Waiting \cup {clientfd}
  BY <1>1, <1>2, <1>4, PushShape DEF Waiting, ListsInv, ClientsMonitored
<1>6. conn' \in [Players -> {"free", "open", "eof", "reset"}]
  BY <1>1 DEF ListsInv
<1>7. Open' = Open \cup {clientfd}
  BY <1>1, <1>4 DEF Open, ListsInv
<1>8. maxfd' \in Nat /\ \A f \in allset' : f <= maxfd'
  <2>1. clientfd \in Nat /\ allset \subseteq Nat
    BY <1>2, <1>4, InGamePlayers, ServerAssumption
    DEF ListsInv, ClientsMonitored, Waiting
  <2>2. maxfd' = IF clientfd > maxfd THEN clientfd ELSE maxfd
    BY <1>1 DEF HigherOf
  <2>3. \A f \in allset : f <= maxfd
    BY <1>2 DEF ListsInv, ClientsMonitored
  <2> QED
    BY <1>1, <2>1, <2>2, <2>3 DEF ListsInv
<1>9. ClientsMonitored'
  <2>1. allset' = {listenfd} \cup InGame' \cup Waiting'
    BY <1>1, <1>2, <1>3, <1>5 DEF ListsInv, ClientsMonitored
  <2>2. InGame' \cap Waiting' = {}
    BY <1>2, <1>3, <1>4, <1>5 DEF ListsInv, ClientsMonitored
  <2>3. InGame' \cup Waiting' = Open'
    BY <1>2, <1>3, <1>5, <1>7 DEF ListsInv, ClientsMonitored, Open
  <2> QED
    BY <1>5, <1>8, <2>1, <2>2, <2>3 DEF ClientsMonitored, Open
<1> QED
  BY <1>3, <1>5, <1>6, <1>8, <1>9 DEF ListsInv

\* A client who leaves is taken out of the list he is in.
LEMMA ListsRelease ==
  ASSUME ListsInv, Up, NEW f \in Players, Release(f), TurnsOK',
         new_players' \in Seq(Players), IsInjective(new_players'),
         f \in InGame \cup Waiting,
         InGame' = InGame \ {f}, Waiting' = Waiting \ {f}
  PROVE  ListsInv'
<1>1. /\ conn' = [conn EXCEPT ![f] = "free"]
      /\ allset' = allset \ {f}
      /\ maxfd' = maxfd
  BY DEF Release
<1>2. conn' \in [Players -> {"free", "open", "eof", "reset"}]
  BY <1>1 DEF ListsInv
<1>3. Open' = Open \ {f}
  BY <1>1 DEF Open, ListsInv
<1>4. f # listenfd
  BY ServerAssumption
<1>5. ClientsMonitored'
  <2>1. allset' = {listenfd} \cup InGame' \cup Waiting'
    BY <1>1, <1>4 DEF ListsInv, ClientsMonitored
  <2>2. InGame' \cap Waiting' = {}
    BY DEF ListsInv, ClientsMonitored
  <2>3. InGame' \cup Waiting' = Open'
    BY <1>3 DEF ListsInv, ClientsMonitored, Open
  <2>4. \A g \in allset' : g <= maxfd'
    BY <1>1 DEF ListsInv, ClientsMonitored
  <2> QED
    BY <2>1, <2>2, <2>3, <2>4 DEF ClientsMonitored, Open
<1> QED
  BY <1>1, <1>2, <1>5 DEF ListsInv

LEMMA ListsPlayerLeaves ==
  ASSUME ListsInv, NEW f \in Players, PlayerLeaves(f)
  PROVE  ListsInv'
<1>1. Up /\ f \in InGame /\ Release(f) /\ Leave(f)
      /\ new_players' = new_players
  BY DEF PlayerLeaves, Ended, Scanned, Leave
<1>2. TurnsOK'
  BY <1>1, LeaveOK DEF ListsInv
<1>3. head' = remove_player(head, f)
  BY <1>1 DEF Leave, LeaveInTurn, LeaveOutOfTurn
<1>4. InGame' = InGame \ {f}
  BY <1>1, <1>3, RemoveShape DEF ListsInv, TurnsOK, InGame
<1>5. Waiting' = Waiting \ {f}
  BY <1>1 DEF Waiting, ListsInv, ClientsMonitored
<1>6. new_players' \in Seq(Players) /\ IsInjective(new_players')
  BY <1>1 DEF ListsInv, ClientsMonitored
<1> QED
  BY <1>1, <1>2, <1>4, <1>5, <1>6, ListsRelease

LEMMA ListsNewPlayerLeaves ==
  ASSUME ListsInv, NEW f \in Players, NewPlayerLeaves(f)
  PROVE  ListsInv'
<1>1. Up /\ f \in Waiting /\ Release(f) /\ UNCHANGED turnVars
      /\ new_players' = remove_player(new_players, f)
  BY DEF NewPlayerLeaves, Ended, Scanned
<1>2. TurnsOK' /\ InGame' = InGame
  BY <1>1 DEF turnVars, TurnsOK, InGame, ListsInv
<1>3. InGame' = InGame \ {f}
  BY <1>1, <1>2 DEF ListsInv, ClientsMonitored
<1>4. /\ new_players' \in Seq(Players) /\ IsInjective(new_players')
      /\ Waiting' = Waiting \ {f}
  BY <1>1, RemoveShape DEF ListsInv, ClientsMonitored, Waiting
<1> QED
  BY <1>1, <1>2, <1>3, <1>4, ListsRelease

\* A client who has entered a name moves from one list to the other.
LEMMA ListsEnter ==
  ASSUME ListsInv, NEW f \in Players, EnterGame(f)
  PROVE  ListsInv'
<1>1. CASE WriteFails(InGame \cup {f})
  BY <1>1, ListsStopped DEF WriteFails
<1>2. CASE ~ WriteFails(InGame \cup {f})
  <2>1. /\ Up /\ f \in Waiting /\ Join(f) /\ TakeInput(f, << >>)
        /\ new_players' = remove_player(new_players, f)
        /\ UNCHANGED << status, allset, maxfd >>
    BY <1>2 DEF EnterGame, NameLine, Arrived, Scanned
  <2>2. TurnsOK'
    BY <2>1, JoinOK DEF ListsInv
  <2>3. InGame' = InGame \cup {f}
    BY <2>1, PushShape DEF Join, InGame, ListsInv, TurnsOK
  <2>4. /\ new_players' \in Seq(Players) /\ IsInjective(new_players')
        /\ Waiting' = Waiting \ {f}
    BY <2>1, RemoveShape DEF ListsInv, ClientsMonitored, Waiting
  <2>5. conn' = conn
    BY <2>1 DEF TakeInput
  <2>6. ClientsMonitored'
    BY <2>1, <2>3, <2>4, <2>5 DEF ListsInv, ClientsMonitored
  <2> QED
    BY <2>1, <2>2, <2>4, <2>5, <2>6 DEF ListsInv
<1> QED
  BY <1>1, <1>2

LEMMA ListsHandle ==
  ASSUME ListsInv, NEW f \in Players, Handle(f)
  PROVE  ListsInv'
<1>0. [ServerNext]_vars
  BY DEF ServerNext, Server
<1>1. CASE ReadFails(f)
  BY <1>1, ListsStopped DEF ReadFails
<1>2. CASE PlayerLeaves(f)
  BY <1>2, ListsPlayerLeaves
<1>3. CASE NewPlayerLeaves(f)
  BY <1>3, ListsNewPlayerLeaves
<1>4. ASSUME UNCHANGED << head, new_players, allset, maxfd, conn >>, Up
      PROVE  ListsInv'
  <2>1. Open' = Open
    BY <1>4 DEF Open
  <2> QED
    BY <1>0, <1>4, <2>1, ListsKept DEF ListsInv
<1>5. CASE PartialLine(f) \/ RefuseGuess(f) \/ AskNameAgain(f)
  <2>1. UNCHANGED << head, new_players, allset, maxfd, conn >> /\ Up
    BY <1>5 DEF PartialLine, RefuseGuess, AskNameAgain, TakeInput, turnVars,
       TurnLine, NameLine, Arrived, Scanned
  <2> QED
    BY <1>4, <2>1
<1>6. CASE GuessLetter(f)
  <2>1. CASE WriteFails(InGame)
    BY <2>1, ListsStopped DEF WriteFails
  <2>2. CASE ~ WriteFails(InGame)
    <3>1. UNCHANGED << head, new_players, allset, maxfd, conn >> /\ Up
      BY <1>6, <2>2 DEF GuessLetter, TakeInput, Move, TurnLine, Arrived, Scanned
    <3> QED
      BY <1>4, <3>1
  <2> QED
    BY <2>1, <2>2
<1>7. CASE NotYourTurn(f)
  <2>1. CASE WriteFails({f})
    BY <2>1, ListsStopped DEF WriteFails
  <2>2. CASE ~ WriteFails({f})
    <3>1. UNCHANGED << head, new_players, allset, maxfd, conn >> /\ Up
      BY <1>7, <2>2 DEF NotYourTurn, TakeInput, turnVars, Arrived, Scanned
    <3> QED
      BY <1>4, <3>1
  <2> QED
    BY <2>1, <2>2
<1>8. CASE EnterGame(f)
  BY <1>8, ListsEnter
<1> QED
  BY <1>1, <1>2, <1>3, <1>5, <1>6, <1>7, <1>8 DEF Handle

LEMMA ListsStep ==
  ASSUME ListsInv, [ServerNext]_vars
  PROVE  ListsInv'
<1>1. CASE Clients
  <2>1. /\ UNCHANGED << head, new_players, allset, maxfd >>
        /\ Up
    BY <1>1, ClientsStep DEF turnVars, serverVars
  <2>2. /\ conn' \in [Players -> {"free", "open", "eof", "reset"}]
        /\ \A f \in Players : conn'[f] = "free" <=> conn[f] = "free"
    BY <1>1 DEF Clients, Connect, Send, Close, Reset, ListsInv
  <2>3. Open' = Open
    BY <2>2 DEF Open
  <2> QED
    BY <2>1, <2>2, <2>3, ListsKept
<1>2. CASE Select
  <2>1. UNCHANGED << head, new_players, allset, maxfd, conn >> /\ Up
    BY <1>2 DEF Select, turnVars, socketVars
  <2>2. Open' = Open
    BY <2>1 DEF Open
  <2> QED
    BY <2>1, <2>2, ListsKept DEF ListsInv
<1>3. CASE AcceptFails
  BY <1>3, ListsStopped DEF AcceptFails
<1>4. CASE Accept
  BY <1>4, ListsAccept
<1>5. CASE \E f \in Players : Handle(f)
  BY <1>5, ListsHandle
<1>6. CASE UNCHANGED vars
  <2>1. UNCHANGED << head, new_players, allset, maxfd, conn, status >>
    BY <1>6 DEF vars, turnVars, serverVars, socketVars
  <2>2. Open' = Open
    BY <2>1 DEF Open
  <2> QED
    BY <2>1, <2>2, ListsKept DEF ListsInv, Up
<1> QED
  BY <1>1, <1>2, <1>3, <1>4, <1>5, <1>6 DEF ServerNext, Server, Stopped

LEMMA ListsInit == ServerInit => ListsInv
<1> SUFFICES ASSUME ServerInit PROVE ListsInv
  OBVIOUS
<1>1. TurnsOK
  BY TurnsInitOK DEF ServerInit
<1>2. InGame = {} /\ Waiting = {} /\ IsInjective(new_players)
  BY DEF ServerInit, TurnsInit, InGame, Waiting, Range, IsInjective
<1>3. ClientsMonitored
  BY <1>2, ServerAssumption DEF ClientsMonitored, ServerInit
<1> QED
  BY <1>1, <1>3, ServerAssumption DEF ListsInv, ServerInit

\* The scan of main over two lists and a copy of allset never loses a client,
\* never has one in both lists and never leaks a descriptor, for every number
\* of descriptors.
THEOREM ServerMonitors == ServerSpec => []ClientsMonitored
<1>1. ListsInv => ClientsMonitored
  BY DEF ListsInv
<1>2. ListsInv /\ [ServerNext]_vars => ListsInv'
  BY ListsStep
<1> QED
  BY <1>1, <1>2, ListsInit, PTL DEF ServerSpec

-----------------------------------------------------------------------------
(* Names and announcements.                                                *)

Guessed(f) == GuessLetter(f) /\ ~ WriteFails(InGame)
Entered(f) == EnterGame(f) /\ ~ WriteFails(InGame \cup {f})

\* The steps after which the server runs and a name, the list of players, the
\* game or what has been shown may differ.
LEMMA StepKinds ==
  ASSUME [ServerNext]_vars
  PROVE  \/ UNCHANGED << gameVars, turnVars, name, toldVars >> /\ (Up' => Up)
         \/ \E f \in Players : \/ PlayerLeaves(f)
                               \/ NewPlayerLeaves(f)
                               \/ Guessed(f)
                               \/ Entered(f)
<1> DEFINE Quiet == UNCHANGED << gameVars, turnVars, name, toldVars >>
<1>1. ASSUME NEW why, why # "up", Stop(why) PROVE Quiet /\ (Up' => Up)
  BY <1>1 DEF Stop, Up
<1>2. CASE Clients
  BY <1>2, ClientsStep DEF serverVars
<1>3. CASE Select \/ Accept
  BY <1>3 DEF Select, Accept
<1>4. CASE AcceptFails
  BY <1>1, <1>4 DEF AcceptFails
<1>5. ASSUME NEW f \in Players, Handle(f)
      PROVE  \/ Quiet /\ (Up' => Up)
             \/ PlayerLeaves(f) \/ NewPlayerLeaves(f) \/ Guessed(f) \/ Entered(f)
  <2>1. CASE ReadFails(f)
    BY <1>1, <2>1 DEF ReadFails
  <2>2. CASE PartialLine(f) \/ RefuseGuess(f) \/ AskNameAgain(f)
    BY <2>2 DEF PartialLine, RefuseGuess, AskNameAgain, TurnLine, NameLine,
       Arrived, Scanned
  <2>3. CASE GuessLetter(f)
    BY <1>1, <2>3 DEF Guessed, WriteFails
  <2>4. CASE NotYourTurn(f)
    BY <1>1, <2>4 DEF NotYourTurn, WriteFails, Arrived, Scanned
  <2>5. CASE EnterGame(f)
    BY <1>1, <2>5 DEF Entered, WriteFails
  <2> QED
    BY <1>5, <2>1, <2>2, <2>3, <2>4, <2>5 DEF Handle
<1>6. CASE UNCHANGED vars
  BY <1>6 DEF vars, serverVars, Up
<1> QED
  BY <1>2, <1>3, <1>4, <1>5, <1>6 DEF ServerNext, Server, Stopped

\* What the four do to the set of players, the names and the announcements.
LEMMA Leaver ==
  ASSUME ListsInv, NEW f \in Players, PlayerLeaves(f)
  PROVE  /\ Up /\ f \in InGame /\ Leave(f) /\ Release(f)
         /\ InGame' = InGame \ {f}
<1>1. Up /\ f \in InGame /\ Leave(f) /\ Release(f)
  BY DEF PlayerLeaves, Ended, Scanned, Leave
<1>2. head' = remove_player(head, f)
  BY <1>1 DEF Leave, LeaveInTurn, LeaveOutOfTurn
<1> QED
  BY <1>1, <1>2, RemoveShape DEF ListsInv, TurnsOK, InGame

LEMMA NewLeaver ==
  ASSUME ListsInv, NEW f \in Players, NewPlayerLeaves(f)
  PROVE  /\ Up /\ f \notin InGame /\ Release(f) /\ UNCHANGED turnVars
         /\ InGame' = InGame
BY DEF NewPlayerLeaves, Ended, Scanned, ListsInv, ClientsMonitored, turnVars,
   InGame

LEMMA Guesser ==
  ASSUME ListsInv, NEW f \in Players, Guessed(f)
  PROVE  /\ Up /\ f \in InGame /\ f = has_next_turn /\ Move(f)
         /\ \E l \in Letters : Guess(l)
         /\ announce_game_state
         /\ name' = name
         /\ InGame' = InGame
<1>1. /\ Up /\ f = has_next_turn /\ head # << >>
      /\ Move(f) /\ Guess(Line(f)[1]) /\ announce_game_state /\ name' = name
  BY DEF Guessed, GuessLetter, TurnLine, Arrived, Scanned
<1>2. PICK l \in Letters : Line(f) = << l >>
  BY DEF Guessed, GuessLetter, AcceptedGuess
<1>3. Line(f)[1] \in Letters
  BY <1>2
<1> QED
  BY <1>1, <1>3, InGamePlayers DEF ListsInv, Move, InGame

LEMMA Newcomer ==
  ASSUME ListsInv, NEW f \in Players, Entered(f)
  PROVE  /\ Up /\ f \notin InGame /\ Join(f)
         /\ ~ InvalidName(Line(f))
         /\ name' = [name EXCEPT ![f] = Line(f)]
         /\ shown' = [shown EXCEPT ![f] = State]
         /\ UNCHANGED gameVars
         /\ InGame' = InGame \cup {f}
<1>1. /\ Up /\ f \in Waiting /\ Join(f)
      /\ ~ InvalidName(Line(f))
      /\ name' = [name EXCEPT ![f] = Line(f)]
      /\ shown' = [shown EXCEPT ![f] = State]
      /\ UNCHANGED gameVars
  BY DEF Entered, EnterGame, NameLine, Arrived, Scanned
<1>2. f \notin InGame
  BY <1>1 DEF Join
<1>3. InGame' = InGame \cup {f}
  BY <1>1, <1>2, PushShape DEF Join, InGame, ListsInv, TurnsOK
<1> QED
  BY <1>1, <1>2, <1>3

NamesInv == DOMAIN name = Players /\ NamesDiffer

LEMMA NamesStep ==
  ASSUME ListsInv, NamesInv, [ServerNext]_vars
  PROVE  NamesInv'
<1>0. InGame \subseteq Players
  BY InGamePlayers DEF ListsInv
<1>1. CASE UNCHANGED << gameVars, turnVars, name, toldVars >>
  BY <1>1 DEF turnVars, NamesInv, NamesDiffer, InGame
<1>2. ASSUME NEW f \in Players, PlayerLeaves(f) \/ NewPlayerLeaves(f)
      PROVE  NamesInv'
  <2>1. name' = [name EXCEPT ![f] = << >>] /\ InGame' = InGame \ {f}
    BY <1>2, Leaver, NewLeaver DEF Release
  <2> QED
    BY <1>0, <2>1 DEF NamesInv, NamesDiffer
<1>3. ASSUME NEW f \in Players, Guessed(f) PROVE NamesInv'
  BY <1>3, Guesser DEF NamesInv, NamesDiffer
<1>4. ASSUME NEW f \in Players, Entered(f) PROVE NamesInv'
  <2>1. /\ name' = [name EXCEPT ![f] = Line(f)]
        /\ InGame' = InGame \cup {f}
        /\ f \notin InGame
        /\ Line(f) # << >>
        /\ \A g \in InGame : name[g] # Line(f)
    BY <1>4, Newcomer DEF InvalidName
  <2> HIDE DEF Line
  <2> QED
    BY <1>0, <2>1 DEF NamesInv, NamesDiffer
<1> QED
  BY <1>1, <1>2, <1>3, <1>4, StepKinds

\* No two active players ever have the same name, and none has an empty one.
THEOREM ServerNames == ServerSpec => []NamesDiffer
<1>1. ServerInit => NamesInv
  BY DEF ServerInit, TurnsInit, NamesInv, NamesDiffer, InGame, Range
<1>2. ListsInv /\ NamesInv /\ [ServerNext]_vars => NamesInv'
  BY NamesStep
<1>3. ListsInv /\ [ServerNext]_vars => ListsInv'
  BY ListsStep
<1>4. NamesInv => NamesDiffer
  BY DEF NamesInv
<1> QED
  BY <1>1, <1>2, <1>3, <1>4, ListsInit, PTL DEF ServerSpec

ShownInv == DOMAIN shown = Players /\ StateShown

LEMMA ShownStep ==
  ASSUME ListsInv, ShownInv, [ServerNext]_vars
  PROVE  ShownInv'
<1>0. InGame \subseteq Players
  BY InGamePlayers DEF ListsInv
<1>1. CASE UNCHANGED << gameVars, turnVars, name, toldVars >> /\ (Up' => Up)
  <2>1. UNCHANGED << InGame, State, shown >>
    BY <1>1 DEF gameVars, turnVars, toldVars, InGame, State
  <2> QED
    BY <1>1, <2>1 DEF ShownInv, StateShown, Nothing
<1>2. ASSUME NEW f \in Players, PlayerLeaves(f) \/ NewPlayerLeaves(f)
      PROVE  ShownInv'
  <2>1. /\ shown' = [shown EXCEPT ![f] = Nothing]
        /\ InGame' = InGame \ {f} /\ State' = State /\ Up
    BY <1>2, Leaver, NewLeaver DEF Release, gameVars, State
  <2> HIDE DEF State
  <2> QED
    BY <1>0, <2>1 DEF ShownInv, StateShown, Nothing
<1>3. ASSUME NEW f \in Players, Guessed(f) PROVE ShownInv'
  <2>1. /\ shown' = [g \in Players |-> IF g \in InGame THEN State' ELSE shown[g]]
        /\ InGame' = InGame /\ Up
    BY <1>3, Guesser DEF announce_game_state
  <2> QED
    BY <1>0, <2>1 DEF ShownInv, StateShown, Nothing
<1>4. ASSUME NEW f \in Players, Entered(f) PROVE ShownInv'
  <2>1. /\ shown' = [shown EXCEPT ![f] = State]
        /\ InGame' = InGame \cup {f} /\ State' = State /\ Up
    BY <1>4, Newcomer DEF gameVars, State
  <2> HIDE DEF State
  <2> QED
    BY <1>0, <2>1 DEF ShownInv, StateShown, Nothing
<1> QED
  BY <1>1, <1>2, <1>3, <1>4, StepKinds

\* What a player was last sent is the state the game is in.
THEOREM ServerShows == ServerSpec => []StateShown
<1>1. ServerInit => ShownInv
  BY DEF ServerInit, TurnsInit, ShownInv, StateShown, InGame, Range, Nothing
<1>2. ListsInv /\ ShownInv /\ [ServerNext]_vars => ShownInv'
  BY ShownStep
<1>3. ListsInv /\ [ServerNext]_vars => ListsInv'
  BY ListsStep
<1>4. ShownInv => StateShown
  BY DEF ShownInv
<1> QED
  BY <1>1, <1>2, <1>3, <1>4, ListsInit, PTL DEF ServerSpec

-----------------------------------------------------------------------------
(* What clients have sent.                                                 *)

Texts == Seq(Chars \cup {EOL})

\* What is buffered for a client stays within the bound, and so do names.
InputInv ==
  /\ inq \in [Players -> Texts]
  /\ inbuf \in [Players -> Texts]
  /\ name \in [Players -> Texts]
  /\ \A f \in Players : /\ Len(inbuf[f]) + Len(inq[f]) <= MaxInput
                        /\ Len(name[f]) <= MaxInput

LEMMA FrontShape ==
  ASSUME NEW S, NEW s \in Seq(S), s # << >>
  PROVE  Front(s) \in Seq(S) /\ Len(Front(s)) = Len(s) - 1
<1>1. Len(s) \in Nat \ {0} /\ \A i \in 1 .. Len(s) : s[i] \in S
  OBVIOUS
<1>2. Front(s) = [i \in 1 .. Len(s) - 1 |-> s[i]]
  BY <1>1 DEF Front
<1> QED
  BY <1>1, <1>2

LEMMA Room ==
  \A m, a, b, c \in Nat : a + b + c <= m => m - a \in Int /\ b + c <= m - a
OBVIOUS

LEMMA ConcatShape ==
  ASSUME NEW S, NEW a \in Seq(S), NEW b \in Seq(S)
  PROVE  /\ a \o b \in Seq(S)
         /\ \A m \in Int : Len(a) + Len(b) <= m => Len(a \o b) <= m
         /\ b # << >> => a \o b # << >>
<1>1. a \o b \in Seq(S) /\ Len(a \o b) = Len(a) + Len(b)
  OBVIOUS
<1>2. Len(a) \in Nat /\ Len(b) \in Nat
  OBVIOUS
<1>3. b # << >> => Len(b) # 0
  OBVIOUS
<1> DEFINE c == a \o b
<1>4. c \in Seq(S) /\ Len(c) = Len(a) + Len(b)
  BY <1>1
<1> HIDE DEF c
<1>5. \A m \in Int : Len(a) + Len(b) <= m => Len(c) <= m
  BY <1>2, <1>4
<1>6. b # << >> => c # << >>
  BY <1>2, <1>3, <1>4
<1> QED
  BY <1>1, <1>5, <1>6 DEF c

LEMMA LineShape ==
  ASSUME InputInv, NEW f \in Players, inq[f] # << >>
  PROVE  /\ Line(f) \in Texts /\ Len(Line(f)) <= MaxInput
         /\ Received(f) \in Texts /\ Len(Received(f)) <= MaxInput
<1>1. inq[f] \in Texts /\ inbuf[f] \in Texts
      /\ Len(inbuf[f]) + Len(inq[f]) <= MaxInput
  BY DEF InputInv
<1>2. MaxInput \in Int
  BY ServerAssumption
<1>3. /\ Received(f) \in Texts /\ Received(f) # << >>
      /\ Len(Received(f)) <= MaxInput
  BY <1>1, <1>2, ConcatShape DEF Received, Texts
<1> HIDE DEF Received
<1>4. Len(Received(f)) \in Nat
  BY <1>3 DEF Texts
<1>5. Line(f) \in Texts /\ Len(Line(f)) = Len(Received(f)) - 1
  BY <1>3, FrontShape DEF Texts, Line
<1> HIDE DEF Line
<1> QED
  BY <1>2, <1>3, <1>4, <1>5

LEMMA InputStep ==
  ASSUME InputInv, [ServerNext]_vars
  PROVE  InputInv'
<1>1. ASSUME UNCHANGED << inq, inbuf, name >> PROVE InputInv'
  BY <1>1 DEF InputInv
<1>2. ASSUME NEW why, Stop(why) PROVE InputInv'
  BY <1>1, <1>2 DEF Stop, socketVars
<1>3. ASSUME NEW f \in Players, Send(f) PROVE InputInv'
  <2>1. PICK s \in Segments[f] :
          /\ Len(inbuf[f]) + Len(inq[f]) + Len(s) <= MaxInput
          /\ inq' = [inq EXCEPT ![f] = @ \o s]
    BY <1>3 DEF Send
  <2>2. s \in Texts /\ inq[f] \in Texts /\ inbuf[f] \in Texts
    BY ServerAssumption DEF InputInv, Texts
  <2>3. inbuf' = inbuf /\ name' = name
    BY <1>3 DEF Send, serverVars
  <2>4. Len(inbuf[f]) \in Nat /\ MaxInput \in Nat
    BY <2>2, ServerAssumption DEF Texts
  <2>5. /\ inq[f] \o s \in Texts
        /\ Len(inbuf[f]) + Len(inq[f] \o s) <= MaxInput
    <3> DEFINE room == MaxInput - Len(inbuf[f])
    <3>1. Len(inq[f]) \in Nat /\ Len(s) \in Nat
      BY <2>2 DEF Texts
    <3>2. room \in Int /\ Len(inq[f]) + Len(s) <= room
      <4>1. Len(inbuf[f]) + Len(inq[f]) + Len(s) <= MaxInput
        BY <2>1
      <4> QED
        BY <2>4, <3>1, <4>1, Room, Zenon
    <3>3. inq[f] \o s \in Texts /\ Len(inq[f] \o s) <= room
      BY <2>2, <3>2, ConcatShape DEF Texts
    <3>4. Len(inq[f] \o s) \in Nat
      BY <3>3 DEF Texts
    <3> DEFINE t == inq[f] \o s
    <3>5. Len(t) \in Nat /\ Len(t) <= room
      BY <3>3, <3>4
    <3> HIDE DEF t
    <3>6. Len(inbuf[f]) + Len(t) <= MaxInput
      BY <2>4, <3>5
    <3> QED
      BY <3>3, <3>6 DEF t
  <2> DEFINE t == inq[f] \o s
  <2>6. inq' = [inq EXCEPT ![f] = t]
    BY <2>1
  <2> HIDE DEF Texts, t
  <2>7. inq' \in [Players -> Texts]
    BY <2>5, <2>6 DEF InputInv, t
  <2>8. \A g \in Players : Len(inbuf[g]) + Len(inq'[g]) <= MaxInput
    BY <2>5, <2>6 DEF InputInv, t
  <2> QED
    BY <2>3, <2>7, <2>8 DEF InputInv
<1>4. CASE Clients
  BY <1>1, <1>3, <1>4 DEF Clients, Connect, Close, Reset, serverVars
<1>5. CASE Select \/ AcceptFails \/ Accept
  BY <1>1, <1>2, <1>5 DEF Select, AcceptFails, Accept, socketVars
<1>6. ASSUME NEW f \in Players, inq[f] # << >>, TakeInput(f, << >>), name' = name
      PROVE  InputInv'
  <2>1. /\ << >> \in Texts /\ Len(<< >>) = 0 /\ MaxInput >= 0
    BY ServerAssumption DEF Texts
  <2> QED
    BY <1>6, <2>1 DEF TakeInput, InputInv
<1>7. ASSUME NEW f \in Players, Handle(f) PROVE InputInv'
  <2>0. << >> \in Texts /\ Len(<< >>) = 0 /\ MaxInput \in Nat
    BY ServerAssumption DEF Texts
  <2>1. CASE ReadFails(f)
    BY <1>2, <2>1 DEF ReadFails
  <2>2. CASE PlayerLeaves(f) \/ NewPlayerLeaves(f)
    <3>1. /\ inq' = inq /\ inq[f] = << >>
          /\ inbuf' = [inbuf EXCEPT ![f] = << >>]
          /\ name' = [name EXCEPT ![f] = << >>]
      BY <2>2 DEF PlayerLeaves, NewPlayerLeaves, Release, Ended
    <3> QED
      BY <2>0, <3>1 DEF InputInv
  <2>3. CASE PartialLine(f)
    <3>1. /\ inq' = [inq EXCEPT ![f] = << >>]
          /\ inbuf' = [inbuf EXCEPT ![f] = Received(f)]
          /\ name' = name /\ inq[f] # << >>
      BY <2>3 DEF PartialLine, TakeInput, Arrived
    <3>2. Received(f) \in Texts /\ Len(Received(f)) <= MaxInput
          /\ Len(Received(f)) \in Nat
      BY <3>1, LineShape DEF Texts
    <3> HIDE DEF Texts, Received
    <3> QED
      BY <2>0, <3>1, <3>2 DEF InputInv
  <2>4. CASE RefuseGuess(f) \/ AskNameAgain(f)
    BY <1>6, <2>4 DEF RefuseGuess, AskNameAgain, TurnLine, NameLine, Arrived
  <2>5. CASE GuessLetter(f)
    BY <1>2, <1>6, <2>5 DEF GuessLetter, WriteFails, TurnLine, Arrived
  <2>6. CASE NotYourTurn(f)
    BY <1>2, <1>6, <2>6 DEF NotYourTurn, WriteFails, Arrived
  <2>7. CASE EnterGame(f)
    <3>1. CASE WriteFails(InGame \cup {f})
      BY <1>2, <3>1 DEF WriteFails
    <3>2. CASE ~ WriteFails(InGame \cup {f})
      <4>1. /\ inq[f] # << >>
            /\ inq' = [inq EXCEPT ![f] = << >>]
            /\ inbuf' = [inbuf EXCEPT ![f] = << >>]
            /\ name' = [name EXCEPT ![f] = Line(f)]
        BY <2>7, <3>2 DEF EnterGame, TakeInput, NameLine, Arrived
      <4>2. Line(f) \in Texts /\ Len(Line(f)) <= MaxInput
        BY <4>1, LineShape
      <4> HIDE DEF Texts, Line
      <4> QED
        BY <2>0, <4>1, <4>2 DEF InputInv
    <3> QED
      BY <3>1, <3>2
  <2> QED
    BY <1>7, <2>1, <2>2, <2>3, <2>4, <2>5, <2>6, <2>7 DEF Handle
<1>8. CASE UNCHANGED vars
  BY <1>1, <1>8 DEF vars, socketVars, serverVars
<1> QED
  BY <1>4, <1>5, <1>7, <1>8 DEF ServerNext, Server, Stopped

LEMMA InputInit == ServerInit => InputInv
<1> SUFFICES ASSUME ServerInit PROVE InputInv
  OBVIOUS
<1>1. << >> \in Texts /\ Len(<< >>) = 0 /\ MaxInput \in Nat
  BY ServerAssumption DEF Texts
<1>2. inq = [f \in Players |-> << >>] /\ inbuf = inq /\ name = inq
  BY DEF ServerInit
<1> QED
  BY <1>1, <1>2 DEF InputInv

-----------------------------------------------------------------------------
(* Types.                                                                  *)

\* What select looks at, and what it has found.  A connection is accepted only
\* when select has found one waiting, and nothing takes one away.
SelectInv ==
  /\ backlog \in 0 .. MaxBacklog
  /\ listenfd \in rset => backlog > 0
  /\ status \in Statuses
  /\ allset \subseteq Players \cup {listenfd}
  /\ maxfd \in Players \cup {listenfd}
  /\ rset \subseteq allset
  /\ p \in {"uninit", "null", "freed"}
  /\ asked \subseteq Players

LEMMA SelectInit == ServerInit => SelectInv
BY ServerAssumption DEF ServerInit, SelectInv, Statuses

\* A handler that keeps the sets or takes its descriptor out of them.
LEMMA SelectKept ==
  ASSUME SelectInv, NEW f \in Players,
         UNCHANGED << backlog, maxfd >>, status' \in Statuses,
         \/ allset' = allset /\ (rset' = rset \/ rset' = rset \ {f})
         \/ allset' = allset \ {f} /\ rset' = rset \ {f},
         p' \in {"uninit", "null", "freed"}, asked' \subseteq Players
  PROVE  SelectInv'
BY DEF SelectInv, Statuses

LEMMA SelectStopped ==
  ASSUME SelectInv, NEW why \in Statuses, Stop(why)
  PROVE  SelectInv'
BY DEF SelectInv, Stop, socketVars, toldVars, Statuses

LEMMA SelectHandle ==
  ASSUME ListsInv, SelectInv, NEW f \in Players, Handle(f)
  PROVE  SelectInv'
<1>1. /\ status \in Statuses /\ asked \subseteq Players
      /\ {"read_failed", "write_failed", "up"} \subseteq Statuses
      /\ p \in {"uninit", "null", "freed"}
  BY DEF SelectInv, Statuses
<1>2. ASSUME announce_turn, head' # << >> PROVE asked' \subseteq Players
  <2>1. TurnsOK'
    BY ListsHandle DEF ListsInv
  <2>2. has_next_turn' \in Range(head') /\ head' \in Seq(Players)
    BY <1>2, <2>1 DEF TurnsOK, InGame
  <2>3. has_next_turn' \in Players
    BY <2>2 DEF Range
  <2> QED
    BY <1>2, <2>3 DEF announce_turn
<1>3. CASE ReadFails(f)
  BY <1>1, <1>3, SelectStopped DEF ReadFails
<1>4. CASE PlayerLeaves(f) \/ NewPlayerLeaves(f)
  BY <1>1, <1>4, SelectKept DEF PlayerLeaves, NewPlayerLeaves, Release
<1>5. CASE PartialLine(f) \/ RefuseGuess(f) \/ AskNameAgain(f)
  <2>1. /\ UNCHANGED << backlog, maxfd, allset, asked >>
        /\ status' \in Statuses /\ rset' = rset \ {f} /\ p' = "null"
    BY <1>1, <1>5 DEF PartialLine, RefuseGuess, AskNameAgain, TakeInput, toldVars,
                      UncheckedWrite
  <2> QED
    BY <1>1, <2>1, SelectKept
<1>6. CASE GuessLetter(f)
  <2>1. CASE WriteFails(InGame)
    BY <1>1, <2>1, SelectStopped DEF WriteFails
  <2>2. CASE ~ WriteFails(InGame)
    <3>1. /\ UNCHANGED << backlog, maxfd, allset, status >>
          /\ rset' = rset \ {f} /\ p' = "null" /\ announce_turn
          /\ head' = head /\ head # << >>
      BY <1>6, <2>2 DEF GuessLetter, TakeInput, TurnLine, Move
    <3> QED
      BY <1>1, <1>2, <3>1, SelectKept
  <2> QED
    BY <2>1, <2>2
<1>7. CASE NotYourTurn(f)
  <2>1. CASE WriteFails({f})
    BY <1>1, <2>1, SelectStopped DEF WriteFails
  <2>2. CASE ~ WriteFails({f})
    <3>1. /\ UNCHANGED << backlog, maxfd, allset, status, asked >>
          /\ rset' = rset \ {f} /\ p' = "null"
      BY <1>7, <2>2 DEF NotYourTurn, TakeInput, toldVars
    <3> QED
      BY <1>1, <3>1, SelectKept
  <2> QED
    BY <2>1, <2>2
<1>8. CASE EnterGame(f)
  <2>1. CASE WriteFails(InGame \cup {f})
    BY <1>1, <2>1, SelectStopped DEF WriteFails
  <2>2. CASE ~ WriteFails(InGame \cup {f})
    <3>1. /\ UNCHANGED << backlog, maxfd, allset, status >>
          /\ rset' = rset \ {f} /\ p' = "freed" /\ announce_turn
          /\ head' = << f >> \o head
      BY <1>8, <2>2 DEF EnterGame, TakeInput, Join
    <3>2. head' # << >>
      <4>1. head \in Seq(Players)
        BY DEF ListsInv, TurnsOK
      <4> QED
        BY <3>1, <4>1, PushShape
    <3> QED
      BY <1>1, <1>2, <3>1, <3>2, SelectKept
  <2> QED
    BY <2>1, <2>2
<1> QED
  BY <1>3, <1>4, <1>5, <1>6, <1>7, <1>8 DEF Handle

LEMMA SelectStep ==
  ASSUME ListsInv, SelectInv, [ServerNext]_vars
  PROVE  SelectInv'
<1>1. CASE Clients
  <2>1. UNCHANGED << serverVars, toldVars >>
    BY <1>1, ClientsStep
  <2>2. backlog' = backlog \/ (backlog < MaxBacklog /\ backlog' = backlog + 1)
    BY <1>1 DEF Clients, Connect, Send, Close, Reset
  <2> QED
    BY <2>1, <2>2, ServerAssumption DEF SelectInv, serverVars, toldVars, Statuses
<1>2. CASE Select
  <2>1. /\ rset' = Ready
        /\ UNCHANGED << backlog, status, allset, maxfd, p, asked >>
    BY <1>2 DEF Select, socketVars, toldVars
  <2> QED
    BY <2>1 DEF SelectInv, Ready, Statuses
<1>3. CASE AcceptFails
  BY <1>3, SelectStopped DEF AcceptFails, Statuses
<1>4. CASE Accept
  <2>1. PICK clientfd \in Players :
          /\ allset' = allset \cup {clientfd}
          /\ maxfd' = HigherOf(clientfd)
          /\ status' \in {"up"} \cup GreetingFails
    BY <1>4 DEF Accept, FreeDescriptors
  <2>2. /\ backlog > 0 /\ backlog' = backlog - 1
        /\ rset' = rset \ {listenfd} /\ p' = "null" /\ asked' = asked
    BY <1>4 DEF Accept, SelectInv, toldVars
  <2>3. GreetingFails \subseteq Statuses
    BY DEF GreetingFails, SelectInv, Statuses
  <2>4. status' \in Statuses
    BY <2>1, <2>3 DEF Statuses
  <2>5. backlog' \in 0 .. MaxBacklog
    BY <2>2, ServerAssumption DEF SelectInv
  <2> QED
    BY <2>1, <2>2, <2>4, <2>5 DEF SelectInv, HigherOf, Statuses
<1>5. CASE \E f \in Players : Handle(f)
  BY <1>5, SelectHandle
<1>6. CASE UNCHANGED vars
  BY <1>6 DEF vars, socketVars, serverVars, toldVars, SelectInv, Statuses
<1> QED
  BY <1>1, <1>2, <1>3, <1>4, <1>5, <1>6 DEF ServerNext, Server, Stopped

\* The server accepts only connections that are waiting, looks only at
\* descriptors it monitors and never below the listening socket or above the
\* highest it has accepted, and what it holds of a client's input is characters
\* and line ends, whatever segments the client cuts it into.
THEOREM ServerTypeCorrect == ServerSpec => []ServerTypeOK
<1>1. ASSUME ListsInv, SelectInv, InputInv, GameTypeOK PROVE ServerTypeOK
  BY <1>1 DEF ListsInv, SelectInv, InputInv, Texts, ServerTypeOK
<1>2. ListsInv /\ SelectInv /\ InputInv /\ GameTypeOK => ServerTypeOK
  BY <1>1
<1>3. /\ ListsInv /\ [ServerNext]_vars => ListsInv'
      /\ InputInv /\ [ServerNext]_vars => InputInv'
      /\ ListsInv /\ SelectInv /\ [ServerNext]_vars => SelectInv'
  BY ListsStep, InputStep, SelectStep
<1>4. ServerSpec => []GameTypeOK
  BY ServerPlaysGame, GameTypeCorrect, PTL
<1> QED
  BY <1>2, <1>3, <1>4, ListsInit, InputInit, SelectInit, PTL DEF ServerSpec

-----------------------------------------------------------------------------
(* WordServer implements WordGame under the refinement mapping Game:  the  *)
(* players of the abstract game are the names of the active players, its   *)
(* turn is the name of the player has_next_turn points to.                 *)

AllNames == BoundedSeq(Chars \cup {EOL}, MaxInput)

LEMMA BoundedName ==
  ASSUME NEW s \in Texts, Len(s) <= MaxInput
  PROVE  s \in AllNames
<1>1. s \in [1 .. Len(s) -> Chars \cup {EOL}] /\ Len(s) \in 0 .. MaxInput
  BY ServerAssumption DEF Texts
<1> QED
  BY <1>1 DEF AllNames, BoundedSeq, SeqOf

-----------------------------------------------------------------------------
(* The refinement mapping.                                                 *)

\* The names and the turn of the abstract game.
Called == {name[f] : f \in InGame}
Turn == IF has_next_turn = NULL THEN NULL ELSE name[has_next_turn]

AbstractVars ==
  << Called, Turn, word, guess, letters_guessed, guesses_left >>

RefInv == ListsInv /\ NamesInv /\ InputInv

LEMMA RefInvStep == RefInv /\ [ServerNext]_vars => RefInv'
BY ListsStep, NamesStep, InputStep DEF RefInv

\* The turn is somebody's name exactly when somebody is in the game, and
\* players are told apart by their names.
LEMMA TurnShape ==
  ASSUME RefInv
  PROVE  /\ InGame = {} <=> head = << >>
         /\ InGame = {} => has_next_turn = NULL
         /\ InGame # {} => has_next_turn \in InGame /\ has_next_turn # NULL
         /\ \A f, g \in InGame : name[f] = name[g] => f = g
<1>1. TurnsOK /\ NamesDiffer
  BY DEF RefInv, ListsInv, NamesInv
<1>2. /\ NULL \notin InGame
      /\ head = << >> => InGame = {}
      /\ head # << >> => head[1] \in InGame /\ has_next_turn \in InGame
  BY <1>1, InGamePlayers
<1> QED
  BY <1>1, <1>2 DEF TurnsOK, NamesDiffer

\* advance_turn comes back to the same player only if he is alone.
LEMMA MoveShape ==
  ASSUME TurnsOK, NEW f \in InGame, Move(f), InGame # {f}
  PROVE  has_next_turn' \in InGame \ {f}
<1>1. f = has_next_turn /\ has_next_turn' = Advanced
  BY DEF Move
<1>2. /\ Pos(f) \in 1 .. Len(head) /\ head[Pos(f)] = f
      /\ Pos(f) < Len(head) => NextOf(f) \in InGame \ {f}
  BY NextShape
<1>3. /\ Advanced \in InGame
      /\ Pos(f) < Len(head) => Advanced = NextOf(f)
      /\ Pos(f) = Len(head) => Advanced = head[1]
  BY <1>1, AdvancedIn
<1>4. CASE Pos(f) < Len(head)
  BY <1>1, <1>2, <1>3, <1>4
<1>5. CASE Pos(f) = Len(head)
  <2>1. PICK g \in InGame : g # f
    OBVIOUS
  <2>2. DOMAIN head = 1 .. Len(head) /\ Len(head) \in Nat /\ IsInjective(head)
    BY DEF TurnsOK
  <2>3. PICK i \in 1 .. Len(head) : head[i] = g
    BY <2>2 DEF InGame, Range
  <2>4. i # Len(head)
    BY <1>2, <1>5, <2>1, <2>3
  <2>5. 1 \in 1 .. Len(head) /\ 1 # Pos(f)
    BY <1>5, <2>2, <2>3, <2>4
  <2>6. head[1] # f
    BY <1>2, <2>2, <2>5 DEF IsInjective
  <2> QED
    BY <1>1, <1>3, <1>5, <2>6
<1>6. Len(head) \in Nat
  BY DEF TurnsOK
<1> QED
  BY <1>2, <1>4, <1>5, <1>6

LEMMA EnterRefines ==
  ASSUME RefInv, RefInv', NEW f \in Players, Entered(f)
  PROVE  \E n \in AllNames : Game!Enter(n)
<1>1. /\ f \notin InGame /\ Join(f)
      /\ ~ InvalidName(Line(f))
      /\ name' = [name EXCEPT ![f] = Line(f)]
      /\ UNCHANGED gameVars
      /\ InGame' = InGame \cup {f}
  BY Newcomer DEF RefInv
<1>2. inq[f] # << >>
  BY DEF Entered, EnterGame, NameLine, Arrived
<1>3. Line(f) \in AllNames
  BY <1>2, LineShape, BoundedName DEF RefInv
<1> PICK n \in AllNames : n = Line(f)
  BY <1>3
<1>4. /\ \A g \in InGame : name[g] # n
      /\ name' = [name EXCEPT ![f] = n]
  BY <1>1 DEF InvalidName
<1>5. InGame \subseteq Players /\ DOMAIN name = Players
  BY InGamePlayers DEF RefInv, ListsInv, NamesInv
<1>6. name'[f] = n /\ \A g \in InGame : name'[g] = name[g]
  BY <1>1, <1>4, <1>5
<1>7. n \notin Called
  BY <1>4 DEF Called
<1>8. Called' = Called \cup {n}
  <2>1. Called' = {name'[g] : g \in InGame \cup {f}}
    BY <1>1 DEF Called
  <2> QED
    BY <1>6, <2>1 DEF Called
<1>9. Turn' = IF Called = {} THEN n ELSE Turn
  <2>1. Called = {} <=> InGame = {}
    BY DEF Called
  <2>2. CASE InGame = {}
    <3>1. has_next_turn = NULL
      BY <2>2, TurnShape
    <3>2. has_next_turn' = f /\ f # NULL
      BY <1>1, <3>1, TurnsAssumption DEF Join
    <3> QED
      BY <1>6, <2>1, <2>2, <3>2 DEF Turn
  <2>3. CASE InGame # {}
    <3>1. has_next_turn \in InGame /\ has_next_turn # NULL
      BY <2>3, TurnShape
    <3>2. has_next_turn' = has_next_turn
      BY <1>1, <3>1 DEF Join
    <3> QED
      BY <1>6, <2>1, <2>3, <3>1, <3>2 DEF Turn
  <2> QED
    BY <2>2, <2>3
<1>10. Game!Enter(n)
  BY <1>1, <1>7, <1>8, <1>9 DEF Game!Enter, Game!gameVars, gameVars, Called, Turn
<1> QED
  BY <1>10

LEMMA SameGame == GameNext => Game!GameNext
<1> SUFFICES ASSUME NEW l \in Letters, Guess(l) PROVE Game!Guess(l)
  BY DEF GameNext, Game!GameNext
<1>1. /\ IsValidGuess(l) <=> Game!IsValidGuess(l)
      /\ win(l) <=> Game!win(l)
      /\ Reveal(l) = Game!Reveal(l)
      /\ LeftAfter(l) = Game!LeftAfter(l)
  BY DEF IsValidGuess, Game!IsValidGuess, win, Game!win, Reveal, Game!Reveal,
     LeftAfter, Game!LeftAfter, incorrect_guess, Game!incorrect_guess
<1>2. NewRound <=> Game!NewRound
  BY DEF NewRound, Game!NewRound, Dashes, Game!Dashes
<1>3. IsOver(LeftAfter(l)) <=> Game!IsOver(Game!LeftAfter(l))
  BY <1>1 DEF IsOver, Game!IsOver
<1> QED
  BY <1>1, <1>2, <1>3 DEF Guess, WinRound, LoseRound, ContinueRound, Game!Guess,
     Game!WinRound, Game!LoseRound, Game!ContinueRound

LEMMA PlayRefines ==
  ASSUME RefInv, RefInv', NEW f \in Players, Guessed(f)
  PROVE  \E n \in AllNames : Game!Play(n)
<1>1. /\ f \in InGame /\ f = has_next_turn /\ Move(f)
      /\ \E l \in Letters : Guess(l)
      /\ name' = name
      /\ InGame' = InGame
  BY Guesser DEF RefInv
<1>2. name[f] \in AllNames
  BY BoundedName DEF RefInv, InputInv
<1> PICK n \in AllNames : n = name[f]
  BY <1>2
<1>3. Game!GameNext
  BY <1>1, SameGame DEF GameNext
<1>4. Called' = Called
  BY <1>1 DEF Called
<1>5. n \in Called /\ Turn = n
  BY <1>1, TurnShape DEF Called, Turn
<1>6. Turn' \in IF Called = {n} THEN {n} ELSE Called \ {n}
  <2>1. has_next_turn' \in InGame /\ has_next_turn' # NULL
    <3>1. TurnsOK' /\ InGame' # {} /\ InGame \subseteq Players
      BY <1>1, InGamePlayers DEF RefInv, ListsInv
    <3>2. head' # << >>
      BY <3>1 DEF InGame, Range
    <3> QED
      BY <1>1, <3>1, <3>2, TurnsAssumption DEF TurnsOK
  <2>2. Turn' = name[has_next_turn'] /\ Turn' \in Called
    BY <1>1, <2>1 DEF Turn, Called
  <2>3. CASE InGame = {f}
    BY <2>1, <2>2, <2>3 DEF Called
  <2>4. CASE InGame # {f}
    <3>1. has_next_turn' # f
      BY <1>1, <2>4, MoveShape DEF RefInv, ListsInv
    <3>2. Turn' # n
      BY <1>1, <2>1, <2>2, <3>1, TurnShape
    <3> QED
      BY <2>2, <3>2
  <2> QED
    BY <2>3, <2>4
<1>7. Game!Play(n)
  BY <1>3, <1>4, <1>5, <1>6 DEF Game!Play, Called, Turn
<1> QED
  BY <1>7

LEMMA QuitRefines ==
  ASSUME RefInv, RefInv', NEW f \in Players, PlayerLeaves(f)
  PROVE  \E n \in AllNames : Game!Quit(n)
<1>1. /\ f \in InGame /\ Leave(f) /\ Release(f)
      /\ InGame' = InGame \ {f}
  BY Leaver DEF RefInv
<1>2. name[f] \in AllNames
  BY BoundedName DEF RefInv, InputInv
<1> PICK n \in AllNames : n = name[f]
  BY <1>2
<1>3. name' = [name EXCEPT ![f] = << >>] /\ UNCHANGED gameVars
  BY <1>1 DEF Release
<1>4. \A g \in InGame' : name'[g] = name[g] /\ name[g] # n
  <2>1. \A g \in InGame \ {f} : name[g] # n
    BY <1>1, TurnShape
  <2>2. InGame \subseteq Players /\ DOMAIN name = Players
    BY InGamePlayers DEF RefInv, ListsInv, NamesInv
  <2> QED
    BY <1>1, <1>3, <2>1, <2>2
<1>5. n \in Called /\ Called' = Called \ {n}
  <2>1. Called' = {name[g] : g \in InGame \ {f}}
    BY <1>1, <1>4 DEF Called
  <2>2. \A g \in InGame \ {f} : name[g] # n
    BY <1>1, <1>4
  <2> QED
    BY <1>1, <2>1, <2>2 DEF Called
<1>6. Turn' \in IF Turn # n THEN {Turn}
                ELSE IF Called = {n} THEN {NULL} ELSE Called \ {n}
  <2>1. /\ InGame' = {} => has_next_turn' = NULL
        /\ InGame' # {} => has_next_turn' \in InGame' /\ has_next_turn' # NULL
    <3>1. TurnsOK' /\ InGame' \subseteq Players
      BY <1>1, InGamePlayers DEF RefInv, ListsInv
    <3>2. CASE head' = << >>
      <4>1. InGame' = {}
        BY <3>2 DEF InGame, Range
      <4> QED
        BY <3>1, <3>2, <4>1 DEF TurnsOK
    <3>3. CASE head' # << >>
      BY <3>1, <3>3, TurnsAssumption DEF TurnsOK
    <3> QED
      BY <3>2, <3>3
  <2>2. has_next_turn \in InGame /\ has_next_turn # NULL
    BY <1>1, TurnShape
  <2>3. CASE has_next_turn = f
    <3>1. Turn = n
      BY <2>2, <2>3 DEF Turn
    <3>2. CASE InGame = {f}
      BY <1>1, <2>1, <3>1, <3>2 DEF Turn, Called
    <3>3. CASE InGame # {f}
      <4>1. has_next_turn' \in InGame' /\ has_next_turn' # NULL
        BY <1>1, <2>1, <3>3
      <4>2. Turn' \in Called'
        BY <4>1 DEF Turn, Called
      <4>3. Called # {n}
        BY <1>5, <4>2
      <4> QED
        BY <1>5, <3>1, <4>2, <4>3
    <3> QED
      BY <3>2, <3>3
  <2>4. CASE has_next_turn # f
    <3>1. has_next_turn' = has_next_turn
      BY <1>1, <2>4 DEF Leave, LeaveInTurn, LeaveOutOfTurn
    <3>2. has_next_turn \in InGame'
      BY <1>1, <2>2, <2>4
    <3> QED
      BY <1>4, <2>2, <3>1, <3>2 DEF Turn
  <2> QED
    BY <2>3, <2>4
<1>7. Game!Quit(n)
  BY <1>3, <1>5, <1>6 DEF Game!Quit, Game!gameVars, gameVars, Called, Turn
<1> QED
  BY <1>7

LEMMA StepRefines ==
  ASSUME RefInv, [ServerNext]_vars
  PROVE  Game!WordGameNext \/ UNCHANGED AbstractVars
<1>0. RefInv'
  BY RefInvStep
<1>1. CASE UNCHANGED << gameVars, turnVars, name, toldVars >>
  BY <1>1 DEF gameVars, turnVars, AbstractVars, Called, Turn, InGame
<1>2. ASSUME NEW f \in Players, PlayerLeaves(f) PROVE Game!WordGameNext
  BY <1>0, <1>2, QuitRefines DEF Game!WordGameNext, AllNames
<1>3. ASSUME NEW f \in Players, NewPlayerLeaves(f) PROVE UNCHANGED AbstractVars
  <2>1. /\ f \notin InGame /\ Release(f) /\ UNCHANGED turnVars
        /\ InGame' = InGame
    BY <1>3, NewLeaver DEF RefInv
  <2>2. name' = [name EXCEPT ![f] = << >>] /\ UNCHANGED gameVars
    BY <2>1 DEF Release
  <2>3. \A g \in InGame : name'[g] = name[g]
    BY <2>1, <2>2, InGamePlayers DEF RefInv, ListsInv, NamesInv
  <2>4. Called' = Called
    BY <2>1, <2>3 DEF Called
  <2>5. Turn' = Turn
    BY <2>1, <2>3, TurnShape DEF Turn, turnVars
  <2> QED
    BY <2>2, <2>4, <2>5 DEF AbstractVars, gameVars
<1>4. ASSUME NEW f \in Players, Guessed(f) PROVE Game!WordGameNext
  BY <1>0, <1>4, PlayRefines DEF Game!WordGameNext, AllNames
<1>5. ASSUME NEW f \in Players, Entered(f) PROVE Game!WordGameNext
  BY <1>0, <1>5, EnterRefines DEF Game!WordGameNext, AllNames
<1> QED
  BY <1>1, <1>2, <1>3, <1>4, <1>5, StepKinds

LEMMA InitRefines == ServerInit => Game!WordGameInit
BY DEF ServerInit, TurnsInit, GameInit, Dashes, Game!WordGameInit,
   Game!GameInit, Game!Dashes, InGame, Range

\* Whatever descriptors, lists and buffers do, and whatever clients send and
\* break, main plays the word game: names are unique, only the player in turn
\* guesses, and the turn passes to somebody else when it can.
THEOREM ServerImplementsGame == ServerSpec => ImplementsWordGame
<1>1. ServerInit => RefInv
  BY ListsInit, InputInit
  DEF RefInv, NamesInv, NamesDiffer, ServerInit, TurnsInit, InGame, Range
<1>2. RefInv /\ [ServerNext]_vars => RefInv'
  BY RefInvStep
<1>3. RefInv /\ [ServerNext]_vars => [Game!WordGameNext]_AbstractVars
  BY StepRefines
<1> QED
  BY <1>1, <1>2, <1>3, InitRefines, PTL
  DEF ServerSpec, ImplementsWordGame, Game!WordGameSpec, AbstractVars, Called,
      Turn
=============================================================================
