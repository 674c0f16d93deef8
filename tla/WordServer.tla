----------------------------- MODULE WordServer -----------------------------
(***************************************************************************)
(* The word game server (wordsrv.c, socket.c): one process that waits in   *)
(* select, accepts connections, reads from the descriptors that are ready, *)
(* and writes to the players.  Gameplay and Turns are the parts of its     *)
(* state that have modules of their own; the handlers below perform their  *)
(* actions.                                                                *)
(*                                                                         *)
(* The server handles one descriptor per step.  Between two steps clients  *)
(* connect, send, close and break their connections as they like.          *)
(*                                                                         *)
(* A connection is a byte stream: what the client sends is appended, and a *)
(* read takes all there is, wherever lines begin and end.  The stream is   *)
(* cut into characters and EOL, which stands for CR LF.  Clients end their *)
(* lines with CR LF and keep within MAX_BUF and MAX_NAME.                  *)
(***************************************************************************)
EXTENDS Gameplay, Turns, FiniteSets

CONSTANTS
  listenfd,    \* the listening socket; the clients' descriptors are Players
  Chars,       \* what lines are made of
  EOL,         \* the end of a line
  Segments,    \* what each client may send at a time
  MaxInput,    \* bound: sent by a client and not handled yet
  MaxBacklog,  \* bound: connections waiting to be accepted
  MaxBusy,     \* bound: clients with something for the server to read
  MaxBroken    \* bound: broken connections

\* accept returns the lowest descriptor that is free, and those of the
\* standard streams, the dictionary and the listening socket are in use.
ASSUME ServerAssumption ==
  /\ listenfd \in Nat
  /\ Players \subseteq Nat
  /\ IsFiniteSet(Players)
  /\ \A f \in Players : f > listenfd
  /\ Letters \subseteq Chars
  /\ EOL \notin Chars
  /\ DOMAIN Segments = Players
  /\ \A f \in Players : Segments[f] \subseteq Seq(Chars \cup {EOL}) \ {<< >>}
  /\ MaxInput \in Nat
  /\ MaxBacklog \in Nat
  /\ MaxBusy \in Nat
  /\ MaxBroken \in Nat

VARIABLES
  \* The sockets.
  backlog,      \* how many connections wait to be accepted
  conn,         \* each descriptor's connection: free, open, eof or reset
  inq,          \* what each client has sent and the server has not read
  \* The server.
  status,       \* up, or why it stopped
  allset,       \* the descriptors that select monitors ...
  maxfd,        \* ... up to this one
  rset,         \* those found ready and not handled yet
  p,            \* where the loop variable p points: uninit, null or freed
  new_players,  \* the clients who have not entered a name, newest first
  name,         \* each client's name, empty until entered
  inbuf,        \* the part of a line read so far
  \* What the players have been told.
  shown,        \* the last game state sent to each
  asked         \* those whose last turn announcement was "Your guess?"

socketVars == << backlog, conn, inq >>
serverVars == << status, allset, maxfd, rset, p, new_players, name, inbuf >>
toldVars == << shown, asked >>
vars == << gameVars, turnVars, socketVars, serverVars, toldVars >>

Up == status = "up"

Waiting == Range(new_players)  \* connected, without a name

\* What status_message shows.
State == << guess, letters_guessed, guesses_left >>
Nothing == << >>

ServerInit ==
  /\ GameInit
  /\ TurnsInit
  /\ backlog = 0
  /\ conn = [f \in Players |-> "free"]
  /\ inq = [f \in Players |-> << >>]
  /\ status = "up"
  /\ allset = {listenfd}
  /\ maxfd = listenfd
  /\ rset = {}
  /\ p = "uninit"
  /\ new_players = << >>
  /\ name = [f \in Players |-> << >>]
  /\ inbuf = [f \in Players |-> << >>]
  /\ shown = [f \in Players |-> Nothing]
  /\ asked = {}

-----------------------------------------------------------------------------
(* The clients and the network.                                            *)

Readable(f) == inq[f] # << >> \/ conn[f] \in {"eof", "reset"}

\* One more client may have something to say.
MayAct(f) == Cardinality({f} \cup {g \in Players : Readable(g)}) <= MaxBusy

Connect ==
  /\ Up
  /\ backlog < MaxBacklog
  /\ backlog' = backlog + 1
  /\ UNCHANGED << gameVars, turnVars, conn, inq, serverVars, toldVars >>

MayBreak == Cardinality({g \in Players : conn[g] = "reset"}) < MaxBroken

Send(f) ==
  /\ Up
  /\ conn[f] = "open"
  /\ MayAct(f)
  /\ \E s \in Segments[f] :
       /\ Len(inbuf[f]) + Len(inq[f]) + Len(s) <= MaxInput
       /\ inq' = [inq EXCEPT ![f] = @ \o s]
  /\ UNCHANGED << gameVars, turnVars, backlog, conn, serverVars, toldVars >>

\* The client closes its side in order: the server reads end of file.
Close(f) ==
  /\ Up
  /\ conn[f] = "open"
  /\ MayAct(f)
  /\ conn' = [conn EXCEPT ![f] = "eof"]
  /\ UNCHANGED << gameVars, turnVars, backlog, inq, serverVars, toldVars >>

\* The connection breaks, or the closed client answers a write with a reset.
\* What has arrived can still be read; nothing can be written any more.
Reset(f) ==
  /\ Up
  /\ conn[f] \in {"open", "eof"}
  /\ MayAct(f)
  /\ MayBreak
  /\ conn' = [conn EXCEPT ![f] = "reset"]
  /\ UNCHANGED << gameVars, turnVars, backlog, inq, serverVars, toldVars >>

Clients == Connect \/ \E f \in Players : Send(f) \/ Close(f) \/ Reset(f)

-----------------------------------------------------------------------------
(* The server: select and accept.                                          *)

\* The descriptors select finds ready: it looks at those up to maxfd only.
Ready ==
  {f \in allset : /\ f <= maxfd
                  /\ IF f = listenfd THEN backlog > 0 ELSE Readable(f)}

\* The process is gone; the rest is left as the handler found it.
Stop(why) ==
  /\ status' = why
  /\ UNCHANGED << gameVars, turnVars, socketVars, allset, maxfd, rset, p,
                  new_players, name, inbuf, toldVars >>

Select ==
  /\ Up
  /\ rset = {}
  /\ Ready # {}
  /\ rset' = Ready
  /\ UNCHANGED << gameVars, turnVars, socketVars, status, allset, maxfd, p,
                  new_players, name, inbuf, toldVars >>

FreeDescriptors == {f \in Players : conn[f] = "free"}

\* accept_connection exits when the process has no descriptor left.
AcceptFails ==
  /\ Up
  /\ listenfd \in rset
  /\ FreeDescriptors = {}
  /\ Stop("accept_failed")

\* A write to a broken connection fails, or the signal SIGPIPE that comes
\* with the failure, which nothing catches, kills the process.
\* The branch for a failed greeting removes p->fd from the active players,
\* where p is what the loops over the lists left, not the client that was
\* accepted: a null pointer, before the first loop any pointer, or the struct
\* freed last, whose memory is that of the new client, who is not active.
GreetingFails == {"write_failed"} \cup
  CASE p = "null" -> {"crashed"}
    [] p = "uninit" -> {"crashed", "up"}
    [] p = "freed" -> {"up"}

KeepingMaxfd(f) == maxfd  \* slip: maxfd is not raised

HigherOf(f) == IF f > maxfd THEN f ELSE maxfd

\* The connection may have broken before it is accepted.  The scan that
\* follows looks for listenfd in both lists and leaves p null.
Accept ==
  /\ Up
  /\ listenfd \in rset
  /\ \E clientfd \in FreeDescriptors, c \in {"open", "reset"} :
       /\ c = "reset" => MayBreak
       /\ \A f \in FreeDescriptors : clientfd <= f
       /\ conn' = [conn EXCEPT ![clientfd] = c]
       /\ allset' = allset \cup {clientfd}
       /\ maxfd' = HigherOf(clientfd)
       /\ new_players' = << clientfd >> \o new_players
       /\ status' \in IF c = "open" THEN {"up"} ELSE GreetingFails
  /\ backlog' = backlog - 1
  /\ rset' = rset \ {listenfd}
  /\ p' = "null"
  /\ UNCHANGED << gameVars, turnVars, inq, name, inbuf, toldVars >>

-----------------------------------------------------------------------------
(* The server: the scan over the ready descriptors, in ascending order.    *)

\* f is the cur_fd of the scan.
Scanned(f) == Up /\ f \in rset /\ \A g \in rset : f <= g

\* read returns what has arrived, ...
Received(f) == inbuf[f] \o inq[f]
Arrived(f) == Scanned(f) /\ inq[f] # << >>

\* ... 0 when the connection has ended, ...
Ended(f) == Scanned(f) /\ inq[f] = << >>

\* ... or -1 when it has broken, which no handler survives.
ReadFails(f) ==
  /\ Ended(f)
  /\ conn[f] = "reset"
  /\ Stop("read_failed")

\* The line is handled when what has been read so far ends in CR LF.
Complete(f) == Last(Received(f)) = EOL
Line(f) == Front(Received(f))

\* The bytes are read; buffered is what stays in inbuf.
TakeInput(f, buffered) ==
  /\ inq' = [inq EXCEPT ![f] = << >>]
  /\ inbuf' = [inbuf EXCEPT ![f] = buffered]
  /\ rset' = rset \ {f}
  /\ UNCHANGED << backlog, conn >>

PartialLine(f) ==
  /\ Arrived(f)
  /\ ~ Complete(f)
  /\ TakeInput(f, Received(f))
  /\ p' = "null"
  /\ UNCHANGED << gameVars, turnVars, status, allset, maxfd, new_players, name,
                  toldVars >>

ReleaseWithoutClose(f) ==  \* slip: the descriptor is not closed
  /\ allset' = allset \ {f}
  /\ name' = [name EXCEPT ![f] = << >>]
  /\ inbuf' = [inbuf EXCEPT ![f] = << >>]
  /\ shown' = [shown EXCEPT ![f] = Nothing]
  /\ asked' = asked \ {f}
  /\ rset' = rset \ {f}
  /\ UNCHANGED << gameVars, backlog, conn, inq, status, maxfd >>

\* remove_player, apart from the list: the descriptor is closed and no longer
\* monitored and the struct is freed; maxfd stays.
Release(f) ==
  /\ conn' = [conn EXCEPT ![f] = "free"]
  /\ allset' = allset \ {f}
  /\ name' = [name EXCEPT ![f] = << >>]
  /\ inbuf' = [inbuf EXCEPT ![f] = << >>]
  /\ shown' = [shown EXCEPT ![f] = Nothing]
  /\ asked' = asked \ {f}
  /\ rset' = rset \ {f}
  /\ UNCHANGED << gameVars, backlog, inq, status, maxfd >>

\* An active player disconnects, in turn or out of turn.  Nobody is told.
PlayerLeaves(f) ==
  /\ Ended(f)
  /\ Leave(f)
  /\ Release(f)
  /\ p' = "null"
  /\ UNCHANGED new_players

NewPlayerLeaves(f) ==
  /\ Ended(f)
  /\ f \in Waiting
  /\ new_players' = remove_player(new_players, f)
  /\ Release(f)
  /\ p' = "freed"
  /\ UNCHANGED turnVars

-----------------------------------------------------------------------------
(* The server: complete lines.                                             *)

\* A write to one of fds fails, and the check after it exits.
WriteFails(fds) ==
  /\ \E f \in fds : conn[f] = "reset"
  /\ Stop("write_failed")

WriteSucceeds(fds) == \A f \in fds : conn[f] # "reset"

\* The result of a write to f is not checked: SIGPIPE or nothing.
UncheckedWrite(f) ==
  status' \in IF conn[f] = "reset" THEN {"up", "write_failed"} ELSE {"up"}

TurnLine(f) == Arrived(f) /\ Complete(f) /\ head # << >> /\ f = has_next_turn

AcceptedGuess(f) ==
  \E l \in Letters : Line(f) = << l >> /\ IsValidGuess(l)

ShowOldState ==  \* slip: the game state is announced before init_game
  shown' = [f \in Players |-> IF f \in InGame THEN State ELSE shown[f]]

announce_game_state ==
  shown' = [f \in Players |-> IF f \in InGame THEN State' ELSE shown[f]]

AskMover == asked' = {has_next_turn}  \* slip: announced before advance_turn

\* Everyone in the game hears whose turn it is.
announce_turn == asked' = {has_next_turn'}

\* An accepted guess: the game, then the turn; all that is announced goes to
\* all active players, and the first write that fails ends the process.
GuessLetter(f) ==
  /\ TurnLine(f)
  /\ AcceptedGuess(f)
  /\ \/ WriteFails(InGame)
     \/ /\ WriteSucceeds(InGame)
        /\ Guess(Line(f)[1])
        /\ Move(f)
        /\ announce_game_state
        /\ announce_turn
        /\ TakeInput(f, << >>)
        /\ p' = "null"
        /\ UNCHANGED << status, allset, maxfd, new_players, name >>

\* The wrong length, no lower-case letter, or guessed already.
RefuseGuess(f) ==
  /\ TurnLine(f)
  /\ ~ AcceptedGuess(f)
  /\ UncheckedWrite(f)
  /\ TakeInput(f, << >>)
  /\ p' = "null"
  /\ UNCHANGED << gameVars, turnVars, allset, maxfd, new_players, name,
                  toldVars >>

NotYourTurn(f) ==
  /\ Arrived(f)
  /\ Complete(f)
  /\ f \in InGame
  /\ f # has_next_turn
  /\ \/ WriteFails({f})
     \/ /\ WriteSucceeds({f})
        /\ TakeInput(f, << >>)
        /\ p' = "null"
        /\ UNCHANGED << gameVars, turnVars, status, allset, maxfd,
                        new_players, name, toldVars >>

NameLine(f) == Arrived(f) /\ Complete(f) /\ f \in Waiting

OnlyEmptyNames(n) == n = << >>  \* slip: the names in use are not compared

\* The name is empty or that of an active player.
InvalidName(n) == n = << >> \/ \E g \in InGame : name[g] = n

\* The client is asked again.  If that cannot be written it is looked for in
\* the wrong list, game.head, and so stays.
AskNameAgain(f) ==
  /\ NameLine(f)
  /\ InvalidName(Line(f))
  /\ UncheckedWrite(f)
  /\ TakeInput(f, << >>)
  /\ p' = "null"
  /\ UNCHANGED << gameVars, turnVars, allset, maxfd, new_players, name,
                  toldVars >>

\* The client becomes an active player: everyone is told who joined and whose
\* turn it is, the newcomer also the game state.
EnterGame(f) ==
  /\ NameLine(f)
  /\ ~ InvalidName(Line(f))
  /\ \/ WriteFails(InGame \cup {f})
     \/ /\ WriteSucceeds(InGame \cup {f})
        /\ Join(f)
        /\ new_players' = remove_player(new_players, f)
        /\ name' = [name EXCEPT ![f] = Line(f)]
        /\ shown' = [shown EXCEPT ![f] = State]
        /\ announce_turn
        /\ TakeInput(f, << >>)
        /\ p' = "freed"
        /\ UNCHANGED << gameVars, status, allset, maxfd >>

Handle(f) ==
  \/ ReadFails(f)
  \/ PlayerLeaves(f)
  \/ NewPlayerLeaves(f)
  \/ PartialLine(f)
  \/ GuessLetter(f)
  \/ RefuseGuess(f)
  \/ NotYourTurn(f)
  \/ AskNameAgain(f)
  \/ EnterGame(f)

Server == Select \/ AcceptFails \/ Accept \/ \E f \in Players : Handle(f)

\* The process has stopped for good.
Stopped == ~ Up /\ UNCHANGED vars

ServerNext == Clients \/ Server \/ Stopped

ServerSpec == ServerInit /\ [][ServerNext]_vars

\* The server keeps running; nothing is assumed of the clients.
FairServerSpec == ServerSpec /\ WF_vars(Server)

-----------------------------------------------------------------------------
(* Properties.                                                             *)

Statuses ==
  {"up", "accept_failed", "read_failed", "write_failed", "crashed"}

ServerTypeOK ==
  /\ GameTypeOK
  /\ TurnsOK
  /\ backlog \in 0 .. MaxBacklog
  /\ conn \in [Players -> {"free", "open", "eof", "reset"}]
  /\ \A f \in Players : /\ inq[f] \in Seq(Chars \cup {EOL})
                        /\ inbuf[f] \in Seq(Chars \cup {EOL})
                        /\ name[f] \in Seq(Chars \cup {EOL})
  /\ status \in Statuses
  /\ allset \subseteq Players \cup {listenfd}
  /\ maxfd \in Players \cup {listenfd}
  /\ rset \subseteq allset
  /\ p \in {"uninit", "null", "freed"}
  /\ new_players \in Seq(Players)
  /\ asked \subseteq Players

\* While the server runs, the descriptors it monitors are the listening socket
\* and those of the two lists, which share no client and hold none twice; none
\* is above maxfd, where select does not look; and no open descriptor is in
\* neither list, leaked.  A client moves between the lists, and leaves them,
\* in the middle of a scan over both (wordsrv.c:308-315).
ClientsMonitored ==
  Up => /\ allset = {listenfd} \cup InGame \cup Waiting
        /\ InGame \cap Waiting = {}
        /\ IsInjective(new_players)
        /\ InGame \cup Waiting = {f \in Players : conn[f] # "free"}
        /\ \A f \in allset : f <= maxfd

\* Active players have different names that are not empty, whatever the order
\* in which names are checked and players join (wordsrv.c:458-470).
NamesDiffer ==
  \A f \in InGame : /\ name[f] # << >>
                    /\ \A g \in InGame \ {f} : name[g] # name[f]

\* Every active player has been sent the state the game is in, whenever he
\* joined and whoever moved since, and a client without a name has been sent
\* none (wordsrv.c:264-269): no change of the game goes unannounced.
StateShown ==
  Up => \A f \in Players : shown[f] = IF f \in InGame THEN State ELSE Nothing

\* Whoever was last told "Your guess?" still has the turn: players who join
\* and leave never make the server go back on it, so at most one player
\* believes that it is his turn.
OnlyMoverAsked == \A f \in asked : f = has_next_turn

\* The server is a word game for named players who take turns: whatever the
\* descriptors do, a guess counts only for the player in turn, the turn moves
\* only when he guesses or leaves, and then to another player if there is one.
Game == INSTANCE WordGame WITH
  players <- {name[f] : f \in InGame},
  turn <- IF has_next_turn = NULL THEN NULL ELSE name[has_next_turn],
  Names <- BoundedSeq(Chars \cup {EOL}, MaxInput),
  Nobody <- NULL

ImplementsWordGame == Game!WordGameSpec

\* What a client has sent is read, however the others keep the server busy,
\* unless the server stops.
InputRead == \A f \in Players : inq[f] # << >> ~> (inq[f] = << >> \/ ~ Up)

\* A client who hangs up is removed and his descriptor closed, in whichever
\* list and turn he is, unless the server stops.
HangupHandled ==
  \A f \in Players :
    conn[f] \in {"eof", "reset"} ~> (conn[f] = "free" \/ ~ Up)

\* wordsrv.c:41-44 says of a descriptor to which a write fails that it is
\* removed from allset; the server then goes on.
WriteFailureHandled == status \notin {"write_failed", "crashed"}

\* wordsrv.c:113-122 says that the player taking the turn is asked for the
\* guess.
MoverAsked == Up /\ head # << >> => has_next_turn \in asked
=============================================================================
