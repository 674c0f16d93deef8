---------------------------- MODULE TurnsProofs ----------------------------
(***************************************************************************)
(* Proofs about Turns for every set of players.                            *)
(***************************************************************************)
EXTENDS Turns, SequenceTheorems, TLAPS

(* The two changes of a list.                                              *)

LEMMA PositionIn ==
  ASSUME NEW S, NEW list \in Seq(S), IsInjective(list), NEW c \in Range(list)
  PROVE  /\ Position(list, c) \in 1 .. Len(list)
         /\ list[Position(list, c)] = c
         /\ \A i \in 1 .. Len(list) : list[i] = c => i = Position(list, c)
<1>1. DOMAIN list = 1 .. Len(list)
  OBVIOUS
<1>2. \E i \in DOMAIN list : list[i] = c
  BY DEF Range
<1>3. Position(list, c) \in DOMAIN list /\ list[Position(list, c)] = c
  BY <1>2 DEF Position
<1> QED
  BY <1>1, <1>3 DEF IsInjective

\* A client put at the head of a list moves all the others down by one.
LEMMA PushShape ==
  ASSUME NEW S, NEW list \in Seq(S), IsInjective(list),
         NEW c \in S, c \notin Range(list)
  PROVE  LET r == << c >> \o list
         IN  /\ r \in Seq(S)
             /\ r # << >>
             /\ IsInjective(r)
             /\ Range(r) = Range(list) \cup {c}
             /\ \A d \in Range(list) :
                  Position(r, d) = Position(list, d) + 1
<1> DEFINE r == << c >> \o list
<1>1. /\ r \in Seq(S)
      /\ Len(r) = Len(list) + 1
      /\ r[1] = c
      /\ \A i \in 1 .. Len(list) : r[i + 1] = list[i]
      /\ Len(list) \in Nat
  OBVIOUS
<1>2. /\ DOMAIN r = 1 .. Len(list) + 1
      /\ DOMAIN list = 1 .. Len(list)
  BY <1>1
<1> HIDE DEF r
<1>3. \A i \in 2 .. Len(list) + 1 : i - 1 \in 1 .. Len(list) /\ r[i] = list[i - 1]
  <2> TAKE i \in 2 .. Len(list) + 1
  <2>1. i - 1 \in 1 .. Len(list) /\ (i - 1) + 1 = i
    BY <1>1
  <2> QED
    BY <1>1, <2>1
<1>4. \A i \in 2 .. Len(list) + 1 : r[i] # c
  BY <1>2, <1>3 DEF Range
<1>5. IsInjective(r)
  <2> SUFFICES ASSUME NEW i \in DOMAIN r, NEW j \in DOMAIN r, r[i] = r[j]
               PROVE  i = j
    BY DEF IsInjective
  <2>1. CASE i = 1 \/ j = 1
    BY <1>1, <1>2, <1>4, <2>1
  <2>2. CASE i # 1 /\ j # 1
    <3>1. i \in 2 .. Len(list) + 1 /\ j \in 2 .. Len(list) + 1
      BY <1>1, <1>2, <2>2
    <3>2. i - 1 \in DOMAIN list /\ j - 1 \in DOMAIN list
          /\ list[i - 1] = list[j - 1]
      BY <1>2, <1>3, <3>1
    <3>3. i - 1 = j - 1
      BY <3>2 DEF IsInjective
    <3> QED
      BY <3>1, <3>3
  <2> QED
    BY <2>1, <2>2
<1>6. Range(r) = Range(list) \cup {c}
  <2>1. \A x \in Range(r) : x \in Range(list) \cup {c}
    <3> SUFFICES ASSUME NEW i \in DOMAIN r PROVE r[i] \in Range(list) \cup {c}
      BY DEF Range
    <3>1. CASE i = 1
      BY <1>1, <3>1
    <3>2. CASE i # 1
      <4>1. i \in 2 .. Len(list) + 1
        BY <1>1, <1>2, <3>2
      <4>2. r[i] = list[i - 1] /\ i - 1 \in DOMAIN list
        BY <1>2, <1>3, <4>1
      <4> QED
        BY <4>2 DEF Range
    <3> QED
      BY <3>1, <3>2
  <2>2. c \in Range(r)
    BY <1>1, <1>2 DEF Range
  <2>3. \A x \in Range(list) : x \in Range(r)
    <3> SUFFICES ASSUME NEW i \in DOMAIN list PROVE list[i] \in Range(r)
      BY DEF Range
    <3>1. i + 1 \in DOMAIN r /\ r[i + 1] = list[i]
      BY <1>1, <1>2
    <3> QED
      BY <3>1 DEF Range
  <2> QED
    BY <2>1, <2>2, <2>3
<1>7. ASSUME NEW d \in Range(list)
      PROVE  Position(r, d) = Position(list, d) + 1
  <2>1. Position(list, d) \in 1 .. Len(list) /\ list[Position(list, d)] = d
    BY PositionIn
  <2>2. Position(list, d) + 1 \in 1 .. Len(r) /\ r[Position(list, d) + 1] = d
    BY <1>1, <2>1
  <2>3. d \in Range(r)
    BY <1>6
  <2> QED
    BY <1>1, <1>5, <2>2, <2>3, PositionIn
<1>8. r # << >>
  BY <1>1
<1> QED
  BY <1>1, <1>5, <1>6, <1>7, <1>8 DEF r

\* remove_player takes one client out and moves those below up by one.
LEMMA RemoveShape ==
  ASSUME NEW S, NEW list \in Seq(S), IsInjective(list), NEW c \in Range(list)
  PROVE  LET r == remove_player(list, c)
         IN  /\ r \in Seq(S)
             /\ IsInjective(r)
             /\ Range(r) = Range(list) \ {c}
             /\ Len(r) = Len(list) - 1
             /\ \A d \in Range(list) \ {c} :
                  Position(r, d) = IF Position(list, d) < Position(list, c)
                                   THEN Position(list, d)
                                   ELSE Position(list, d) - 1
<1> DEFINE k == Position(list, c)
           n == Len(list)
           r == remove_player(list, c)
           At(i) == IF i < k THEN i ELSE i + 1
<1>1. k \in 1 .. n /\ list[k] = c /\ n \in Nat /\ DOMAIN list = 1 .. n
  BY PositionIn
<1>2. /\ r \in Seq(S)
      /\ Len(r) = n - 1
      /\ \A i \in 1 .. n - 1 : r[i] = list[At(i)]
  <2> DEFINE a == SubSeq(list, 1, k - 1)
             b == SubSeq(list, k + 1, n)
  <2>1. /\ a \in Seq(S) /\ Len(a) = k - 1
        /\ \A i \in 1 .. k - 1 : a[i] = list[i]
    BY <1>1
  <2>2. /\ b \in Seq(S) /\ Len(b) = n - k
        /\ \A i \in 1 .. n - k : b[i] = list[k + i]
    BY <1>1
  <2>3. r = a \o b
    BY DEF remove_player, RemoveAt
  <2> HIDE DEF a, b, k, n, r
  <2>4. /\ r \in Seq(S)
        /\ Len(r) = (k - 1) + (n - k)
        /\ \A i \in 1 .. (k - 1) + (n - k) :
             r[i] = IF i <= k - 1 THEN a[i] ELSE b[i - (k - 1)]
    BY <2>1, <2>2, <2>3
  <2>5. ASSUME NEW i \in 1 .. n - 1 PROVE r[i] = list[At(i)]
    <3>1. CASE i < k
      BY <1>1, <2>1, <2>4, <3>1
    <3>2. CASE ~ i < k
      <4>1. i - (k - 1) \in 1 .. n - k /\ k + (i - (k - 1)) = i + 1
        BY <1>1, <3>2
      <4>2. r[i] = b[i - (k - 1)]
        BY <1>1, <2>4, <3>2
      <4> QED
        BY <2>2, <3>2, <4>1, <4>2
    <3> QED
      BY <3>1, <3>2
  <2> QED
    BY <1>1, <2>4, <2>5
<1>3. DOMAIN r = 1 .. n - 1
  BY <1>2
<1> HIDE DEF r, k, n
<1>4. \A i \in 1 .. n - 1 : At(i) \in 1 .. n /\ At(i) # k
  BY <1>1
<1>5. IsInjective(r)
  <2> SUFFICES ASSUME NEW i \in DOMAIN r, NEW j \in DOMAIN r, r[i] = r[j]
               PROVE  i = j
    BY DEF IsInjective
  <2>1. At(i) = At(j)
    <3>1. /\ At(i) \in DOMAIN list /\ At(j) \in DOMAIN list
          /\ list[At(i)] = list[At(j)]
      BY <1>1, <1>2, <1>3, <1>4
    <3> HIDE DEF At
    <3> QED
      BY <3>1 DEF IsInjective
  <2> QED
    BY <1>1, <1>3, <2>1
<1>6. ASSUME NEW d \in Range(list) \ {c}
      PROVE  LET m == Position(list, d)
                 q == IF m < k THEN m ELSE m - 1
             IN  q \in 1 .. n - 1 /\ r[q] = d
  <2> DEFINE m == Position(list, d)
             q == IF m < k THEN m ELSE m - 1
  <2>1. m \in 1 .. n /\ list[m] = d
    BY PositionIn DEF n
  <2>2. m # k
    BY <1>1, <2>1
  <2> HIDE DEF m
  <2>3. q \in 1 .. n - 1 /\ At(q) = m
    BY <1>1, <2>1, <2>2
  <2> HIDE DEF q, At
  <2>4. r[q] = d
    BY <1>2, <2>1, <2>3 DEF At
  <2> QED
    BY <2>3, <2>4 DEF q, m
<1>7. Range(r) = Range(list) \ {c}
  <2>1. ASSUME NEW i \in DOMAIN r PROVE r[i] \in Range(list) \ {c}
    <3>1. At(i) \in DOMAIN list /\ At(i) # k /\ r[i] = list[At(i)]
      BY <1>1, <1>2, <1>3, <1>4
    <3> HIDE DEF At
    <3> QED
      BY <1>1, <3>1 DEF Range, IsInjective
  <2>2. ASSUME NEW d \in Range(list) \ {c} PROVE d \in Range(r)
    BY <1>3, <1>6 DEF Range
  <2> QED
    BY <2>1, <2>2 DEF Range
<1>8. ASSUME NEW d \in Range(list) \ {c}
      PROVE  Position(r, d) = IF Position(list, d) < k THEN Position(list, d)
                              ELSE Position(list, d) - 1
  <2>1. d \in Range(r)
    BY <1>7
  <2>2. 1 .. Len(r) = 1 .. n - 1
    BY <1>2
  <2> QED
    BY <1>2, <1>5, <1>6, <2>1, <2>2, PositionIn
<1> QED
  BY <1>2, <1>5, <1>7, <1>8 DEF r, k, n

-----------------------------------------------------------------------------
(* The invariant: TurnsOK is inductive.                                    *)

\* The player after c in the list, or the first if c is the last: what
\* advance_turn finds.
LEMMA NextShape ==
  ASSUME TurnsOK, NEW c \in InGame
  PROVE  /\ Pos(c) \in 1 .. Len(head)
         /\ head[Pos(c)] = c
         /\ Pos(c) < Len(head) =>
              /\ NextOf(c) \in InGame \ {c}
              /\ Pos(NextOf(c)) = Pos(c) + 1
         /\ Pos(c) = Len(head) => NextOf(c) = NULL
<1>1. /\ head \in Seq(Players) /\ IsInjective(head) /\ c \in Range(head)
      /\ DOMAIN head = 1 .. Len(head) /\ Len(head) \in Nat
  BY DEF TurnsOK, InGame
<1>2. Pos(c) \in 1 .. Len(head) /\ head[Pos(c)] = c
  BY <1>1, PositionIn DEF Pos
<1>3. ASSUME Pos(c) < Len(head)
      PROVE  NextOf(c) \in InGame \ {c} /\ Pos(NextOf(c)) = Pos(c) + 1
  <2>1. Pos(c) + 1 \in DOMAIN head /\ Pos(c) + 1 # Pos(c)
    BY <1>1, <1>2, <1>3
  <2>2. NextOf(c) = head[Pos(c) + 1]
    BY <1>3 DEF NextOf
  <2>3. NextOf(c) \in Range(head)
    BY <2>1, <2>2 DEF Range
  <2>4. Pos(NextOf(c)) = Pos(c) + 1
    BY <1>1, <2>1, <2>2, <2>3, PositionIn DEF Pos
  <2>5. NextOf(c) # c
    BY <2>1, <2>4
  <2> QED
    BY <2>3, <2>4, <2>5 DEF InGame
<1>4. Pos(c) = Len(head) => NextOf(c) = NULL
  BY <1>1 DEF NextOf
<1> QED
  BY <1>2, <1>3, <1>4

LEMMA InGamePlayers ==
  ASSUME TurnsOK
  PROVE  /\ InGame \subseteq Players
         /\ NULL \notin InGame
         /\ head = << >> => InGame = {}
         /\ head # << >> => head[1] \in InGame /\ has_next_turn \in InGame
<1>1. head \in Seq(Players) /\ DOMAIN head = 1 .. Len(head)
  BY DEF TurnsOK
<1>2. InGame \subseteq Players
  BY <1>1 DEF InGame, Range
<1>3. head # << >> => head[1] \in InGame
  BY <1>1 DEF InGame, Range
<1>4. head = << >> => InGame = {}
  BY DEF InGame, Range
<1> QED
  BY <1>2, <1>3, <1>4, TurnsAssumption DEF TurnsOK

\* Wherever the turn goes when it advances, it stays in the list.
LEMMA AdvancedIn ==
  ASSUME TurnsOK, has_next_turn \in InGame
  PROVE  /\ Advanced \in InGame
         /\ Pos(has_next_turn) < Len(head) => Advanced = NextOf(has_next_turn)
         /\ Pos(has_next_turn) = Len(head) => Advanced = head[1]
<1>1. head # << >>
  BY InGamePlayers
<1>2. CASE Pos(has_next_turn) < Len(head)
  BY <1>1, <1>2, NextShape, InGamePlayers DEF Advanced
<1>3. CASE Pos(has_next_turn) = Len(head)
  BY <1>1, <1>3, NextShape, InGamePlayers DEF Advanced
<1>4. Pos(has_next_turn) \in 1 .. Len(head) /\ Len(head) \in Nat
  BY NextShape DEF TurnsOK
<1> QED
  BY <1>2, <1>3, <1>4

LEMMA JoinOK ==
  ASSUME TurnsOK, NEW c \in Players, Join(c)
  PROVE  TurnsOK'
<1>1. /\ head' \in Seq(Players) /\ head' # << >> /\ IsInjective(head')
      /\ Range(head') = Range(head) \cup {c}
  BY PushShape DEF TurnsOK, Join, InGame
<1>2. has_next_turn' \in Range(head')
  <2>1. CASE has_next_turn = NULL
    BY <1>1, <2>1 DEF Join
  <2>2. CASE has_next_turn # NULL
    BY <1>1, <2>2 DEF Join, TurnsOK, InGame
  <2> QED
    BY <2>1, <2>2
<1> QED
  BY <1>1, <1>2 DEF TurnsOK, InGame

LEMMA MoveOK ==
  ASSUME TurnsOK, NEW c \in Players, Move(c)
  PROVE  TurnsOK'
<1>1. c = has_next_turn /\ c # NULL
  BY TurnsAssumption DEF Move
<1>2. has_next_turn \in InGame /\ head # << >>
  BY <1>1, InGamePlayers DEF TurnsOK
<1>3. has_next_turn' \in InGame
  BY <1>2, AdvancedIn DEF Move
<1> QED
  BY <1>2, <1>3 DEF TurnsOK, Move, InGame

\* What is left of the list is never without a player in turn: the leaver's
\* turn is passed on before he is removed, and is nobody's if he was alone.
LEMMA LeaveOK ==
  ASSUME TurnsOK, NEW c \in Players, Leave(c)
  PROVE  TurnsOK'
<1>1. /\ head \in Seq(Players) /\ IsInjective(head) /\ c \in Range(head)
      /\ head # << >>
      /\ has_next_turn \in InGame
  BY InGamePlayers DEF Leave, TurnsOK, InGame
<1>2. head' = remove_player(head, c)
  BY DEF Leave, LeaveInTurn, LeaveOutOfTurn
<1>3. /\ head' \in Seq(Players) /\ IsInjective(head')
      /\ Range(head') = Range(head) \ {c}
      /\ Len(head') = Len(head) - 1
  BY <1>1, <1>2, RemoveShape
<1>4. Len(head) \in Nat \ {0} /\ DOMAIN head = 1 .. Len(head)
  BY <1>1
<1>5. CASE c # has_next_turn
  <2>1. has_next_turn' = has_next_turn
    BY <1>5 DEF Leave, LeaveInTurn, LeaveOutOfTurn
  <2>2. has_next_turn' \in Range(head')
    BY <1>1, <1>3, <1>5, <2>1 DEF InGame
  <2>3. head' # << >>
    BY <2>2 DEF Range
  <2> QED
    BY <1>3, <2>2, <2>3 DEF TurnsOK, InGame
<1>6. CASE c = has_next_turn
  <2>1. has_next_turn' = IF Advanced = c THEN NextOf(c) ELSE Advanced
    BY <1>6 DEF Leave, LeaveInTurn, LeaveOutOfTurn
  <2>2. Pos(c) \in 1 .. Len(head) /\ head[Pos(c)] = c
    BY <1>1, NextShape DEF InGame
  <2>3. CASE Advanced # c
    <3>1. has_next_turn' \in Range(head')
      BY <1>1, <1>3, <2>1, <2>3, AdvancedIn DEF InGame
    <3>2. head' # << >>
      BY <3>1 DEF Range
    <3> QED
      BY <1>3, <3>1, <3>2 DEF TurnsOK, InGame
  <2>4. CASE Advanced = c
    <3>1. Pos(c) = Len(head)
      <4>1. ~ (Pos(c) < Len(head))
        BY <1>1, <1>6, <2>4, NextShape, AdvancedIn DEF InGame
      <4> QED
        BY <1>4, <2>2, <4>1
    <3>2. head[1] = c
      BY <1>1, <1>6, <2>4, <3>1, AdvancedIn
    <3>3. Len(head) = 1
      BY <1>1, <1>4, <2>2, <3>1, <3>2 DEF IsInjective
    <3>4. head' = << >>
      BY <1>3, <3>3
    <3>5. has_next_turn' = NULL
      BY <1>1, <2>1, <2>4, <3>1, NextShape DEF InGame
    <3> QED
      BY <1>3, <3>4, <3>5 DEF TurnsOK
  <2> QED
    BY <2>3, <2>4
<1> QED
  BY <1>5, <1>6

LEMMA TurnsStepOK == TurnsOK /\ [TurnsNext]_turnVars => TurnsOK'
<1> SUFFICES ASSUME TurnsOK, [TurnsNext]_turnVars PROVE TurnsOK'
  OBVIOUS
<1>1. ASSUME NEW c \in Players, Join(c) PROVE TurnsOK'
  BY <1>1, JoinOK
<1>2. ASSUME NEW c \in Players, Move(c) PROVE TurnsOK'
  BY <1>2, MoveOK
<1>3. ASSUME NEW c \in Players, Leave(c) PROVE TurnsOK'
  BY <1>3, LeaveOK
<1>4. CASE UNCHANGED turnVars
  BY <1>4 DEF turnVars, TurnsOK, InGame
<1> QED
  BY <1>1, <1>2, <1>3, <1>4 DEF TurnsNext

LEMMA TurnsInitOK == TurnsInit => TurnsOK
BY DEF TurnsInit, TurnsOK, IsInjective

\* has_next_turn points to a player who is in the list, or to nobody when the
\* list is empty, whatever players join, move and leave in whatever order:
\* main may dereference it whenever an active player has input.
THEOREM TurnsCorrect == TurnsSpec => []TurnsOK
BY TurnsInitOK, TurnsStepOK, PTL DEF TurnsSpec

-----------------------------------------------------------------------------
(* Nobody is overtaken.                                                    *)

LEMMA StepNoOvertaking ==
  ASSUME TurnsOK, TurnsNext, NEW c \in InGame \cap Range(head'), Ahead(c) > 0
  PROVE  Ahead(c)' \in 0 .. Ahead(c)
<1> DEFINE h == has_next_turn
<1>1. /\ head \in Seq(Players) /\ IsInjective(head)
      /\ c \in Range(head) /\ h \in Range(head)
      /\ c \in InGame /\ h \in InGame
      /\ head # << >> /\ h # NULL
      /\ DOMAIN head = 1 .. Len(head) /\ Len(head) \in Nat
  BY InGamePlayers DEF TurnsOK, InGame
<1>2. /\ Pos(c) \in 1 .. Len(head) /\ head[Pos(c)] = c
      /\ Pos(h) \in 1 .. Len(head) /\ head[Pos(h)] = h
  BY <1>1, NextShape
<1>3. Pos(h) < Pos(c) /\ Pos(h) < Len(head)
  BY <1>2 DEF Ahead
<1>4. /\ Advanced = NextOf(h)
      /\ NextOf(h) \in InGame \ {h}
      /\ Pos(NextOf(h)) = Pos(h) + 1
  BY <1>1, <1>3, AdvancedIn, NextShape
<1>5. Ahead(c) = Pos(c) - Pos(h)
  BY DEF Ahead
<1>6. Ahead(c)' = Position(head', c) - Position(head', has_next_turn')
  BY DEF Ahead, Pos
<1>7. ASSUME NEW q \in Players, Join(q) PROVE Ahead(c)' \in 0 .. Ahead(c)
  <2>1. has_next_turn' = h /\ head' = << q >> \o head /\ q \notin Range(head)
    BY <1>1, <1>7 DEF Join, InGame
  <2>2. /\ Position(head', c) = Pos(c) + 1
        /\ Position(head', h) = Pos(h) + 1
    BY <1>1, <2>1, PushShape DEF Pos
  <2> QED
    BY <1>2, <1>3, <1>5, <1>6, <2>1, <2>2
<1>8. ASSUME NEW q \in Players, Move(q) PROVE Ahead(c)' \in 0 .. Ahead(c)
  <2>1. has_next_turn' = NextOf(h) /\ head' = head
    BY <1>4, <1>8 DEF Move
  <2>2. Position(head', has_next_turn') = Pos(h) + 1
    BY <1>4, <2>1 DEF Pos
  <2>3. Position(head', c) = Pos(c)
    BY <2>1 DEF Pos
  <2> QED
    BY <1>2, <1>3, <1>5, <1>6, <2>2, <2>3
<1>9. ASSUME NEW q \in Players, Leave(q) PROVE Ahead(c)' \in 0 .. Ahead(c)
  <2>1. head' = remove_player(head, q) /\ q \in Range(head)
    BY <1>9 DEF Leave, LeaveInTurn, LeaveOutOfTurn, InGame
  <2>2. Range(head') = Range(head) \ {q}
    BY <1>1, <2>1, RemoveShape
  <2>3. \A d \in Range(head) \ {q} :
          Position(head', d) = IF Pos(d) < Pos(q) THEN Pos(d) ELSE Pos(d) - 1
    BY <1>1, <2>1, RemoveShape DEF Pos
  <2>4. q # c
    BY <2>2
  <2>5. Pos(q) \in 1 .. Len(head) /\ head[Pos(q)] = q
    BY <2>1, NextShape DEF InGame
  <2>6. Pos(q) # Pos(c)
    BY <1>2, <2>4, <2>5
  <2>7. CASE q = h
    <3>1. has_next_turn' = NextOf(h)
      BY <1>4, <1>9, <2>7 DEF Leave, LeaveInTurn, LeaveOutOfTurn
    <3>2. Position(head', has_next_turn') = Pos(h)
      <4>1. NextOf(h) \in Range(head) \ {q}
        BY <1>4, <2>7 DEF InGame
      <4> QED
        BY <1>2, <1>4, <2>3, <2>7, <3>1, <4>1
    <3>3. Position(head', c) = Pos(c) - 1
      BY <1>1, <1>2, <1>3, <2>3, <2>4, <2>7
    <3> QED
      BY <1>2, <1>3, <1>5, <1>6, <3>2, <3>3
  <2>8. CASE q # h
    <3>1. has_next_turn' = h
      BY <1>9, <2>8 DEF Leave, LeaveInTurn, LeaveOutOfTurn
    <3>2. Pos(q) # Pos(h)
      BY <1>2, <2>5, <2>8
    <3>3. /\ Position(head', c) = IF Pos(c) < Pos(q) THEN Pos(c) ELSE Pos(c) - 1
          /\ Position(head', h) = IF Pos(h) < Pos(q) THEN Pos(h) ELSE Pos(h) - 1
      BY <1>1, <2>3, <2>4, <2>8
    <3> QED
      BY <1>2, <1>3, <1>5, <1>6, <2>5, <2>6, <3>1, <3>2, <3>3
  <2> QED
    BY <2>7, <2>8
<1> QED
  BY <1>7, <1>8, <1>9 DEF TurnsNext

\* Newcomers are put before those who wait and the turn may be passed on by a
\* leaver, but a player below the one in turn never gets further from his turn
\* and is never skipped.
THEOREM TurnsFair == TurnsSpec => NoOvertaking
<1>1. TurnsOK /\ [TurnsNext]_turnVars =>
        [\A p \in InGame \cap Range(head') :
           Ahead(p) > 0 => Ahead(p)' \in 0 .. Ahead(p)]_turnVars
  BY StepNoOvertaking
<1> QED
  BY <1>1, TurnsCorrect, PTL DEF TurnsSpec, NoOvertaking
=============================================================================
