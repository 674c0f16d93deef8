--------------------------- MODULE ReadersProofs ---------------------------
(***************************************************************************)
(* What the readers make of a file, for files and buffers of any length.   *)
(***************************************************************************)
EXTENDS Readers, FiniteSetTheorems, SequenceTheorems, WellFoundedInduction, TLAPS

-----------------------------------------------------------------------------
(* Where fgets stops.                                                      *)

Letters == Nat \cup {NL}

FileOK ==
  /\ file \in Seq(Letters)
  /\ Len(file) <= MaxFile
  /\ \A k \in 1 .. Len(file) : file[k] = NL \/ file[k] = k

\* A call of fgets with a buffer of b that starts after character p.
IsStop(p, b, e) ==
  /\ e = Len(file) \/ file[e] = NL \/ e = p + b - 1
  /\ \A k \in p + 1 .. e - 1 : file[k] # NL /\ k # p + b - 1

StopFrom(p, b) == CHOOSE e \in p + 1 .. Len(file) : IsStop(p, b, e)

\* Every file of the model is one of these.
LEMMA FileInit ==
  ReadersInit => FileOK
<1>0. SUFFICES ASSUME ReadersInit PROVE FileOK
  OBVIOUS
<1>1. file \in Files
  BY <1>0 DEF ReadersInit
<1>2. PICK n \in 0 .. MaxFile :
        \E breaks \in SUBSET (1 .. n) :
          file = [k \in 1 .. n |-> IF k \in breaks THEN NL ELSE k]
  BY <1>1 DEF Files
<1>3. n \in Nat /\ n <= MaxFile
  BY <1>2, ReadersAssumption
<1>4. \A k \in 1 .. n : file[k] \in Letters /\ (file[k] = NL \/ file[k] = k)
  BY <1>2, <1>3 DEF Letters
<1>5. file \in [1 .. n -> Letters]
  BY <1>2, <1>4
<1>6. file \in Seq(Letters) /\ Len(file) = n
  BY <1>3, <1>5, SeqDef
<1> QED
  BY <1>3, <1>4, <1>6 DEF FileOK

LEMMA StopExists ==
  ASSUME FileOK, NEW p \in Nat, p < Len(file), NEW b \in Nat, b >= 2
  PROVE  /\ StopFrom(p, b) \in p + 1 .. Len(file)
         /\ IsStop(p, b, StopFrom(p, b))
         /\ StopFrom(p, b) <= p + b - 1
<1> DEFINE n == Len(file)
           S == {e \in p + 1 .. n : e = n \/ file[e] = NL \/ e = p + b - 1}
           R == OpToRel(<, Nat)
<1>1. n \in Nat
  BY DEF FileOK
<1> HIDE DEF n
<1>2. n \in S /\ S \subseteq Nat
  BY <1>1 DEF n
<1>3. IsWellFoundedOn(R, Nat)
  BY NatLessThanWellFounded
<1>4. \A x, y \in Nat : << x, y >> \in R <=> x < y
  BY DEF OpToRel
<1> HIDE DEF R
<1>5. PICK e \in S : \A y \in S : << y, e >> \notin R
  BY <1>2, <1>3, WFMin
<1>6. e \in p + 1 .. n /\ e \in Nat /\ (e = n \/ file[e] = NL \/ e = p + b - 1)
  BY <1>1
<1>7. ASSUME NEW k \in p + 1 .. e - 1 PROVE file[k] # NL /\ k # p + b - 1
  <2>1. k \in Nat /\ k < e /\ k \in p + 1 .. n
    BY <1>1, <1>6
  <2>2. << k, e >> \in R
    BY <1>4, <1>6, <2>1
  <2>3. k \notin S
    BY <1>5, <2>2
  <2> QED
    BY <2>1, <2>3
<1>8. IsStop(p, b, e)
  BY <1>6, <1>7 DEF IsStop, n
<1>9. StopFrom(p, b) \in p + 1 .. Len(file) /\ IsStop(p, b, StopFrom(p, b))
  BY <1>6, <1>8 DEF StopFrom, n
<1> DEFINE s == StopFrom(p, b)
<1> HIDE DEF s
<1>10. s \in p + 1 .. n /\ \A k \in p + 1 .. s - 1 : k # p + b - 1
  BY <1>9 DEF IsStop, s, n
<1>11. s <= p + b - 1
  BY <1>1, <1>10
<1> QED
  BY <1>9, <1>11 DEF s

LEMMA StopUnique ==
  ASSUME FileOK, NEW p \in Nat, NEW b \in Nat,
         NEW d \in p + 1 .. Len(file), NEW e \in p + 1 .. Len(file),
         IsStop(p, b, d), IsStop(p, b, e)
  PROVE  d = e
<1>1. Len(file) \in Nat
  BY DEF FileOK
<1>2. ~ (d < e)
  <2>1. SUFFICES ASSUME d < e PROVE FALSE
    OBVIOUS
  <2>2. d \in p + 1 .. e - 1
    BY <1>1, <2>1
  <2> QED
    BY <1>1, <2>1, <2>2 DEF IsStop
<1>3. ~ (e < d)
  <2>1. SUFFICES ASSUME e < d PROVE FALSE
    OBVIOUS
  <2>2. e \in p + 1 .. d - 1
    BY <1>1, <2>1
  <2> QED
    BY <1>1, <2>1, <2>2 DEF IsStop
<1> QED
  BY <1>1, <1>2, <1>3

\* A call that starts further on, with a buffer that is no smaller, stops no
\* earlier.
LEMMA StopMonotone ==
  ASSUME FileOK, NEW p \in Nat, NEW q \in Nat, p <= q, q < Len(file),
         NEW b \in Nat, NEW c \in Nat, b >= 2, b <= c
  PROVE  StopFrom(p, b) <= StopFrom(q, c)
<1> DEFINE d == StopFrom(p, b)
           e == StopFrom(q, c)
           n == Len(file)
<1>1. n \in Nat
  BY DEF FileOK
<1>2. d \in p + 1 .. n /\ IsStop(p, b, d)
  <2>1. p < n
    BY <1>1
  <2> QED
    BY <2>1, StopExists
<1>3. e \in q + 1 .. n /\ IsStop(q, c, e)
  <2>1. c >= 2
    OBVIOUS
  <2> QED
    BY <2>1, StopExists
<1> HIDE DEF d, e, n
<1>4. SUFFICES ASSUME e < d PROVE FALSE
  BY <1>1, <1>2, <1>3 DEF d, e
<1>5. e \in p + 1 .. d - 1
  BY <1>1, <1>2, <1>3, <1>4
<1>6. file[e] # NL /\ e # p + b - 1
  BY <1>2, <1>5 DEF IsStop
<1>7. e = q + c - 1
  BY <1>1, <1>2, <1>3, <1>4, <1>6 DEF IsStop, n
<1>8. p + b - 1 \in p + 1 .. d - 1
  BY <1>1, <1>2, <1>4, <1>6, <1>7
<1> QED
  BY <1>2, <1>8 DEF IsStop

\* The characters after p, up to e.
LEMMA Section ==
  ASSUME NEW S, NEW s, NEW p \in Nat, NEW e \in Nat, p <= e,
         \A k \in p + 1 .. e : s[k] \in S
  PROVE  /\ SubSeq(s, p + 1, e) \in Seq(S)
         /\ Len(SubSeq(s, p + 1, e)) = e - p
         /\ \A k \in 1 .. e - p : SubSeq(s, p + 1, e)[k] = s[p + k]
<1> DEFINE a == p + 1
           t == SubSeq(s, a, e)
<1>1. a \in Int /\ e \in Int /\ a = p + 1
  OBVIOUS
<1>2. (IF a <= e THEN e - a + 1 ELSE 0) = e - p /\ e - a + 1 = e - p
  OBVIOUS
<1>3. \A k \in a .. e : s[k] \in S
  OBVIOUS
<1> HIDE DEF a
<1>4. /\ SubSeq(s, a, e) \in Seq(S)
      /\ Len(SubSeq(s, a, e)) = IF a <= e THEN e - a + 1 ELSE 0
      /\ \A k \in 1 .. e - a + 1 : SubSeq(s, a, e)[k] = s[a + k - 1]
  BY ONLY <1>1, <1>3, SubSeqProperties
<1> HIDE DEF t
<1>5. t \in Seq(S) /\ Len(t) = e - p
  BY ONLY <1>2, <1>4 DEF t
<1>6. \A k \in 1 .. e - p : t[k] = s[a + k - 1]
  BY ONLY <1>2, <1>4 DEF t
<1>7. \A k \in 1 .. e - p : a + k - 1 = p + k
  BY <1>1
<1> QED
  BY <1>5, <1>6, <1>7 DEF t, a

LEMMA FrontShape ==
  ASSUME NEW S, NEW s \in Seq(S), NEW m \in Nat, Len(s) = m + 1
  PROVE  Front(s) \in Seq(S) /\ Len(Front(s)) = m /\ \A k \in 1 .. m : Front(s)[k] = s[k]
<1>1. Front(s) = SubSeq(s, 0 + 1, m)
  <2>1. Len(s) - 1 = m /\ 0 + 1 = 1
    OBVIOUS
  <2> QED
    BY <2>1 DEF Front
<1>2. \A k \in 0 + 1 .. m : s[k] \in S
  OBVIOUS
<1>3. 0 <= m /\ m - 0 = m /\ \A k \in 1 .. m : 0 + k = k
  OBVIOUS
<1>4. /\ SubSeq(s, 0 + 1, m) \in Seq(S) /\ Len(SubSeq(s, 0 + 1, m)) = m - 0
      /\ \A k \in 1 .. m - 0 : SubSeq(s, 0 + 1, m)[k] = s[0 + k]
  BY <1>2, <1>3, Section
<1> QED
  BY <1>1, <1>3, <1>4

\* What a call leaves in the buffer, and what the readers make of it.
LEMMA PieceShape ==
  ASSUME FileOK, NEW p \in Nat, NEW e \in p + 1 .. Len(file)
  PROVE  LET buf == SubSeq(file, p + 1, e)
             word == SubSeq(file, p + 1, IF file[e] = NL THEN e - 1 ELSE e)
         IN  /\ WithoutNewline(buf) = word
             /\ WithoutLast(buf) = SubSeq(file, p + 1, e - 1)
<1> DEFINE buf == SubSeq(file, p + 1, e)
           front == SubSeq(file, p + 1, e - 1)
<1>1. Len(file) \in Nat /\ e \in Nat /\ p < e
      /\ \A k \in p + 1 .. e : file[k] \in Letters
  BY DEF FileOK
<1>2. /\ buf \in Seq(Letters) /\ Len(buf) = e - p
      /\ \A k \in 1 .. e - p : buf[k] = file[p + k]
  <2>1. p <= e
    BY <1>1
  <2> QED
    BY <1>1, <2>1, Section
<1>3. /\ front \in Seq(Letters) /\ Len(front) = e - 1 - p
      /\ \A k \in 1 .. e - 1 - p : front[k] = file[p + k]
  <2>1. e - 1 \in Nat /\ p <= e - 1
    BY <1>1
  <2>2. \A k \in p + 1 .. e - 1 : file[k] \in Letters
    BY <1>1
  <2> QED
    BY <2>1, <2>2, Section
<1>4. Last(buf) = file[e]
  <2>1. Last(buf) = buf[e - p]
    BY <1>2 DEF Last
  <2>2. e - p \in 1 .. e - p /\ p + (e - p) = e
    BY <1>1
  <2> HIDE DEF buf
  <2> QED
    BY <1>2, <2>1, <2>2
<1>5. Front(buf) = front
  <2> DEFINE f == Front(buf)
             m == e - 1 - p
  <2>1. m \in Nat /\ Len(buf) = m + 1 /\ \A k \in 1 .. m : k \in 1 .. e - p
    BY <1>1, <1>2
  <2>2. Len(front) = m /\ \A k \in 1 .. m : front[k] = file[p + k]
    BY <1>3
  <2> HIDE DEF buf, front, m
  <2>3. f \in Seq(Letters) /\ Len(f) = m /\ \A k \in 1 .. m : f[k] = buf[k]
    BY <1>2, <2>1, FrontShape
  <2> HIDE DEF f
  <2>4. \A k \in 1 .. m : f[k] = front[k]
    BY <1>2, <2>1, <2>2, <2>3
  <2>5. f = front
    BY ONLY <1>3, <2>2, <2>3, <2>4, SeqEqual
  <2> QED
    BY <2>5 DEF f
<1> QED
  BY <1>4, <1>5 DEF WithoutNewline, WithoutLast

-----------------------------------------------------------------------------
(* The state, and what one call of fgets does to it.                       *)

TypeInv ==
  /\ FileOK
  /\ words \in Seq(Seq(Letters))
  /\ ReadersTypeOK
  /\ reader = "get_file_length" =>
       words = << >> /\ size <= pos /\ status \in {"reading", "crashed"}
  /\ reader = "init_game" => status \in {"reading", "done", "failed"}
  /\ status \in {"done", "crashed"} /\ reader # "init_game" => AtEnd

\* The word the readers that take off a newline make of what they read.
PieceFrom(p, b) ==
  LET e == StopFrom(p, b)
  IN  SubSeq(file, p + 1, IF file[e] = NL THEN e - 1 ELSE e)

FrontFrom(p, b) == SubSeq(file, p + 1, StopFrom(p, b) - 1)

LEMMA Reading ==
  ASSUME FileOK, pos \in 0 .. Len(file), ~ AtEnd, NEW b \in Nat, b >= 2
  PROVE  /\ pos \in Nat /\ pos < Len(file)
         /\ Stops(b) = StopFrom(pos, b)
         /\ Stops(b) \in pos + 1 .. Len(file)
         /\ Stops(b) <= pos + b - 1
         /\ IsStop(pos, b, Stops(b))
         /\ WithoutNewline(fgets(b)) = PieceFrom(pos, b)
         /\ WithoutLast(fgets(b)) = FrontFrom(pos, b)
<1>1. pos \in Nat /\ pos < Len(file)
  BY DEF FileOK, AtEnd
<1>2. Stops(b) = StopFrom(pos, b)
  BY DEF Stops, StopFrom, IsStop
<1> DEFINE e == StopFrom(pos, b)
<1>3. e \in pos + 1 .. Len(file) /\ e <= pos + b - 1 /\ IsStop(pos, b, e)
  BY <1>1, StopExists
<1>4. fgets(b) = SubSeq(file, pos + 1, e)
  BY <1>2 DEF fgets
<1> HIDE DEF e
<1>5. /\ WithoutNewline(SubSeq(file, pos + 1, e))
           = SubSeq(file, pos + 1, IF file[e] = NL THEN e - 1 ELSE e)
      /\ WithoutLast(SubSeq(file, pos + 1, e)) = SubSeq(file, pos + 1, e - 1)
  BY <1>1, <1>3, PieceShape
<1>6. WithoutNewline(fgets(b)) = PieceFrom(pos, b)
  BY <1>4, <1>5 DEF PieceFrom, e
<1>7. WithoutLast(fgets(b)) = FrontFrom(pos, b)
  BY <1>4, <1>5 DEF FrontFrom, e
<1> QED
  BY <1>1, <1>2, <1>3, <1>6, <1>7 DEF e

\* A word that is made holds characters of its line, and fits the buffer.
LEMMA PieceFits ==
  ASSUME FileOK, NEW p \in Nat, p < Len(file), NEW b \in Nat, b >= 2
  PROVE  /\ PieceFrom(p, b) \in Seq(Letters) /\ Len(PieceFrom(p, b)) < b
         /\ FrontFrom(p, b) \in Seq(Letters) /\ Len(FrontFrom(p, b)) < b
<1> DEFINE e == StopFrom(p, b)
           last == IF file[e] = NL THEN e - 1 ELSE e
<1>1. e \in p + 1 .. Len(file) /\ e <= p + b - 1
  BY StopExists
<1> HIDE DEF e
<1>2. Len(file) \in Nat /\ \A k \in p + 1 .. e : file[k] \in Letters
  BY <1>1 DEF FileOK
<1>3. last \in {e - 1, e}
  OBVIOUS
<1>4. PieceFrom(p, b) = SubSeq(file, p + 1, last)
  BY DEF PieceFrom, e
<1> HIDE DEF last
<1>5. last \in Nat /\ e - 1 \in Nat /\ last <= e /\ p <= last /\ p <= e - 1
  BY <1>1, <1>2, <1>3
<1>6. /\ SubSeq(file, p + 1, last) \in Seq(Letters)
      /\ Len(SubSeq(file, p + 1, last)) = last - p
  <2>1. \A k \in p + 1 .. last : file[k] \in Letters
    BY <1>1, <1>2, <1>5
  <2> QED
    BY <1>5, <2>1, Section
<1>7. /\ SubSeq(file, p + 1, e - 1) \in Seq(Letters)
      /\ Len(SubSeq(file, p + 1, e - 1)) = e - 1 - p
  <2>1. \A k \in p + 1 .. e - 1 : file[k] \in Letters
    BY <1>1, <1>2, <1>5
  <2> QED
    BY <1>5, <2>1, Section
<1>8. Len(PieceFrom(p, b)) < b
  BY <1>1, <1>2, <1>4, <1>5, <1>6
<1>9. Len(FrontFrom(p, b)) < b
  BY <1>1, <1>2, <1>7 DEF FrontFrom, e
<1> QED
  BY <1>4, <1>6, <1>7, <1>8, <1>9 DEF FrontFrom, e

LEMMA AppendWord ==
  ASSUME NEW S, NEW s \in Seq(S), NEW w \in S
  PROVE  /\ Append(s, w) \in Seq(S)
         /\ Len(s) \in Nat /\ Len(Append(s, w)) = Len(s) + 1
         /\ DOMAIN s = 1 .. Len(s)
         /\ DOMAIN Append(s, w) = (1 .. Len(s)) \cup {Len(s) + 1}
         /\ \A k \in 1 .. Len(s) : Append(s, w)[k] = s[k]
         /\ Append(s, w)[Len(s) + 1] = w
<1> DEFINE t == Append(s, w)
           n == Len(s)
<1>1. /\ t \in Seq(S) /\ n \in Nat /\ Len(t) = n + 1
      /\ DOMAIN s = 1 .. n /\ DOMAIN t = 1 .. n + 1
      /\ \A k \in 1 .. n : t[k] = s[k]
      /\ t[n + 1] = w
  OBVIOUS
<1> HIDE DEF t, n
<1>2. 1 .. n + 1 = (1 .. n) \cup {n + 1}
  BY <1>1
<1> QED
  BY <1>1, <1>2 DEF t, n

LEMMA TypeInit ==
  ReadersInit => TypeInv
<1>0. SUFFICES ASSUME ReadersInit PROVE TypeInv
  OBVIOUS
<1>1. FileOK
  BY <1>0, FileInit
<1>2. words \in Seq(Seq(Letters)) /\ Len(words) = 0 /\ DOMAIN words = {}
  BY <1>0 DEF ReadersInit
<1>3. Len(file) \in Nat
  BY <1>1 DEF FileOK
<1>4. ReadersTypeOK
  BY <1>0, <1>2, <1>3 DEF ReadersInit, ReadersTypeOK
<1> QED
  BY <1>0, <1>1, <1>2, <1>4 DEF ReadersInit, TypeInv

\* One step: every word appended fits its buffer, and every call moves on.
LEMMA TypeStep ==
  TypeInv /\ [ReadersNext]_vars => TypeInv'
<1>0. SUFFICES ASSUME TypeInv, [ReadersNext]_vars PROVE TypeInv'
  OBVIOUS
<1>1. FileOK /\ words \in Seq(Seq(Letters)) /\ ReadersTypeOK
  BY <1>0 DEF TypeInv
<1>2. Len(file) \in Nat /\ pos \in 0 .. Len(file) /\ pos \in Nat
  BY <1>1 DEF FileOK, ReadersTypeOK
<1>3. /\ MAX_WORD_LENGTH \in Nat /\ MAX_WORD_LENGTH >= 2
      /\ SIZE \in Nat /\ SIZE >= 2
      /\ MAX_WORD \in Nat /\ MAX_WORD >= 2
      /\ MAX_MSG \in Nat /\ MAX_MSG >= 2
  BY ReadersAssumption
<1>4. ASSUME file' = file PROVE FileOK'
  BY <1>1, <1>4 DEF FileOK
<1>5. CASE ReadWord
  <2>0. /\ reader = "read_words" /\ ~ AtEnd
        /\ words' = Append(words, WithoutNewline(fgets(MAX_WORD_LENGTH)))
        /\ pos' = Stops(MAX_WORD_LENGTH)
        /\ UNCHANGED << file, reader, size, index, i, status >>
    BY <1>5 DEF ReadWord
  <2> DEFINE w == WithoutNewline(fgets(MAX_WORD_LENGTH))
  <2>1. pos < Len(file) /\ w = PieceFrom(pos, MAX_WORD_LENGTH)
        /\ pos' \in pos + 1 .. Len(file)
    BY <1>1, <1>2, <1>3, <2>0, Reading
  <2>2. w \in Seq(Letters) /\ Len(w) < MAX_WORD_LENGTH
    BY <1>1, <1>2, <1>3, <2>1, PieceFits
  <2>3. words' = Append(words, w)
    BY <2>0
  <2> HIDE DEF w
  <2>4. words' \in Seq(Seq(Letters))
        /\ \A k \in DOMAIN words' : Len(words'[k]) < MAX_WORD_LENGTH
    <3> DEFINE S == Seq(Letters)
    <3>1. words \in Seq(S) /\ w \in S
      BY <1>1, <2>2
    <3>2. \A k \in DOMAIN words : Len(words[k]) < MAX_WORD_LENGTH
      BY <1>1, <2>0 DEF ReadersTypeOK
    <3> HIDE DEF S
    <3>3. /\ Append(words, w) \in Seq(S) /\ DOMAIN words = 1 .. Len(words)
          /\ DOMAIN Append(words, w) = (1 .. Len(words)) \cup {Len(words) + 1}
          /\ \A k \in 1 .. Len(words) : Append(words, w)[k] = words[k]
          /\ Append(words, w)[Len(words) + 1] = w
      BY ONLY <3>1, AppendWord
    <3>4. \A k \in DOMAIN Append(words, w) : Len(Append(words, w)[k]) < MAX_WORD_LENGTH
      BY ONLY <2>2, <3>2, <3>3
    <3> QED
      BY <2>3, <3>3, <3>4 DEF S
  <2>5. ReadersTypeOK'
    BY <1>1, <1>2, <2>0, <2>1, <2>4 DEF ReadersTypeOK
  <2>6. status \notin {"done", "crashed"}
    BY <1>0, <2>0 DEF TypeInv
  <2> QED
    BY <1>4, <2>0, <2>4, <2>5, <2>6 DEF TypeInv
<1>6. CASE MakeRecord
  <2>0. /\ reader = "mkwords" /\ ~ AtEnd
        /\ words' = Append(words, WithoutLast(fgets(SIZE)))
        /\ pos' = Stops(SIZE)
        /\ UNCHANGED << file, reader, size, index, i, status >>
    BY <1>6 DEF MakeRecord
  <2> DEFINE w == WithoutLast(fgets(SIZE))
  <2>1. pos < Len(file) /\ w = FrontFrom(pos, SIZE)
        /\ pos' \in pos + 1 .. Len(file)
    BY <1>1, <1>2, <1>3, <2>0, Reading
  <2>2. w \in Seq(Letters) /\ Len(w) < SIZE
    BY <1>1, <1>2, <1>3, <2>1, PieceFits
  <2>3. words' = Append(words, w)
    BY <2>0
  <2> HIDE DEF w
  <2>4. words' \in Seq(Seq(Letters))
        /\ \A k \in DOMAIN words' : Len(words'[k]) < SIZE
    <3> DEFINE S == Seq(Letters)
    <3>1. words \in Seq(S) /\ w \in S
      BY <1>1, <2>2
    <3>2. \A k \in DOMAIN words : Len(words[k]) < SIZE
      BY <1>1, <2>0 DEF ReadersTypeOK
    <3> HIDE DEF S
    <3>3. /\ Append(words, w) \in Seq(S) /\ DOMAIN words = 1 .. Len(words)
          /\ DOMAIN Append(words, w) = (1 .. Len(words)) \cup {Len(words) + 1}
          /\ \A k \in 1 .. Len(words) : Append(words, w)[k] = words[k]
          /\ Append(words, w)[Len(words) + 1] = w
      BY ONLY <3>1, AppendWord
    <3>4. \A k \in DOMAIN Append(words, w) : Len(Append(words, w)[k]) < SIZE
      BY ONLY <2>2, <3>2, <3>3
    <3> QED
      BY <2>3, <3>3, <3>4 DEF S
  <2>5. ReadersTypeOK'
    BY <1>1, <1>2, <2>0, <2>1, <2>4 DEF ReadersTypeOK
  <2>6. status \notin {"done", "crashed"}
    BY <1>0, <2>0 DEF TypeInv
  <2> QED
    BY <1>4, <2>0, <2>4, <2>5, <2>6 DEF TypeInv
<1>7. CASE FileRead
  BY <1>0, <1>1, <1>4, <1>7 DEF FileRead, TypeInv, ReadersTypeOK, AtEnd
<1>8. CASE CountLine
  <2>0. /\ reader = "get_file_length" /\ ~ AtEnd
        /\ size' = size + 1
        /\ pos' = Stops(MAX_MSG)
        /\ UNCHANGED << file, reader, words, index, i, status >>
    BY <1>8 DEF CountLine, CountSize
  <2>1. pos' \in pos + 1 .. Len(file)
    BY <1>1, <1>2, <1>3, <2>0, Reading
  <2>2. words = << >> /\ size <= pos /\ status \in {"reading", "crashed"}
        /\ status \notin {"done", "crashed"}
    BY <1>0, <2>0 DEF TypeInv
  <2>3. size \in Nat
    BY <1>1, <1>2 DEF ReadersTypeOK
  <2>4. size' <= pos' /\ size' \in 0 .. Len(file)
    BY <1>2, <2>0, <2>1, <2>2, <2>3
  <2>5. ReadersTypeOK'
    BY <1>1, <1>2, <2>0, <2>1, <2>2, <2>4 DEF ReadersTypeOK
  <2> QED
    BY <1>1, <1>4, <2>0, <2>2, <2>4, <2>5 DEF TypeInv
<1>9. CASE DivideByZero
  BY <1>0, <1>1, <1>4, <1>9 DEF DivideByZero, TypeInv, ReadersTypeOK, AtEnd
<1>10. CASE InitGame
  <2>0. /\ pos' = 0 /\ reader' = "init_game" /\ index' \in 0 .. size - 1
        /\ i' = 0 /\ status' = "reading" /\ words' = << >>
        /\ UNCHANGED << file, size >>
    BY <1>10 DEF InitGame, Rewound
  <2>1. words' \in Seq(Seq(Letters)) /\ DOMAIN words' = {}
    BY <2>0
  <2>2. size \in Nat
    BY <1>1, <1>2 DEF ReadersTypeOK
  <2>3. i' \in 0 .. index'
    BY <2>0, <2>2
  <2>4. ReadersTypeOK'
    BY <1>1, <1>2, <2>0, <2>1, <2>3 DEF ReadersTypeOK
  <2> QED
    BY <1>4, <2>0, <2>1, <2>4 DEF TypeInv
<1>11. CASE NextEntry
  <2>0. /\ reader = "init_game" /\ status = "reading"
        /\ UNCHANGED << file, reader, size, index >>
    BY <1>11 DEF NextEntry
  <2>1. size \in Nat /\ index \in 0 .. size - 1 /\ i \in 0 .. index
        /\ index \in Int /\ i \in Int
    BY <1>1, <1>2, <2>0 DEF ReadersTypeOK
  <2>2. CASE AtEnd
    <3>1. status' = "failed" /\ UNCHANGED << pos, words, i >>
      BY <1>11, <2>2 DEF NextEntry
    <3> QED
      BY <1>0, <1>1, <1>4, <2>0, <3>1 DEF TypeInv, ReadersTypeOK, AtEnd
  <2>3. CASE ~ AtEnd /\ i = index
    <3> DEFINE w == WithoutNewline(fgets(MAX_WORD))
    <3>1. pos' = Stops(MAX_WORD) /\ words' = << w >> /\ status' = "done" /\ i' = i
      BY <1>11, <2>3 DEF NextEntry, PickSize
    <3>2. pos < Len(file) /\ w = PieceFrom(pos, MAX_WORD)
          /\ pos' \in pos + 1 .. Len(file)
      BY <1>1, <1>2, <1>3, <2>3, <3>1, Reading
    <3>3. w \in Seq(Letters) /\ Len(w) < MAX_WORD
      BY <1>1, <1>2, <1>3, <3>2, PieceFits
    <3> HIDE DEF w
    <3>4. words' \in Seq(Seq(Letters))
          /\ \A k \in DOMAIN words' : Len(words'[k]) < MAX_WORD
      BY <3>1, <3>3
    <3>5. ReadersTypeOK'
      BY <1>1, <1>2, <2>0, <2>1, <3>1, <3>2, <3>4 DEF ReadersTypeOK
    <3> QED
      BY <1>4, <2>0, <3>1, <3>4, <3>5 DEF TypeInv
  <2>4. CASE ~ AtEnd /\ i # index
    <3>1. pos' = Stops(MAX_WORD) /\ i' = i + 1 /\ UNCHANGED << words, status >>
      BY <1>11, <2>4 DEF NextEntry, PickSize
    <3>2. pos' \in pos + 1 .. Len(file)
      BY <1>1, <1>2, <1>3, <2>4, <3>1, Reading
    <3>3. i' \in 0 .. index
      BY <2>1, <2>4, <3>1
    <3>4. ReadersTypeOK'
      BY <1>1, <1>2, <2>0, <2>1, <3>1, <3>2, <3>3 DEF ReadersTypeOK
    <3> QED
      BY <1>1, <1>4, <2>0, <3>1, <3>4 DEF TypeInv
  <2> QED
    BY <2>2, <2>3, <2>4
<1>12. CASE Finished \/ UNCHANGED vars
  BY <1>0, <1>1, <1>4, <1>12 DEF Finished, vars, TypeInv, ReadersTypeOK, AtEnd
<1> QED
  BY <1>0, <1>5, <1>6, <1>7, <1>8, <1>9, <1>10, <1>11, <1>12 DEF ReadersNext

\* The readers keep to their states: every word fits the buffer it was read
\* into, the count never passes the characters there are and the entry looked
\* for is one of those counted (reading.c:27-40, mkwords.c:72-80,
\* gameplay.c:41-68).
THEOREM ReadersTypeCorrect ==
  ReadersSpec => []ReadersTypeOK
<1>1. TypeInv => ReadersTypeOK
  BY DEF TypeInv
<1> QED
  BY <1>1, TypeInit, TypeStep, PTL DEF ReadersSpec

-----------------------------------------------------------------------------
(* The entry is always found.                                              *)

\* Where get_file_length stood after each of m lines it counted.
Counted(h, m) ==
  /\ h \in [0 .. m -> 0 .. Len(file)]
  /\ h[0] = 0
  /\ \A k \in 0 .. m - 1 : h[k] < Len(file) /\ h[k + 1] = StopFrom(h[k], MAX_MSG)

\* init_game never stands further on, after as many lines.
IndexInv ==
  /\ reader = "get_file_length" =>
       \E h \in [0 .. size -> 0 .. Len(file)] : Counted(h, size) /\ h[size] = pos
  /\ reader = "init_game" =>
       \E h \in [0 .. size -> 0 .. Len(file)] :
         Counted(h, size) /\ (status = "reading" => pos <= h[i])
  /\ status # "failed"

LEMMA CountedGrows ==
  ASSUME FileOK, NEW m \in Nat, NEW h, Counted(h, m), h[m] < Len(file)
  PROVE  \E g \in [0 .. m + 1 -> 0 .. Len(file)] :
           Counted(g, m + 1) /\ g[m + 1] = StopFrom(h[m], MAX_MSG)
<1> DEFINE n == Len(file)
           e == StopFrom(h[m], MAX_MSG)
           g == [k \in 0 .. m + 1 |-> IF k <= m THEN h[k] ELSE e]
<1>1. n \in Nat /\ h[m] \in Nat /\ MAX_MSG \in Nat /\ MAX_MSG >= 2
  BY ReadersAssumption DEF FileOK, Counted
<1>2. e \in h[m] + 1 .. n
  BY <1>1, StopExists
<1>3. e \in 0 .. n
  BY <1>1, <1>2
<1> HIDE DEF e, n
<1>4. g \in [0 .. m + 1 -> 0 .. n]
  BY <1>3 DEF Counted, n
<1>5. g[0] = 0 /\ g[m + 1] = e
  BY DEF Counted
<1>6. ASSUME NEW k \in 0 .. m PROVE g[k] < n /\ g[k + 1] = StopFrom(g[k], MAX_MSG)
  <2>1. g[k] = h[k]
    BY <1>6
  <2>2. CASE k = m
    BY <1>5, <2>1, <2>2 DEF e, n
  <2>3. CASE k # m
    <3>1. k \in 0 .. m - 1 /\ k + 1 \in 0 .. m + 1 /\ k + 1 <= m
      BY <1>6, <2>3
    <3>2. g[k + 1] = h[k + 1]
      BY <3>1
    <3> HIDE DEF g
    <3> QED
      BY <2>1, <3>1, <3>2 DEF Counted, n
  <2> QED
    BY <2>2, <2>3
<1> HIDE DEF g
<1>7. m + 1 - 1 = m
  OBVIOUS
<1>8. Counted(g, m + 1)
  BY <1>4, <1>5, <1>6, <1>7 DEF Counted, n
<1> QED
  BY <1>4, <1>5, <1>8 DEF e, n

LEMMA IndexInit ==
  ReadersInit => IndexInv
<1>0. SUFFICES ASSUME ReadersInit PROVE IndexInv
  OBVIOUS
<1>1. Len(file) \in Nat
  BY <1>0, FileInit DEF FileOK
<1> DEFINE h == [k \in 0 .. 0 |-> 0]
<1>2. h \in [0 .. 0 -> 0 .. Len(file)] /\ h[0] = 0 /\ Counted(h, 0)
  BY <1>1 DEF Counted
<1> HIDE DEF h
<1> QED
  BY <1>0, <1>2 DEF ReadersInit, IndexInv

LEMMA IndexStep ==
  TypeInv /\ IndexInv /\ [ReadersNext]_vars => IndexInv'
<1>0. SUFFICES ASSUME TypeInv, IndexInv, [ReadersNext]_vars PROVE IndexInv'
  OBVIOUS
<1>1. FileOK /\ ReadersTypeOK
  BY <1>0 DEF TypeInv
<1>2. Len(file) \in Nat /\ pos \in 0 .. Len(file) /\ size \in Nat
  BY <1>1 DEF FileOK, ReadersTypeOK
<1>3. /\ MAX_WORD \in Nat /\ MAX_WORD >= 2
      /\ MAX_MSG \in Nat /\ MAX_MSG >= 2 /\ MAX_WORD <= MAX_MSG
  BY ReadersAssumption
<1>4. file' = file => \A p, b : StopFrom(p, b)' = StopFrom(p, b)
  BY DEF StopFrom, IsStop
<1>kept. ASSUME UNCHANGED << file, reader, pos, size, i >>, status' # "failed",
             status' = "reading" => status = "reading"
      PROVE  IndexInv'
  <2>1. \A h : Counted(h, size)' <=> Counted(h, size)
    BY <1>4, <1>kept DEF Counted
  <2> QED
    BY <1>0, <1>kept, <2>1 DEF IndexInv
<1>5. CASE ReadWord \/ MakeRecord \/ FileRead
  BY <1>0, <1>5 DEF ReadWord, MakeRecord, FileRead, IndexInv
<1>6. CASE CountLine
  <2>1. /\ reader = "get_file_length" /\ ~ AtEnd
        /\ size' = size + 1 /\ pos' = Stops(MAX_MSG)
        /\ UNCHANGED << file, reader, status >>
    BY <1>6 DEF CountLine, CountSize
  <2>2. PICK h \in [0 .. size -> 0 .. Len(file)] : Counted(h, size) /\ h[size] = pos
    BY <1>0, <2>1 DEF IndexInv
  <2>3. pos < Len(file) /\ Stops(MAX_MSG) = StopFrom(pos, MAX_MSG)
    BY <1>1, <1>2, <1>3, <2>1, Reading
  <2>4. PICK g \in [0 .. size + 1 -> 0 .. Len(file)] :
          Counted(g, size + 1) /\ g[size + 1] = StopFrom(h[size], MAX_MSG)
    BY <1>1, <1>2, <2>2, <2>3, CountedGrows
  <2>5. Counted(g, size)'
    BY <1>4, <2>1, <2>4 DEF Counted
  <2>6. g[size'] = pos' /\ g \in [0 .. size' -> 0 .. Len(file')]
    BY <2>1, <2>2, <2>3, <2>4
  <2> QED
    BY <1>0, <2>1, <2>5, <2>6 DEF IndexInv
<1>7. CASE DivideByZero
  BY <1>kept, <1>7 DEF DivideByZero
<1>8. CASE InitGame
  <2>1. /\ pos' = 0 /\ reader' = "init_game" /\ i' = 0 /\ status' = "reading"
        /\ UNCHANGED << file, size >> /\ reader \in {"get_file_length", "init_game"}
    BY <1>8 DEF InitGame, Rewound
  <2>2. PICK h \in [0 .. size -> 0 .. Len(file)] : Counted(h, size)
    BY <1>0, <2>1 DEF IndexInv
  <2>3. h[0] = 0
    BY <2>2 DEF Counted
  <2>4. Counted(h, size)'
    BY <1>4, <2>1, <2>2 DEF Counted
  <2>5. pos' <= h[i'] /\ h \in [0 .. size' -> 0 .. Len(file')]
    BY <2>1, <2>2, <2>3
  <2> QED
    BY <2>1, <2>4, <2>5 DEF IndexInv
<1>9. CASE NextEntry
  <2>0. /\ reader = "init_game" /\ status = "reading"
        /\ UNCHANGED << file, reader, size, index >>
    BY <1>9 DEF NextEntry
  <2>1. index \in 0 .. size - 1 /\ i \in 0 .. index
    BY <1>1, <2>0 DEF ReadersTypeOK
  <2>2. PICK h \in [0 .. size -> 0 .. Len(file)] : Counted(h, size) /\ pos <= h[i]
    BY <1>0, <2>0 DEF IndexInv
  <2>3. i \in 0 .. size - 1 /\ i \in 0 .. size
    BY <1>2, <2>1
  <2>4. h[i] \in Nat /\ h[i] < Len(file) /\ h[i + 1] = StopFrom(h[i], MAX_MSG)
    BY <1>2, <2>2, <2>3 DEF Counted
  <2>5. ~ AtEnd
    BY <1>2, <2>2, <2>4 DEF AtEnd
  <2>6. Stops(MAX_WORD) = StopFrom(pos, MAX_WORD)
    BY <1>1, <1>2, <1>3, <2>5, Reading
  <2>7. StopFrom(pos, MAX_WORD) <= StopFrom(h[i], MAX_MSG)
    BY <1>1, <1>2, <1>3, <2>2, <2>4, StopMonotone
  <2>8. Counted(h, size)' /\ h \in [0 .. size' -> 0 .. Len(file')]
    BY <1>4, <2>0, <2>2 DEF Counted
  <2>9. CASE i = index
    <3>1. status' = "done"
      BY <1>9, <2>5, <2>9 DEF NextEntry
    <3> QED
      BY <2>0, <2>8, <3>1 DEF IndexInv
  <2>10. CASE i # index
    <3>1. pos' = Stops(MAX_WORD) /\ i' = i + 1 /\ status' = status
      BY <1>9, <2>5, <2>10 DEF NextEntry, PickSize
    <3>2. pos' <= h[i']
      BY <2>4, <2>6, <2>7, <3>1
    <3> QED
      BY <2>0, <2>8, <3>1, <3>2 DEF IndexInv
  <2> QED
    BY <2>9, <2>10
<1>10. CASE Finished \/ UNCHANGED vars
  <2>1. UNCHANGED vars /\ status # "failed"
    BY <1>0, <1>10 DEF Finished, IndexInv
  <2> QED
    BY <1>kept, <2>1 DEF vars
<1> QED
  BY <1>0, <1>5, <1>6, <1>7, <1>8, <1>9, <1>10 DEF ReadersNext

\* The file never ends before the entry is found, for any file and any two
\* buffers of which get_file_length's is no smaller: a buffer that is smaller
\* never takes a reader further in as many calls (gameplay.c:41-56, 91-92).
THEOREM EntryAlwaysFound ==
  ReadersSpec => []IndexFound
<1>1. IndexInv => IndexFound
  BY DEF IndexInv, IndexFound
<1> QED
  BY <1>1, TypeInit, TypeStep, IndexInit, IndexStep, PTL DEF ReadersSpec

-----------------------------------------------------------------------------
(* read_words loses no letter.                                             *)

\* The letters of a word are the characters read, without the newline.
LEMMA PieceLetters ==
  ASSUME FileOK, NEW p \in Nat, p < Len(file), NEW b \in Nat, b >= 2
  PROVE  LET w == PieceFrom(p, b)
         IN  /\ Range(w) = {file[c] : c \in p + 1 .. StopFrom(p, b)} \ {NL}
             /\ \A m \in DOMAIN w : p < w[m] /\ w[m] = p + m
<1> DEFINE e == StopFrom(p, b)
           last == IF file[e] = NL THEN e - 1 ELSE e
           w == SubSeq(file, p + 1, last)
<1>1. e \in p + 1 .. Len(file) /\ IsStop(p, b, e)
  BY StopExists
<1> HIDE DEF e
<1>2. /\ Len(file) \in Nat /\ Len(file) <= MaxFile
      /\ \A k \in p + 1 .. e : file[k] \in Letters /\ (file[k] = NL \/ file[k] = k)
  BY <1>1 DEF FileOK
<1>3. last \in {e - 1, e}
  OBVIOUS
<1>4. PieceFrom(p, b) = w
  BY DEF PieceFrom, e
<1>5. \A k \in p + 1 .. last : file[k] = k /\ file[k] # NL
  <2>1. ASSUME NEW k \in p + 1 .. last PROVE file[k] # NL
    <3>1. CASE k = e
      BY <1>1, <1>2, <3>1
    <3>2. CASE k # e
      <4>1. k \in p + 1 .. e - 1
        BY <1>1, <1>2, <1>3, <3>2
      <4> QED
        BY <1>1, <4>1 DEF IsStop
    <3> QED
      BY <3>1, <3>2
  <2> QED
    BY <1>1, <1>2, <1>3, <2>1
<1>6. \A k \in p + 1 .. e : k \in p + 1 .. last \/ file[k] = NL
  BY <1>1, <1>2
<1>7. last \in Nat /\ p <= last /\ last <= e
  BY <1>1, <1>2, <1>3
<1> HIDE DEF last
<1>8. /\ w \in Seq(Letters)
      /\ Len(w) = last - p
      /\ \A m \in 1 .. last - p : w[m] = file[p + m]
  <2>1. \A k \in p + 1 .. last : file[k] \in Letters
    BY <1>1, <1>2, <1>7
  <2> QED
    BY <1>7, <2>1, Section
<1> HIDE DEF w
<1>9. DOMAIN w = 1 .. last - p
  BY <1>8
<1>10. ASSUME NEW m \in DOMAIN w PROVE p < w[m] /\ w[m] = p + m
  <2>1. p + m \in p + 1 .. last /\ p < p + m
    BY <1>7, <1>9
  <2> QED
    BY <1>5, <1>8, <1>9, <2>1
<1>11. Range(w) = {file[c] : c \in p + 1 .. last}
  <2>1. ASSUME NEW c \in p + 1 .. last PROVE c - p \in DOMAIN w /\ w[c - p] = file[c]
    <3>1. c - p \in 1 .. last - p /\ p + (c - p) = c
      BY <1>7
    <3> QED
      BY <1>8, <1>9, <3>1
  <2>2. ASSUME NEW m \in DOMAIN w PROVE p + m \in p + 1 .. last /\ w[m] = file[p + m]
    BY <1>7, <1>8, <1>9
  <2> QED
    BY <2>1, <2>2 DEF Range
<1>12. {file[c] : c \in p + 1 .. last} = {file[c] : c \in p + 1 .. e} \ {NL}
  <2>1. p + 1 .. last \subseteq p + 1 .. e
    BY <1>1, <1>2, <1>7
  <2> QED
    BY <1>5, <1>6, <2>1
<1> QED
  BY <1>4, <1>10, <1>11, <1>12 DEF e

LEMMA LettersInit ==
  ReadersInit => NoLetterLost
<1>0. SUFFICES ASSUME ReadersInit PROVE NoLetterLost
  OBVIOUS
<1>1. DOMAIN words = {} /\ 1 .. pos = {}
  BY <1>0 DEF ReadersInit
<1> QED
  BY <1>1 DEF NoLetterLost

LEMMA LettersStep ==
  TypeInv /\ NoLetterLost /\ [ReadersNext]_vars => NoLetterLost'
<1>0. SUFFICES ASSUME TypeInv, NoLetterLost, [ReadersNext]_vars PROVE NoLetterLost'
  OBVIOUS
<1>1. FileOK /\ ReadersTypeOK /\ words \in Seq(Seq(Letters))
  BY <1>0 DEF TypeInv
<1>2. Len(file) \in Nat /\ pos \in 0 .. Len(file)
  BY <1>1 DEF FileOK, ReadersTypeOK
<1>3. MAX_WORD_LENGTH \in Nat /\ MAX_WORD_LENGTH >= 2
  BY ReadersAssumption
<1>4. CASE ReadWord
  <2> DEFINE w == PieceFrom(pos, MAX_WORD_LENGTH)
             n == Len(words) + 1
             f == words'
  <2>1. /\ reader = "read_words" /\ ~ AtEnd
        /\ words' = Append(words, WithoutNewline(fgets(MAX_WORD_LENGTH)))
        /\ pos' = Stops(MAX_WORD_LENGTH) /\ file' = file
    BY <1>4 DEF ReadWord
  <2>2. /\ pos \in Nat /\ pos < Len(file) /\ words' = Append(words, w)
        /\ pos' = StopFrom(pos, MAX_WORD_LENGTH) /\ pos' \in pos + 1 .. Len(file)
    BY <1>1, <1>2, <1>3, <2>1, Reading
  <2>3. /\ Range(w) = {file[c] : c \in pos + 1 .. pos'} \ {NL}
        /\ \A m \in DOMAIN w : pos < w[m] /\ w[m] = pos + m
    BY <1>1, <1>3, <2>2, PieceLetters
  <2>4. w \in Seq(Letters)
    BY <1>1, <1>3, <2>2, PieceFits
  <2> HIDE DEF w
  <2>5. /\ Len(words) \in Nat /\ DOMAIN words = 1 .. Len(words)
        /\ DOMAIN f = (DOMAIN words) \cup {n}
        /\ \A k \in DOMAIN words : f[k] = words[k] /\ k < n
        /\ f[n] = w
    <3> DEFINE S == Seq(Letters)
    <3>1. words \in Seq(S) /\ w \in S
      BY <1>1, <2>4
    <3> HIDE DEF S
    <3>2. /\ Len(words) \in Nat /\ DOMAIN words = 1 .. Len(words)
          /\ DOMAIN Append(words, w) = (1 .. Len(words)) \cup {Len(words) + 1}
          /\ \A k \in 1 .. Len(words) : Append(words, w)[k] = words[k]
          /\ Append(words, w)[Len(words) + 1] = w
      BY ONLY <3>1, AppendWord
    <3>3. \A k \in 1 .. Len(words) : k < Len(words) + 1
      BY <3>2
    <3> QED
      BY <2>2, <3>2, <3>3
  <2> HIDE DEF f, n
  <2>6. /\ UNION {Range(words[k]) : k \in DOMAIN words} = {file[c] : c \in 1 .. pos} \ {NL}
        /\ \A k, l \in DOMAIN words : \A m \in DOMAIN words[k], o \in DOMAIN words[l] :
             k < l \/ (k = l /\ m < o) => words[k][m] < words[l][o]
    BY <1>0, <2>1 DEF NoLetterLost
  <2>7. UNION {Range(f[k]) : k \in DOMAIN f} = {file[c] : c \in 1 .. pos'} \ {NL}
    <3>1. UNION {Range(f[k]) : k \in DOMAIN f}
            = (UNION {Range(words[k]) : k \in DOMAIN words}) \cup Range(w)
      BY <2>5
    <3>2. 1 .. pos' = (1 .. pos) \cup (pos + 1 .. pos')
      BY <1>2, <2>2
    <3> QED
      BY <2>3, <2>6, <3>1, <3>2
  <2>8. \A k \in DOMAIN words : \A m \in DOMAIN words[k] : words[k][m] \in 1 .. pos
    <3>1. ASSUME NEW k \in DOMAIN words, NEW m \in DOMAIN words[k]
          PROVE  words[k][m] \in {file[c] : c \in 1 .. pos} \ {NL}
      <4>1. words[k][m] \in Range(words[k])
        BY DEF Range
      <4> QED
        BY <2>6, <4>1
    <3>2. \A c \in 1 .. pos : file[c] = NL \/ file[c] = c
      BY <1>1, <1>2 DEF FileOK
    <3> QED
      BY <3>1, <3>2
  <2>9. ASSUME NEW k \in DOMAIN f, NEW l \in DOMAIN f,
               NEW m \in DOMAIN f[k], NEW o \in DOMAIN f[l],
               k < l \/ (k = l /\ m < o)
        PROVE  f[k][m] < f[l][o]
    <3>1. CASE l # n
      <4>1. l \in DOMAIN words /\ k \in DOMAIN words
        BY <2>5, <2>9, <3>1 DEF n
      <4> QED
        BY <2>5, <2>6, <2>9, <4>1
    <3>2. CASE l = n /\ k # n
      <4>1. k \in DOMAIN words /\ f[k] = words[k] /\ f[l] = w
        BY <2>5, <3>2
      <4>2. f[k][m] \in 1 .. pos
        BY <2>8, <2>9, <4>1
      <4>3. pos < f[l][o] /\ f[l][o] = pos + o /\ o \in Nat
        BY <2>3, <2>4, <2>9, <4>1
      <4> QED
        BY <2>2, <4>2, <4>3
    <3>3. CASE l = n /\ k = n
      <4>1. f[k] = w /\ f[l] = w
        BY <2>5, <3>3
      <4>2. m \in Nat /\ o \in Nat /\ m < o
        BY <2>4, <2>5, <2>9, <3>3, <4>1 DEF n
      <4> QED
        BY <2>2, <2>3, <2>9, <4>1, <4>2
    <3> QED
      BY <3>1, <3>2, <3>3
  <2> QED
    BY <2>1, <2>7, <2>9 DEF NoLetterLost, f
<1>5. CASE MakeRecord \/ CountLine \/ DivideByZero \/ InitGame \/ NextEntry
  BY <1>5 DEF MakeRecord, CountLine, DivideByZero, InitGame, NextEntry, NoLetterLost
<1>6. CASE FileRead \/ Finished \/ UNCHANGED vars
  BY <1>0, <1>6 DEF FileRead, Finished, vars, NoLetterLost
<1> QED
  BY <1>0, <1>4, <1>5, <1>6 DEF ReadersNext

\* However long the lines and the buffer, the words read_words has stored hold
\* every letter it has read, in the order of the file (reading.c:27-40).
THEOREM LettersKept ==
  ReadersSpec => []NoLetterLost
BY TypeInit, TypeStep, LettersInit, LettersStep, PTL DEF ReadersSpec

-----------------------------------------------------------------------------
(* Where the lines of a file are.                                          *)

LEMMA EndsFacts ==
  ASSUME FileOK
  PROVE  /\ Ends \subseteq 1 .. Len(file)
         /\ \A e \in Ends : e \in Nat /\ 0 < e /\ e <= Len(file)
         /\ IsFiniteSet(Ends) /\ Cardinality(Ends) \in Nat
         /\ \A e : IsFiniteSet({d \in Ends : d <= e}) /\ EndsUpTo(e) \in Nat
                   /\ EndsUpTo(e) <= Cardinality(Ends)
         /\ EndsUpTo(Len(file)) = Cardinality(Ends)
         /\ EndsUpTo(0) = 0
<1>1. Len(file) \in Nat /\ Ends \subseteq 1 .. Len(file)
  BY DEF FileOK, Ends
<1>2. IsFiniteSet(1 .. Len(file))
  BY <1>1, FS_Interval
<1>3. IsFiniteSet(Ends) /\ Cardinality(Ends) \in Nat
  BY <1>1, <1>2, FS_Subset, FS_CardinalityType
<1>4. ASSUME NEW e
      PROVE  /\ IsFiniteSet({d \in Ends : d <= e}) /\ EndsUpTo(e) \in Nat
             /\ EndsUpTo(e) <= Cardinality(Ends)
  <2> DEFINE D == {d \in Ends : d <= e}
  <2>1. D \subseteq Ends
    OBVIOUS
  <2>2. EndsUpTo(e) = Cardinality(D)
    BY DEF EndsUpTo
  <2> HIDE DEF D
  <2>3. IsFiniteSet(D) /\ Cardinality(D) <= Cardinality(Ends)
    BY <1>3, <2>1, FS_Subset
  <2>4. Cardinality(D) \in Nat
    BY <2>3, FS_CardinalityType
  <2> QED
    BY <2>2, <2>3, <2>4 DEF D
<1>within. \A e \in Ends : e \in Nat /\ 0 < e /\ e <= Len(file)
  <2>1. \A e \in 1 .. Len(file) : e \in Nat /\ 0 < e /\ e <= Len(file)
    BY <1>1
  <2> QED
    BY <1>1, <2>1
<1>5. {d \in Ends : d <= Len(file)} = Ends
  BY <1>within
<1>6. {d \in Ends : d <= 0} = {}
  BY <1>within
<1>7. EndsUpTo(0) = 0
  BY <1>6, FS_EmptySet DEF EndsUpTo
<1> QED
  BY <1>1, <1>3, <1>4, <1>5, <1>7, <1>within DEF EndsUpTo

\* The ends up to one that follows p with none between them.
LEMMA NextEnd ==
  ASSUME FileOK, NEW p \in Nat, NEW e \in Ends, p < e,
         \A k \in p + 1 .. e - 1 : k \notin Ends
  PROVE  EndsUpTo(e) = EndsUpTo(p) + 1
<1>1. \A d \in Ends : d \in Nat
  BY EndsFacts
<1> DEFINE D == {d \in Ends : d <= p}
<1>2. {d \in Ends : d <= e} = D \cup {e} /\ e \notin D
  <2>1. e \in Nat
    BY <1>1
  <2>2. \A d \in Ends : d <= e <=> d <= p \/ d = e
    <3>1. SUFFICES ASSUME NEW d \in Ends PROVE d <= e <=> d <= p \/ d = e
      OBVIOUS
    <3>2. d \in Nat /\ d \notin p + 1 .. e - 1
      BY <1>1
    <3> QED
      BY <2>1, <3>2
  <2>3. ~ (e <= p)
    BY <2>1
  <2>4. {d \in Ends : d <= e} = {d \in Ends : d <= p \/ d = e}
    BY <2>2
  <2>5. {d \in Ends : d <= p \/ d = e} = {d \in Ends : d <= p} \cup {e}
    OBVIOUS
  <2> QED
    BY <2>3, <2>4, <2>5
<1>3. IsFiniteSet(D) /\ EndsUpTo(p) = Cardinality(D)
  BY EndsFacts DEF EndsUpTo
<1> HIDE DEF D
<1>4. Cardinality(D \cup {e}) = Cardinality(D) + 1
  BY <1>2, <1>3, FS_AddElement
<1> QED
  BY <1>2, <1>3, <1>4 DEF EndsUpTo

\* A later end has more ends up to it, so that LineEnd gives each its number.
LEMMA LineEndOf ==
  ASSUME FileOK, NEW e \in Ends
  PROVE  /\ EndsUpTo(e) \in 1 .. Cardinality(Ends)
         /\ LineEnd(EndsUpTo(e)) = e
<1>1. (\A d \in Ends : d \in Nat) /\ (\A x : EndsUpTo(x) \in Nat)
  BY EndsFacts
<1>2. ASSUME NEW c \in Ends, NEW d \in Ends, c < d
      PROVE  EndsUpTo(c) < EndsUpTo(d)
  <2> DEFINE C == {b \in Ends : b <= c}
             D == {b \in Ends : b <= d}
  <2>1. IsFiniteSet(C) /\ IsFiniteSet(D)
    BY EndsFacts
  <2>2. EndsUpTo(c) = Cardinality(C) /\ EndsUpTo(d) = Cardinality(D)
    BY DEF EndsUpTo
  <2>0. c \in Nat /\ d \in Nat /\ \A x \in Ends : x \in Nat
    BY <1>1
  <2>below. C \subseteq D
    <3>1. \A x \in Ends : x <= c => x <= d
      BY <1>2, <2>0
    <3> QED
      BY <3>1
  <2>above. d <= d /\ ~ (d <= c)
    BY <1>2, <2>0
  <2>3. C \subseteq D /\ d \in D /\ d \notin C
    BY <2>below, <2>above
  <2> HIDE DEF C, D
  <2>4. Cardinality(C) <= Cardinality(D) /\ (Cardinality(C) = Cardinality(D) => C = D)
    BY <2>1, <2>3, FS_Subset
  <2>5. Cardinality(C) \in Nat /\ Cardinality(D) \in Nat
    BY <2>1, FS_CardinalityType
  <2> QED
    BY <2>2, <2>3, <2>4, <2>5
<1>3. ASSUME NEW d \in Ends, EndsUpTo(d) = EndsUpTo(e) PROVE d = e
  <2>1. d \in Nat /\ e \in Nat /\ EndsUpTo(d) \in Nat
    BY <1>1
  <2>2. ~ (d < e) /\ ~ (e < d)
    BY <1>2, <1>3, <2>1
  <2> QED
    BY <2>1, <2>2
<1>4. LineEnd(EndsUpTo(e)) = e
  BY <1>3 DEF LineEnd
<1>5. EndsUpTo(e) # 0
  <2> DEFINE D == {d \in Ends : d <= e}
  <2>0. e <= e
    BY <1>1
  <2>1. e \in D /\ EndsUpTo(e) = Cardinality(D)
    BY <2>0 DEF EndsUpTo
  <2>2. IsFiniteSet(D)
    BY EndsFacts
  <2> HIDE DEF D
  <2> QED
    BY <2>1, <2>2, FS_EmptySet
<1>6. EndsUpTo(e) \in Nat /\ EndsUpTo(e) <= Cardinality(Ends) /\ Cardinality(Ends) \in Nat
  BY EndsFacts
<1> QED
  BY <1>4, <1>5, <1>6

\* As many numbers as ends, and no two the same: every line has an end.
LEMMA EveryLineEnds ==
  ASSUME FileOK, NEW k \in 1 .. Cardinality(Ends)
  PROVE  LineEnd(k) \in Ends /\ EndsUpTo(LineEnd(k)) = k
<1> DEFINE N == Cardinality(Ends)
           T == 1 .. N
           f == [e \in Ends |-> EndsUpTo(e)]
<1>1. IsFiniteSet(Ends) /\ N \in Nat
  BY EndsFacts
<1> HIDE DEF N
<1>2. IsFiniteSet(T) /\ Cardinality(T) = N
  <2>1. 1 \in Int /\ N \in Int /\ (IF 1 > N THEN 0 ELSE N - 1 + 1) = N
    BY <1>1
  <2> QED
    BY ONLY <2>1, FS_Interval
<1> HIDE DEF T
<1>3. \A e \in Ends : EndsUpTo(e) \in T /\ LineEnd(EndsUpTo(e)) = e
  BY LineEndOf DEF T, N
<1>4. f \in [Ends -> T]
  BY <1>3
<1>5. \A c, d \in Ends : f[c] = f[d] => c = d
  BY <1>3
<1> HIDE DEF f
<1>6. f \in Injection(Ends, T)
  BY <1>4, <1>5 DEF Injection, IsInjective
<1>7. Cardinality(Ends) = Cardinality(T) <=> f \in Surjection(Ends, T)
  BY <1>2, <1>6, FS_Injection
<1>8. f \in Surjection(Ends, T)
  BY <1>2, <1>7 DEF N
<1>9. PICK e \in Ends : f[e] = k
  BY <1>8 DEF Surjection, T, N
<1>10. EndsUpTo(e) = k
  BY <1>9 DEF f
<1> QED
  BY <1>10 DEF LineEnd

AtLineEnd(p) == p = 0 \/ p \in Ends

\* If every line fits the buffer, or a smaller one, a call that starts where a line starts stops
\* where it ends.
LEMMA NextLine ==
  ASSUME FileOK, NEW p \in Nat, p < Len(file), AtLineEnd(p),
         NEW b \in Nat, b >= 2, NEW fit \in Nat, fit <= b, LinesFit(fit)
  PROVE  LET e == StopFrom(p, b)
             k == EndsUpTo(p) + 1
         IN  /\ e \in Ends /\ e \in Nat /\ p < e
             /\ EndsUpTo(e) = k
             /\ k \in 1 .. Cardinality(Ends)
             /\ LineEnd(k) = e
             /\ Lines[k] = PieceFrom(p, b)
<1> DEFINE n == Len(file)
           N == Cardinality(Ends)
           c == n + 2
           d == StopFrom(p, c)
           k == EndsUpTo(p) + 1
<1>1. n \in Nat /\ N \in Nat /\ EndsUpTo(p) \in Nat
  <2>1. n \in Nat
    BY DEF FileOK
  <2>2. N \in Nat
    BY EndsFacts
  <2>3. EndsUpTo(p) \in Nat
    BY EndsFacts
  <2> QED
    BY <2>1, <2>2, <2>3
<1>2. c \in Nat /\ c >= 2
  BY <1>1
<1>3. d \in p + 1 .. n /\ IsStop(p, c, d)
  BY <1>2, StopExists
<1>4. d \in Nat /\ p < d /\ d # p + c - 1
  BY <1>1, <1>3
<1> HIDE DEF d, n, c
<1>5. d \in Ends
  BY <1>1, <1>3, <1>4 DEF IsStop, Ends, FileOK, n
<1>6. \A j \in p + 1 .. d - 1 : j \notin Ends
  BY <1>1, <1>3, <1>4 DEF IsStop, Ends, n
<1>7. EndsUpTo(d) = k
  BY <1>4, <1>5, <1>6, NextEnd
<1>8. k \in 1 .. N /\ LineEnd(k) = d
  BY <1>5, <1>7, LineEndOf
<1>9. LineStart(k) = p + 1
  <2>1. CASE p = 0
    BY <2>1, EndsFacts DEF LineStart
  <2>2. CASE p # 0
    <3>1. p \in Ends
      BY <2>2 DEF AtLineEnd
    <3>2. EndsUpTo(p) \in 1 .. N /\ LineEnd(EndsUpTo(p)) = p
      BY <3>1, LineEndOf
    <3>3. k # 1 /\ k - 1 = EndsUpTo(p)
      BY <1>1, <3>2
    <3> QED
      BY <3>2, <3>3 DEF LineStart
  <2> QED
    BY <2>1, <2>2
<1> DEFINE last == IF file[d] = NL THEN d - 1 ELSE d
<1>10. Lines[k] = SubSeq(file, p + 1, last) /\ k \in DOMAIN Lines
  <2>1. LineEnd(k) = d
    BY <1>8
  <2> HIDE DEF k
  <2> QED
    BY <1>8, <1>9, <2>1 DEF Lines
<1> HIDE DEF k
<1>11. /\ last \in {d - 1, d} /\ last \in Nat /\ p <= last
       /\ \A j \in p + 1 .. last : file[j] \in Letters
  BY <1>1, <1>3, <1>4 DEF FileOK, n
<1> HIDE DEF last
<1>12. Len(SubSeq(file, p + 1, last)) = last - p
  BY <1>11, Section
<1>13. Len(Lines[k]) + 2 <= fit
  BY <1>10 DEF LinesFit
<1>14. d <= p + b - 1
  BY <1>4, <1>10, <1>11, <1>12, <1>13
<1>15. IsStop(p, b, d)
  BY <1>3, <1>4, <1>5, <1>6, <1>14 DEF IsStop, Ends, n
<1> DEFINE e == StopFrom(p, b)
<1>16. e \in p + 1 .. n /\ IsStop(p, b, e)
  BY StopExists DEF n
<1> HIDE DEF e
<1>17. e = d
  BY <1>3, <1>15, <1>16, StopUnique DEF n
<1>18. Lines[k] = PieceFrom(p, b)
  BY <1>10, <1>17 DEF PieceFrom, e, last
<1> QED
  BY <1>4, <1>5, <1>7, <1>8, <1>17, <1>18 DEF e, k

\* mkwords cuts off the newline, or the last letter if there is none.
LEMMA FrontOfLine ==
  ASSUME FileOK, NEW p \in Nat, p < Len(file), NEW b \in Nat, b >= 2
  PROVE  FrontFrom(p, b) = IF file[StopFrom(p, b)] = NL
                           THEN PieceFrom(p, b) ELSE Front(PieceFrom(p, b))
<1> DEFINE e == StopFrom(p, b)
<1>1. e \in p + 1 .. Len(file)
  BY StopExists
<1>2. FrontFrom(p, b) = SubSeq(file, p + 1, e - 1)
  BY DEF FrontFrom
<1>3. PieceFrom(p, b) = SubSeq(file, p + 1, IF file[e] = NL THEN e - 1 ELSE e)
  BY DEF PieceFrom
<1> HIDE DEF e
<1>4. Front(SubSeq(file, p + 1, e)) = SubSeq(file, p + 1, e - 1)
  BY <1>1, PieceShape DEF WithoutLast
<1> QED
  BY <1>2, <1>3, <1>4 DEF e

-----------------------------------------------------------------------------
(* Words, records and picked words are lines.                              *)

\* The lines up to pos are the words stored, or are counted.
LinesInv ==
  /\ reader = "read_words" /\ LinesFit(MAX_WORD_LENGTH) =>
       /\ AtLineEnd(pos)
       /\ Len(words) = EndsUpTo(pos)
       /\ \A k \in 1 .. Len(words) : words[k] = Lines[k]
  /\ reader = "mkwords" /\ LinesFit(SIZE) =>
       /\ AtLineEnd(pos)
       /\ Len(words) = EndsUpTo(pos)
       /\ \A k \in 1 .. Len(words) :
            words[k] = IF file[LineEnd(k)] = NL THEN Lines[k] ELSE Front(Lines[k])
  /\ reader = "get_file_length" /\ LinesFit(MAX_WORD) =>
       AtLineEnd(pos) /\ size = EndsUpTo(pos)
  /\ reader = "init_game" /\ LinesFit(MAX_WORD) =>
       /\ size = Cardinality(Ends)
       /\ status = "reading" => AtLineEnd(pos) /\ i = EndsUpTo(pos)
       /\ status = "done" => words = << Lines[index + 1] >>

LEMMA LinesInit ==
  ReadersInit => LinesInv
<1>0. SUFFICES ASSUME ReadersInit PROVE LinesInv
  OBVIOUS
<1>1. EndsUpTo(0) = 0
  BY <1>0, FileInit, EndsFacts
<1>2. Len(words) = 0 /\ pos = 0 /\ size = 0 /\ reader # "init_game"
  BY <1>0 DEF ReadersInit
<1> QED
  BY <1>1, <1>2 DEF LinesInv, AtLineEnd

LEMMA LinesStep ==
  TypeInv /\ IndexInv /\ LinesInv /\ [ReadersNext]_vars => LinesInv'
<1>0. SUFFICES ASSUME TypeInv, IndexInv, LinesInv, [ReadersNext]_vars PROVE LinesInv'
  OBVIOUS
<1>1. FileOK /\ ReadersTypeOK /\ words \in Seq(Seq(Letters))
  BY <1>0 DEF TypeInv
<1>2. Len(file) \in Nat /\ pos \in 0 .. Len(file) /\ pos \in Nat
  BY <1>1 DEF FileOK, ReadersTypeOK
<1>3. /\ MAX_WORD_LENGTH \in Nat /\ MAX_WORD_LENGTH >= 2
      /\ SIZE \in Nat /\ SIZE >= 2
      /\ MAX_WORD \in Nat /\ MAX_WORD >= 2
      /\ MAX_MSG \in Nat /\ MAX_MSG >= 2 /\ MAX_WORD <= MAX_MSG
  BY ReadersAssumption
<1>4. ASSUME file' = file
      PROVE  /\ Ends' = Ends /\ Lines' = Lines
             /\ \A b : LinesFit(b)' <=> LinesFit(b)
             /\ \A p : AtLineEnd(p)' <=> AtLineEnd(p)
             /\ \A e : EndsUpTo(e)' = EndsUpTo(e)
             /\ \A k : LineEnd(k)' = LineEnd(k)
  <2>1. Ends' = Ends
    BY <1>4 DEF Ends
  <2>2. \A e : EndsUpTo(e)' = EndsUpTo(e)
    BY <2>1 DEF EndsUpTo
  <2>3. \A k : LineEnd(k)' = LineEnd(k)
    BY <2>1 DEF LineEnd, EndsUpTo
  <2>4. \A k : LineStart(k)' = LineStart(k)
    BY <2>3 DEF LineStart
  <2>5. Lines' = Lines
    BY <1>4, <2>1, <2>3, <2>4 DEF Lines
  <2> QED
    BY <2>1, <2>2, <2>3, <2>5 DEF LinesFit, AtLineEnd
<1>5. CASE ReadWord
  <2>0. /\ reader = "read_words" /\ ~ AtEnd
        /\ words' = Append(words, WithoutNewline(fgets(MAX_WORD_LENGTH)))
        /\ pos' = Stops(MAX_WORD_LENGTH)
        /\ file' = file /\ reader' = reader
    BY <1>5 DEF ReadWord
  <2>1. SUFFICES ASSUME LinesFit(MAX_WORD_LENGTH)
                 PROVE  /\ AtLineEnd(pos')
                        /\ Len(words') = EndsUpTo(pos')
                        /\ \A k \in 1 .. Len(words') : words'[k] = Lines[k]
    BY <1>4, <2>0 DEF LinesInv
  <2> DEFINE w == PieceFrom(pos, MAX_WORD_LENGTH)
             e == StopFrom(pos, MAX_WORD_LENGTH)
             f == words'
  <2>2. /\ AtLineEnd(pos) /\ Len(words) = EndsUpTo(pos)
        /\ \A k \in 1 .. Len(words) : words[k] = Lines[k]
    BY <1>0, <2>0, <2>1 DEF LinesInv
  <2>3. pos < Len(file) /\ words' = Append(words, w) /\ pos' = e
    BY <1>1, <1>2, <1>3, <2>0, Reading
  <2>4. w \in Seq(Letters)
    BY <1>1, <1>2, <1>3, <2>3, PieceFits
  <2>5. e \in Ends /\ EndsUpTo(e) = EndsUpTo(pos) + 1 /\ Lines[EndsUpTo(pos) + 1] = w
    BY <1>1, <1>2, <1>3, <2>1, <2>2, <2>3, NextLine
  <2> HIDE DEF w, e
  <2>6. /\ Len(words) \in Nat /\ Len(f) = Len(words) + 1
        /\ \A k \in 1 .. Len(words) : f[k] = words[k]
        /\ f[Len(words) + 1] = w
    <3> DEFINE S == Seq(Letters)
    <3>1. words \in Seq(S) /\ w \in S
      BY <1>1, <2>4
    <3> HIDE DEF S
    <3>2. /\ Len(words) \in Nat /\ Len(Append(words, w)) = Len(words) + 1
          /\ \A k \in 1 .. Len(words) : Append(words, w)[k] = words[k]
          /\ Append(words, w)[Len(words) + 1] = w
      BY ONLY <3>1, AppendWord
    <3> QED
      BY <2>3, <3>2
  <2> HIDE DEF f
  <2>7. ASSUME NEW k \in 1 .. Len(f) PROVE f[k] = Lines[k]
    BY <2>2, <2>5, <2>6
  <2> QED
    BY <2>2, <2>3, <2>5, <2>6, <2>7 DEF AtLineEnd, f
<1>6. CASE MakeRecord
  <2>0. /\ reader = "mkwords" /\ ~ AtEnd
        /\ words' = Append(words, WithoutLast(fgets(SIZE)))
        /\ pos' = Stops(SIZE)
        /\ file' = file /\ reader' = reader
    BY <1>6 DEF MakeRecord
  <2> DEFINE Made(k) == IF file[LineEnd(k)] = NL THEN Lines[k] ELSE Front(Lines[k])
  <2>1. SUFFICES ASSUME LinesFit(SIZE)
                 PROVE  /\ AtLineEnd(pos')
                        /\ Len(words') = EndsUpTo(pos')
                        /\ \A k \in 1 .. Len(words') : words'[k] = Made(k)
    BY <1>4, <2>0 DEF LinesInv
  <2> DEFINE w == FrontFrom(pos, SIZE)
             v == PieceFrom(pos, SIZE)
             e == StopFrom(pos, SIZE)
             f == words'
             n == EndsUpTo(pos) + 1
  <2>2. /\ AtLineEnd(pos) /\ Len(words) = EndsUpTo(pos)
        /\ \A k \in 1 .. Len(words) : words[k] = Made(k)
    BY <1>0, <2>0, <2>1 DEF LinesInv
  <2>3. pos < Len(file) /\ words' = Append(words, w) /\ pos' = e
    BY <1>1, <1>2, <1>3, <2>0, Reading
  <2>4. w \in Seq(Letters)
    BY <1>1, <1>2, <1>3, <2>3, PieceFits
  <2>5. e \in Ends /\ EndsUpTo(e) = n /\ Lines[n] = v /\ LineEnd(n) = e
    BY <1>1, <1>2, <1>3, <2>1, <2>2, <2>3, NextLine
  <2>6. w = IF file[e] = NL THEN v ELSE Front(v)
    BY <1>1, <1>2, <1>3, <2>3, FrontOfLine
  <2> HIDE DEF w, e, v, n
  <2>7. w = Made(n)
    BY <2>5, <2>6
  <2> HIDE DEF Made
  <2>8. /\ Len(words) \in Nat /\ Len(f) = Len(words) + 1
        /\ \A k \in 1 .. Len(words) : f[k] = words[k]
        /\ f[Len(words) + 1] = w
    <3> DEFINE S == Seq(Letters)
    <3>1. words \in Seq(S) /\ w \in S
      BY <1>1, <2>4
    <3> HIDE DEF S
    <3>2. /\ Len(words) \in Nat /\ Len(Append(words, w)) = Len(words) + 1
          /\ \A k \in 1 .. Len(words) : Append(words, w)[k] = words[k]
          /\ Append(words, w)[Len(words) + 1] = w
      BY ONLY <3>1, AppendWord
    <3> QED
      BY <2>3, <3>2
  <2> HIDE DEF f
  <2>9. ASSUME NEW k \in 1 .. Len(f) PROVE f[k] = Made(k)
    <3>1. k \in 1 .. Len(words) \/ k = Len(words) + 1
      BY <2>8
    <3>2. Len(words) + 1 = n
      BY <2>2 DEF n
    <3> QED
      BY <2>2, <2>7, <2>8, <3>1, <3>2
  <2> QED
    BY <2>2, <2>3, <2>5, <2>8, <2>9 DEF AtLineEnd, f, n
<1>7. CASE FileRead
  BY <1>0, <1>4, <1>7 DEF FileRead, LinesInv
<1>8. CASE CountLine
  <2>0. /\ reader = "get_file_length" /\ ~ AtEnd
        /\ size' = size + 1 /\ pos' = Stops(MAX_MSG)
        /\ file' = file /\ reader' = reader
    BY <1>8 DEF CountLine, CountSize
  <2>1. SUFFICES ASSUME LinesFit(MAX_WORD)
                 PROVE  AtLineEnd(pos') /\ size' = EndsUpTo(pos')
    BY <1>4, <2>0 DEF LinesInv
  <2>2. AtLineEnd(pos) /\ size = EndsUpTo(pos)
    BY <1>0, <2>0, <2>1 DEF LinesInv
  <2>3. pos < Len(file) /\ pos' = StopFrom(pos, MAX_MSG)
    BY <1>1, <1>2, <1>3, <2>0, Reading
  <2>4. StopFrom(pos, MAX_MSG) \in Ends
        /\ EndsUpTo(StopFrom(pos, MAX_MSG)) = EndsUpTo(pos) + 1
    BY <1>1, <1>2, <1>3, <2>1, <2>2, <2>3, NextLine
  <2> QED
    BY <2>0, <2>2, <2>3, <2>4 DEF AtLineEnd
<1>9. CASE DivideByZero
  BY <1>0, <1>4, <1>9 DEF DivideByZero, LinesInv
<1>10. CASE InitGame
  <2>0. /\ pos' = 0 /\ reader' = "init_game" /\ i' = 0 /\ status' = "reading"
        /\ file' = file /\ size' = size
    BY <1>10 DEF InitGame, Rewound
  <2>1. SUFFICES ASSUME LinesFit(MAX_WORD)
                 PROVE  /\ size = Cardinality(Ends)
                        /\ AtLineEnd(0) /\ EndsUpTo(0) = 0
    BY <1>4, <2>0 DEF LinesInv
  <2>2. EndsUpTo(0) = 0 /\ EndsUpTo(Len(file)) = Cardinality(Ends)
    BY <1>1, EndsFacts
  <2>3. CASE reader = "get_file_length" /\ AtEnd
    BY <1>0, <2>1, <2>2, <2>3 DEF LinesInv, AtEnd, AtLineEnd
  <2>4. CASE reader = "init_game"
    BY <1>0, <2>1, <2>2, <2>4 DEF LinesInv, AtLineEnd
  <2> QED
    BY <1>10, <2>3, <2>4 DEF InitGame
<1>11. CASE NextEntry
  <2>0. /\ reader = "init_game" /\ status = "reading"
        /\ file' = file /\ reader' = reader /\ size' = size /\ index' = index
    BY <1>11 DEF NextEntry
  <2>1. SUFFICES ASSUME LinesFit(MAX_WORD)
                 PROVE  /\ size = Cardinality(Ends)
                        /\ status' = "reading" => AtLineEnd(pos') /\ i' = EndsUpTo(pos')
                        /\ status' = "done" => words' = << Lines[index + 1] >>
    BY <1>4, <2>0 DEF LinesInv
  <2>2. AtLineEnd(pos) /\ i = EndsUpTo(pos) /\ size = Cardinality(Ends)
    BY <1>0, <2>0, <2>1 DEF LinesInv
  <2>3. CASE AtEnd
    <3>1. status' = "failed"
      BY <1>11, <2>3 DEF NextEntry
    <3> QED
      BY <2>2, <3>1
  <2>4. CASE ~ AtEnd
    <3>1. /\ pos < Len(file) /\ Stops(MAX_WORD) = StopFrom(pos, MAX_WORD)
          /\ WithoutNewline(fgets(MAX_WORD)) = PieceFrom(pos, MAX_WORD)
      BY <1>1, <1>2, <1>3, <2>4, Reading
    <3>2. /\ StopFrom(pos, MAX_WORD) \in Ends
          /\ EndsUpTo(StopFrom(pos, MAX_WORD)) = EndsUpTo(pos) + 1
          /\ Lines[EndsUpTo(pos) + 1] = PieceFrom(pos, MAX_WORD)
      BY <1>1, <1>2, <1>3, <2>1, <2>2, <3>1, NextLine
    <3>3. CASE i = index
      <4>1. status' = "done" /\ words' = << PieceFrom(pos, MAX_WORD) >>
        BY <1>11, <2>4, <3>1, <3>3 DEF NextEntry, PickSize
      <4> QED
        BY <2>2, <3>2, <3>3, <4>1
    <3>4. CASE i # index
      <4>1. status' = "reading" /\ pos' = StopFrom(pos, MAX_WORD) /\ i' = i + 1
        BY <1>11, <2>0, <2>4, <3>1, <3>4 DEF NextEntry, PickSize
      <4> QED
        BY <2>2, <3>2, <4>1 DEF AtLineEnd
    <3> QED
      BY <3>3, <3>4
  <2> QED
    BY <2>3, <2>4
<1>12. CASE Finished \/ UNCHANGED vars
  BY <1>0, <1>4, <1>12 DEF Finished, vars, LinesInv
<1> QED
  BY <1>0, <1>5, <1>6, <1>7, <1>8, <1>9, <1>10, <1>11, <1>12 DEF ReadersNext

LEMMA ReadersInvariant ==
  ReadersSpec => [](TypeInv /\ IndexInv /\ LinesInv)
BY TypeInit, TypeStep, IndexInit, IndexStep, LinesInit, LinesStep, PTL DEF ReadersSpec

LEMMA LinesLength ==
  ASSUME FileOK
  PROVE  /\ DOMAIN Lines = 1 .. Cardinality(Ends)
         /\ Len(Lines) = Cardinality(Ends)
<1> DEFINE N == Cardinality(Ends)
           L == Lines
           S == {L[k] : k \in 1 .. N}
<1>1. N \in Nat
  BY EndsFacts
<1>2. DOMAIN L = 1 .. N /\ L = [k \in 1 .. N |-> L[k]]
  BY DEF Lines
<1> HIDE DEF N, L
<1>3. L \in [1 .. N -> S]
  BY <1>2
<1>4. L \in Seq(S)
  BY <1>1, <1>3, SeqDef
<1> QED
  BY <1>1, <1>2, <1>4 DEF N, L

\* If a line needs at most MAX_WORD_LENGTH - 2 letters, the words read_words
\* has stored are the first lines of the file, and all of them when it returns
\* (reading.c:27-40).
THEOREM WordsAreTheLines ==
  ReadersSpec => []WordsAreLines
<1>1. TypeInv /\ LinesInv => WordsAreLines
  <2>0. SUFFICES ASSUME TypeInv, LinesInv,
                        reader = "read_words", LinesFit(MAX_WORD_LENGTH)
                 PROVE  /\ IsPrefix(words, Lines)
                        /\ status = "done" => words = Lines
    BY DEF WordsAreLines
  <2> DEFINE n == Len(words)
             N == Cardinality(Ends)
             L == Lines
  <2>1. FileOK /\ words \in Seq(Seq(Letters)) /\ n \in Nat
    BY <2>0 DEF TypeInv
  <2>2. n = EndsUpTo(pos) /\ \A k \in 1 .. n : words[k] = L[k]
    BY <2>0 DEF LinesInv
  <2>3. /\ N \in Nat /\ DOMAIN L = 1 .. N /\ Len(L) = N
        /\ EndsUpTo(pos) <= N /\ EndsUpTo(Len(file)) = N
    BY <2>1, EndsFacts, LinesLength
  <2>4. L = [k \in DOMAIN L |-> L[k]]
    BY DEF Lines
  <2> HIDE DEF L, N
  <2>5. \A k \in 1 .. n : words[k] \in Seq(Letters) /\ L[k] \in Seq(Letters)
    BY <2>1, <2>2
  <2>6. SubSeq(words, 1, n) = SubSeq(L, 1, n)
    <3> DEFINE s == SubSeq(words, 1, n)
               t == SubSeq(L, 1, n)
    <3>0. 0 <= n /\ 0 + 1 = 1 /\ n - 0 = n /\ \A k \in 1 .. n : 0 + k = k
      BY <2>1
    <3>1. s \in Seq(Seq(Letters)) /\ Len(s) = n /\ \A k \in 1 .. n : s[k] = words[k]
      BY <2>1, <2>5, <3>0, Section
    <3>2. t \in Seq(Seq(Letters)) /\ Len(t) = n /\ \A k \in 1 .. n : t[k] = L[k]
      BY <2>1, <2>5, <3>0, Section
    <3> HIDE DEF s, t
    <3>3. \A k \in 1 .. n : s[k] = t[k]
      BY <2>2, <3>1, <3>2
    <3>4. s = t
      BY <3>1, <3>2, <3>3, SeqEqual
    <3> QED
      BY <3>4 DEF s, t
  <2>7. IsPrefix(words, L)
    BY <2>2, <2>3, <2>6 DEF IsPrefix
  <2>8. ASSUME status = "done" PROVE words = L
    <3>1. pos = Len(file)
      BY <2>0, <2>8 DEF TypeInv, AtEnd
    <3>2. n = N
      BY <2>2, <2>3, <3>1
    <3>3. words = [k \in 1 .. n |-> words[k]]
      BY <2>1
    <3> QED
      BY <2>2, <2>3, <2>4, <3>2, <3>3
  <2> QED
    BY <2>7, <2>8 DEF L
<1> QED
  BY <1>1, ReadersInvariant, PTL

\* If no line needs more than sizeof(record.word) - 2 letters, mkwords makes one
\* record of each line it reads, in their order, and one that is ended by a
\* newline is kept whole, whatever the length of the file (mkwords.c:72-80).
THEOREM EndedLinesAreKept ==
  ReadersSpec => []EndedLinesKept
<1>1. TypeInv /\ LinesInv => EndedLinesKept
  <2>1. TypeInv => DOMAIN words = 1 .. Len(words)
    BY DEF TypeInv
  <2> QED
    BY <2>1 DEF LinesInv, EndedLinesKept
<1> QED
  BY <1>1, ReadersInvariant, PTL

\* If a line needs at most MAX_WORD - 2 letters, the word of a round is the
\* line with the index that was drawn, and every line has one (gameplay.c:49-68).
THEOREM PickIsALine ==
  ReadersSpec => []PickIsLine
<1>1. TypeInv /\ LinesInv => PickIsLine
  <2>1. TypeInv => Len(Lines) = Cardinality(Ends)
    BY LinesLength DEF TypeInv
  <2> QED
    BY <2>1 DEF LinesInv, PickIsLine
<1> QED
  BY <1>1, ReadersInvariant, PTL
=============================================================================
