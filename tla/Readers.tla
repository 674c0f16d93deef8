------------------------------ MODULE Readers ------------------------------
(***************************************************************************)
(* The loops that read a text file of one word per line with fgets into a  *)
(* buffer: read_words of wheel, main of mkwords, and get_file_length       *)
(* followed by init_game in the word game server.                          *)
(*                                                                         *)
(* A character that is not a newline is its place in the file, so that no  *)
(* two are the same.  Each reader is a function of the file it has still   *)
(* to read; sizes are those of the buffers, with the NUL.                  *)
(***************************************************************************)
EXTENDS Integers, FiniteSets, SequencesExt

CONSTANTS
  MAX_WORD_LENGTH,  \* read_words' fgets reads less than this
  SIZE,             \* a word of a record of mkwords
  MAX_WORD,         \* init_game's buffer
  MAX_MSG,          \* get_file_length's buffer
  MaxFile,          \* bound on the characters of a file
  NL                \* newline

ASSUME ReadersAssumption ==
  /\ MAX_WORD_LENGTH \in Nat /\ MAX_WORD_LENGTH >= 2
  /\ SIZE \in Nat /\ SIZE >= 2
  /\ MAX_WORD \in Nat /\ MAX_WORD >= 2
  /\ MAX_MSG \in Nat /\ MAX_MSG >= MAX_WORD
  /\ MaxFile \in Nat
  /\ NL \notin 1 .. MaxFile

VARIABLES
  file,     \* the characters
  reader,   \* read_words, mkwords, get_file_length, init_game
  pos,      \* the characters read
  words,    \* what has been stored: the words, or the word picked
  size,     \* get_file_length's count
  index,    \* the line init_game looks for, counted from 0
  i,        \* the lines it has read before that
  status    \* reading, done, failed or crashed

vars == << file, reader, pos, words, size, index, i, status >>

Files ==
  UNION {{[k \in 1 .. n |-> IF k \in breaks THEN NL ELSE k] :
            breaks \in SUBSET (1 .. n)} : n \in 0 .. MaxFile}

ReadersInit ==
  /\ file \in Files
  /\ reader \in {"read_words", "mkwords", "get_file_length"}
  /\ pos = 0
  /\ words = << >>
  /\ size = 0
  /\ index = 0
  /\ i = 0
  /\ status = "reading"

AtEnd == pos = Len(file)

\* Where a call of fgets stops: after a newline, when the buffer is full
\* (bufsize - 1 characters), or at the end of the file.
Stops(bufsize) ==
  CHOOSE e \in pos + 1 .. Len(file) :
    /\ e = Len(file) \/ file[e] = NL \/ e = pos + bufsize - 1
    /\ \A k \in pos + 1 .. e - 1 : file[k] # NL /\ k # pos + bufsize - 1

fgets(bufsize) == SubSeq(file, pos + 1, Stops(bufsize))

Whole(buf) == buf  \* slip: the newline stays

WithoutLast(buf) == Front(buf)

WithoutNewline(buf) == IF Last(buf) = NL THEN Front(buf) ELSE buf

\* One iteration of read_words' loop.
ReadWord ==
  /\ reader = "read_words"
  /\ ~ AtEnd
  /\ words' = Append(words, WithoutNewline(fgets(MAX_WORD_LENGTH)))
  /\ pos' = Stops(MAX_WORD_LENGTH)
  /\ UNCHANGED << file, reader, size, index, i, status >>

\* mkwords takes the last character off, whatever it is.
MakeRecord ==
  /\ reader = "mkwords"
  /\ ~ AtEnd
  /\ words' = Append(words, WithoutLast(fgets(SIZE)))
  /\ pos' = Stops(SIZE)
  /\ UNCHANGED << file, reader, size, index, i, status >>

FileRead ==
  /\ reader \in {"read_words", "mkwords"}
  /\ status = "reading"
  /\ AtEnd
  /\ status' = "done"
  /\ UNCHANGED << file, reader, pos, words, size, index, i >>

CountSize == MAX_MSG

PickSize == MAX_WORD

CountLine ==
  /\ reader = "get_file_length"
  /\ ~ AtEnd
  /\ size' = size + 1
  /\ pos' = Stops(CountSize)
  /\ UNCHANGED << file, reader, words, index, i, status >>

\* random() % 0.
DivideByZero ==
  /\ reader = "get_file_length"
  /\ status = "reading"
  /\ AtEnd
  /\ size = 0
  /\ status' = "crashed"
  /\ UNCHANGED << file, reader, pos, words, size, index, i >>

NoRewind == pos  \* slip: init_game goes on where it stopped

Rewound == 0

\* init_game for the first round opens the dictionary, for a later one it goes
\* back to its start.
InitGame ==
  /\ \/ reader = "get_file_length" /\ AtEnd /\ size > 0 /\ pos' = 0
     \/ reader = "init_game" /\ status = "done" /\ pos' = Rewound
  /\ reader' = "init_game"
  /\ index' \in 0 .. size - 1
  /\ i' = 0
  /\ status' = "reading"
  /\ words' = << >>
  /\ UNCHANGED << file, size >>

\* One iteration of init_game's loop; the last one leaves the word, unless the
\* file ended before the entry was found.
NextEntry ==
  /\ reader = "init_game"
  /\ status = "reading"
  /\ IF AtEnd
     THEN status' = "failed" /\ UNCHANGED << pos, words, i >>
     ELSE /\ pos' = Stops(PickSize)
          /\ IF i = index
             THEN /\ words' = << WithoutNewline(fgets(PickSize)) >>
                  /\ status' = "done"
                  /\ i' = i
             ELSE i' = i + 1 /\ UNCHANGED << words, status >>
  /\ UNCHANGED << file, reader, size, index >>

Finished ==
  /\ \/ status \in {"failed", "crashed"}
     \/ status = "done" /\ reader # "init_game"
  /\ UNCHANGED vars

ReadersNext == ReadWord \/ MakeRecord \/ FileRead \/ CountLine \/ DivideByZero
                 \/ InitGame \/ NextEntry \/ Finished

ReadersSpec == ReadersInit /\ [][ReadersNext]_vars

-----------------------------------------------------------------------------
(* Properties.                                                             *)

\* Where lines end; the last one may have no newline.
Ends == {e \in DOMAIN file : file[e] = NL \/ e = Len(file)}

EndsUpTo(e) == Cardinality({d \in Ends : d <= e})

LineEnd(k) == CHOOSE e \in Ends : EndsUpTo(e) = k

LineStart(k) == IF k = 1 THEN 1 ELSE LineEnd(k - 1) + 1

\* The lines of the file.
Lines ==
  [k \in 1 .. Cardinality(Ends) |->
     LET e == LineEnd(k)
     IN  SubSeq(file, LineStart(k), IF file[e] = NL THEN e - 1 ELSE e)]

\* With its newline and the NUL every line fits a buffer.
LinesFit(bufsize) == \A k \in DOMAIN Lines : Len(Lines[k]) + 2 <= bufsize

ReadersTypeOK ==
  /\ reader \in {"read_words", "mkwords", "get_file_length", "init_game"}
  /\ status \in {"reading", "done", "failed", "crashed"}
  /\ pos \in 0 .. Len(file)
  /\ \A k \in DOMAIN words :
       Len(words[k]) < CASE reader = "read_words" -> MAX_WORD_LENGTH
                         [] reader = "mkwords" -> SIZE
                         [] reader = "init_game" -> MAX_WORD
  /\ size \in 0 .. Len(file)
  /\ reader = "init_game" => index \in 0 .. size - 1 /\ i \in 0 .. index

\* Long lines become several words, but whatever the lengths of the lines and
\* whether or not the last one ends, read_words loses no letter and moves none
\* (reading.c:27-40).
NoLetterLost ==
  reader = "read_words" =>
    /\ UNION {Range(words[k]) : k \in DOMAIN words}
         = {file[c] : c \in 1 .. pos} \ {NL}
    /\ \A k, l \in DOMAIN words :
         \A m \in DOMAIN words[k], n \in DOMAIN words[l] :
           k < l \/ (k = l /\ m < n) => words[k][m] < words[l][n]

\* The words read_words returns are the lines of the file, if their length is
\* MAX_WORD_LENGTH - 2 at most (reading.c:27-40).
WordsAreLines ==
  reader = "read_words" /\ LinesFit(MAX_WORD_LENGTH) =>
    /\ IsPrefix(words, Lines)
    /\ status = "done" => words = Lines

\* mkwords makes one record of each line it reads, in their order, and one that
\* is ended by a newline is kept whole, if no line is longer than
\* sizeof(record.word) - 2 (mkwords.c:72-80).
EndedLinesKept ==
  reader = "mkwords" /\ LinesFit(SIZE) =>
    /\ Len(words) = EndsUpTo(pos)
    /\ \A k \in DOMAIN words : file[LineEnd(k)] = NL => words[k] = Lines[k]

\* "Expects the input file to have one word per line", "remove the newline
\* character" (mkwords.c:71, 73): the records hold the lines of a file that is
\* as expected.
RecordsAreLines ==
  reader = "mkwords" /\ status = "done" /\ LinesFit(SIZE) => words = Lines

\* The file never ends before the entry is found: get_file_length, with the
\* bigger buffer, counts no more pieces than init_game reads, on any file and
\* in any round (gameplay.c:41-56, 91-92).
IndexFound == status # "failed"

\* The word of a round is a line of the dictionary, and each line may be
\* chosen, if no line is longer than MAX_WORD - 2 (gameplay.c:49-68).
PickIsLine ==
  reader = "init_game" /\ status = "done" /\ LinesFit(MAX_WORD) =>
    /\ size = Len(Lines)
    /\ words = << Lines[index + 1] >>
=============================================================================
