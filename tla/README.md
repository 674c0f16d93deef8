# Models of works-in-C

The repository holds three programs in C: a multi-player word game server
(`src/word game server/`), a sort that splits its work over child processes
(`src/multi processor merge/`, `psort` with its generator `mkwords`) and a
hang-man game that cheats (`src/hang-man word game/`, `wheel`). This directory
models all three, with TLC runs and TLAPS proofs. `PROJECT.json` maps every
definition to the lines it models.

## Inventory

### Word game server

One process, one thread. `main` (wordsrv.c:224-540) sets up a listening socket
and then repeats: copy `allset`, `select`, accept at most one connection, scan
the ready descriptors in ascending order, and for each one look for its client
in two linked lists and handle what it sent.

| component | state | operations |
|---|---|---|
| hang-man game (gameplay.c, wordsrv.c:346-392) | `word`, `guess` (the board), `letters_guessed`, `guesses_left` | `init_game`, an accepted guess, `status_message` |
| players and turns (wordsrv.c) | list `game.head`, pointer `game.has_next_turn` | join, move (`advance_turn`), leave in turn and out of turn |
| connections and handlers (wordsrv.c) | `allset`, `maxfd`, `rset`, `new_players`, each client's `name` and `inbuf`/`in_ptr`, the loop variable `p` | select, accept and greet, read a part of a line, a name, a guess, a line out of turn, a disconnect from either list |
| socket set-up (socket.c) | none after start-up | `init_server_addr`, `set_up_server_socket`, `accept_connection` |

They interact by calls and shared state: the handlers change the game, then the
turn, then announce both; a client moves from `new_players` to `game.head` when
its name is accepted. What is hard: clients act between any two steps of the
server; a client joins, moves between lists or leaves in the middle of a scan
over a copy of `allset`; descriptors are reused; `has_next_turn` is dereferenced
without a check, so it must never be left on a freed struct; lines arrive in
pieces or several at once; connections break while others are being told.

It is correct when: the board and the counter agree with the letters guessed
and the round can be won; the turn pointer is always a player of the list, no
player is starved; lists, `allset`, open descriptors and `maxfd` agree; names
differ; everybody has been told what is so; input and hang-ups are handled.

### psort and mkwords

`psort` reads records of a word and a frequency from a binary file, forks
children that each sort a chunk and write it record by record into a pipe, and
merges the chunks. State: the parent's pipe ends and child count, the chunk
sizes, each child's position in its chunk, the pipe contents, the merge array.
Operations: option parsing, `read_rec_num` (partition), fork/pipe/close, child
sort and write, parent wait, `merge`. Hard: a child that fails or is killed,
`read` that returns 0 or less than a record, closing order of the pipe ends,
chunks of unequal size, no records or no chunks. Correct when: the output is a
sorted permutation of the input, or the program reports failure; everybody
terminates. `mkwords` turns a text file into such records, one for each line;
it is correct when no line is lost, split or cut.

### wheel

`wheel` plays hang-man with one player and keeps its freedom: it holds all words
that fit what it has shown, and at each guess partitions them into families by
where the letter occurs and keeps the biggest (`family.c`). State: the board,
the letters guessed, the remaining words, the family table. Operations: read the
dictionary (`reading.c`), choose a length, `play_round`, `generate_families`,
`find_biggest_family`, `get_new_word_list`. Hard: the relation between board,
letters and remaining words over a round, tables that grow, end of input in the
middle of the dialogue. Correct when: the remaining words are exactly those that
explain what the player has been shown, and never none; the families divide the
words and fit their arrays; the chosen family is a biggest one; the player can
always go on, and is told at the end of a round a word that all answers are true
of; the words read are the lines of the dictionary.

Data files, Makefiles and the binary `wordsrv` have no behaviour to model.

## Modules

| module | what it is |
|---|---|
| `Gameplay` | the hang-man game: `GameInit`, `Guess` (win, lose or continue a round, with `init_game` as part of the same step), `StatusLength` |
| `Turns` | list and turn pointer: `Join`, `Move`, `Leave` |
| `GameState` | `struct game_state` as a whole: extends `Gameplay` and `Turns`, with a guess and the turn it passes on as one step, and players who come and leave during a round |
| `WordGame` | abstract specification: players with names, a turn, `Enter`, `Play`, `Quit`; no sockets, lists or buffers |
| `WordServer` | the server: extends `Gameplay` and `Turns` and performs their actions inside its handlers; clients and network as the environment |
| `Merge` | psort's partition (`read_rec_num`) and k-way merge, down to the moves in `merge_array` |
| `Sort` | abstract specification: the input ends sorted, or psort fails |
| `PSort` | psort: parent, children and pipes; extends `Merge` and performs its steps as the parent's last phase; implements `Sort` |
| `Families` | wheel's families of words: signatures, arrays that grow, the choice of the biggest |
| `Wheel` | rounds of wheel's hang-man and the dialogue around them; extends `Families`; implements `HangMan` |
| `HangMan` | abstract specification: an honest game of hang-man, without families and without a word chosen in advance |
| `Readers` | the loops of `read_words`, `mkwords`, `get_file_length` and `init_game` that read a file of lines with `fgets` |
| `GameplayProofs`, `TurnsProofs`, `WordServerProofs`, `MergeProofs`, `PSortProofs`, `FamiliesProofs`, `WheelProofs`, `ReadersProofs` | theorems and their proofs |
| `MCGameState`, `MCWordServer`, `MCPSort`, `MCWheel`, `MCReaders` | instances for TLC, with the `.cfg` files |

Definitions marked "slip" in the comments are plausible programming errors. No
specification uses them; substituted for the definition they stand before, they
break the property that is there to notice them.

### How the server's state and steps correspond

* `head`, `new_players`: the two lists as sequences of descriptors, newest first
  (`add_player` and a newcomer's struct go to the head). A `struct client` is
  identified with its descriptor; `Players` is the set of descriptors `accept`
  can return, and the lowest free one is taken.
* `conn[f]`: `free`, `open`, `eof` (orderly close by the peer) or `reset`
  (broken: what has arrived can be read, then `read` gives -1; writes fail).
* `inq[f]` is what the kernel holds, `inbuf[f]` what the program holds between
  `inbuf` and `in_ptr`. A `read` takes everything; a line is complete if what
  has been read so far *ends* with CR LF, as the code tests it. CR LF is one
  symbol, `EOL`.
* `rset` is the set `select` filled in, less the descriptors already handled:
  one step of the model is `Select`, `Accept` or the handler of one descriptor.
* `status` is `up` or why the process stopped. A failed write is either
  caught by the check after it or turns into SIGPIPE; both end the process, and
  where the result is not checked the model chooses between SIGPIPE and going on
  (the error may be ECONNRESET, without the signal).
* `p` is where the loop variable of the two lists was left. It matters for one
  branch: after a failed greeting `main` uses `p->fd` before any loop has
  assigned it in this iteration. `GreetingFails` gives the possible outcomes.
* `shown[f]`, `asked` are what players were last told: the game state, and
  "Your guess?".

A handler is one step although it contains several writes: between two of them
nothing the server has not read yet can influence it, except a connection that
breaks, and then the process exits with nothing left to observe.

Assumptions: clients end lines with CR LF and keep lines within `MAX_BUF` and
names within `MAX_NAME`; writes do not block; `select` and `malloc` do not fail.
The dictionary has a word, no empty line, and lower-case letters only.

### How psort's state and steps correspond

* `argv` holds the options of the command line, in any order, until the loop
  over `getopt` has taken them; `named` is what the pointer `infile` of `main`
  points to, which after `-n` is the number. The variable `infile` of the model
  is the contents of the file.
* `parent` is the part of `main` the parent is in, `index` its loop variable,
  `read_offset` the variable of that name. `from[i]` is the value a child
  inherits at `fork`. A record is its frequency and, for its word, its place in
  the input file; `compare_freq` looks at the frequency only, so `qsort` may
  leave equal records in any order, and so may the merge.
* `child[i]` is `forked` until the child has closed the reading ends it
  inherited, read its chunk and sorted it, then `writing`. Nothing outside sees
  the single steps of that, so they are one; a failure in between is
  `FailChild`.
* A record is shorter than PIPE_BUF, so that a write is atomic and a pipe always
  holds whole records: it is a queue of at most `PipeSize` records. `HasWriter`
  and `HasReader` say which processes hold an end. A read at the end of the
  pipe returns 0, which the code takes for a record: what `malloc` left in the
  memory is a record of any frequency and no word (`NoWord`).
* `wait` returns any child that has ended. `WEXITSTATUS` of its status is not 0
  only if it called `exit(1)`.
* Every check of a system call is `FailChild` or `FailParent`: the process may
  fail at any point. A parent that fails leaves its children running; the next
  write of one of them is `BrokenPipe`.
* `merge_array` is the array's first `merge_array_size` entries. `qsort` gives any
  order of them by frequency. The first is then written and shows the next record
  of its chunk (`WithNext`), or the last one is moved over it and the array is one
  shorter (`WithoutFirst`).

Assumptions: each option is given once (or one of them is unknown), at least one
process is asked for, no file has the number as its name, the file does not
change while psort runs, no system call is interrupted.

### How wheel's state and steps correspond

* The program is sequential; its environment is the player. `at` is the place in
  `main`, `play_round` or one of the loops they call, `added` the position of
  the loop over the words (`prune_word_list`, `generate_families`), which take
  one word in a step. A question and its answer are one step; the answer is what
  `strtol` or `%c` make of the input, a member of `Numbers` or of `Letters`, or
  the input has ended (`eof`).
* A word is a sequence of letters, `word_list` the array of pointers in use.
  `famlist` is the linked list from its head, where a new family goes.
  `max_words` of a family is the capacity of its array, which
  `find_biggest_family` compares.
* `biggest_fam` is the family found for the last guess, from which the word told
  to a loser is drawn. The old families are freed before the next are made,
  which is `famlist' = << >>` in `GetGuess`.
* An answer that is refused changes nothing; `AskLengthAgain` and
  `GetGuessAgain` are those steps. At the end of the input `fgets` fails for
  ever in the loop that asks for a length (wheel.c:91), and the other questions,
  which `scanf` reads, end the program. `EndOfInputEnds` is about the latter and
  leaves the loop out by name.

Assumptions: allocation does not fail; the words of the dictionary are of
lower-case letters, as those of the shipped ones are (the longest word there has
29 letters, so none is split); the dictionary fits `MAX_WORDS`.

### How the readers' state and steps correspond

A file is a sequence of characters; one that is not a newline is its own place
in the file, so that a letter lost, doubled or moved is seen. `pos` is the file
position. `Stops(size)` is where a call of `fgets` with that size ends: at a
newline, after `size - 1` characters or at the end. The four readers differ in
the size they give and in what they take off the end. `get_file_length` and
`init_game` read the same file one after the other, with different sizes; a later
round starts again with the rewind. `crashed` is `random() % 0` on an empty
dictionary, with which the word game server ends as soon as it starts.

## Runs

| run | question | bounds |
|---|---|---|
| `game_state` | do board, flags and counter agree over rounds while players come and go, can a round be won and does it end, does the turn pointer stay in the list, is nobody overtaken or starved, how long does the status message get | five players: the player in turn, the one who leaves, the one who joins and one on each side; `MAX_GUESSES` = 3; words of one letter and of three with a repeated one; five letters, so that `MAX_GUESSES` are wrong for either word and every round can be lost |
| `status_fits` | does the status message fit its buffer | the program's own `MAX_GUESSES` = 4 and `MAX_MSG` = 128; words of ten different letters and of 18 letters, as `MAX_WORD` = 20 allows; one player |
| `server` | do lists and descriptors stay together and is everything handled, with pieces of lines, hang-ups and broken connections | two descriptors (a third client makes `accept` fail), `MaxInput` 2, one broken connection |
| `server_three` | does the server implement the word game, with names and announcements right | three descriptors, two busy at a time; each two clients compete for a name; right, wrong and malformed guesses; `MaxInput` 2, no broken connection |
| `psort` | do the records get from the file through children and pipes to the parent, does the merge put each in its place whichever chunk runs out first, or does psort fail, and does every process end | three children with chunks of two, one and one records; two frequencies; pipes of one record; the parent and two children may fail, and those two may be killed instead; all orders of the options |
| `wheel` | do board, letters and remaining words agree, is every answer and the word told true, can the player go on, does a round and the program end | three letters; words of one and two letters, some with a repeated letter; every dictionary of up to four of five words, in any order; families that outgrow their arrays (`family_increment` 2) |
| `readers` | are the words read the lines of the file, which letters get lost, is the entry init_game looks for there | every file of at most ten characters; four buffer sizes from 4 to 6 |
| `write_failure`, `mover_asked`, `records_lines`, `most_words`, `killed_child` | see Findings | as small as shows the case |

Bounds: `MaxInput` limits what a client has sent and the server has not turned
into a line, 2 being the least with which a line can be in pieces and two lines
can arrive in one read. `MaxBacklog` limits connections waiting for `accept`
(the code's queue is 5; the server takes one per iteration, so the number only
repeats the step). `MaxBusy` limits the clients with something to read: 2 are
needed for two handlers in one scan. `MaxBroken` limits broken connections; the
first one already stops the server in most handlers. `Segments` gives what each
client may send at a time. The runs are small where the proofs are not: the
safety properties of the server are proved without the bounds.

In `game_state`, `MAX_GUESSES` = 3 gives a round a wrong guess that is neither
the first nor the last; the program's 4 only adds another of that kind and, with
the orders in which five players can stand, takes the run past what TLC can do
for the liveness properties. `status_fits` has the program's numbers, and the
theorem behind `StatusBounded` holds for all.

`PipeSize` is how many records fit into a pipe, 65536 bytes in reality; with 1 a
child with two records blocks, and larger pipes only let children run ahead.
Three children are needed for a sibling that is neither the first nor the last
to inherit ends, and a rest in the division for chunks of different sizes. In the
merge they are three entries, so that the chunk that runs out may be anywhere and
the entry moved to its place another one or itself.
`MaxLost` limits the children that fail or are killed from outside (SIGPIPE is
not limited): with 2 of 3 one can fail between or beside others that do not.
psort does not notice a child that is killed (finding 4), so `ImplementsSort`
takes an end of psort after that for a failure. It still says that a child that
fails with `exit(1)` is noticed, and `RecordsTravel` and `EverybodyEnds` have no
such exception.

For `wheel`, four words of at most two letters give families of one, two and
three words, below, at and above `family_increment`; `most_words` has 3 there, so
that families are below it. `Numbers` includes numbers too small and too big for
each question. For `readers`, `MaxFile` and the sizes are such that a line can
fill a buffer exactly, miss it by one on either side and need several reads, as
a first, middle and last line, with and without a newline at the end.

Deadlock is checked in all runs. When all
processes of psort have ended, `AllEnded` stutters, as do `Ended` of `Wheel` and
`Finished` of `Readers`. The server cannot deadlock in `select`, since a
client may always connect or act; when it has stopped, `Stopped` stutters.

### Fairness

* `FairServerSpec` has weak fairness of `Server` as a whole: the process runs.
  Nothing is assumed of clients, and not that a given descriptor is served; that
  follows from the scan, which serves every descriptor found ready once.
* `FairStateSpec` has weak fairness of `Play(p)` for each player: a player who
  stays in turn guesses. The server has no timeout, so this is a premise about
  people, and `TurnComesRound` is conditional on it. It is not enough for
  `RoundsEnd`: all may leave for good, or come and leave for ever without one of
  them staying until he has guessed. `PlayersGuess` is the premise that they do
  neither.
* `FairPSortSpec` has weak fairness of the parent and of each child: the
  scheduler runs a process that is not blocked. Failing and being killed have
  none.
* `FairWheelSpec` has weak fairness of `Compute`, what the program does without
  input, and of `InputEnded`, which needs none either. Its weak fairness of
  `GetGuess` is a premise about the player: whoever has not left guesses a new
  letter in the end. `RoundEnds` rests on it, `EndOfInputEnds` does not. Nothing
  is assumed of the other questions.

## Findings

1. **A failed write is not survived** (`write_failure`). wordsrv.c:41-44 says
   that descriptors are removed from `allset` when a write fails. No failed
   write does that: the branch after the greeting (line 304) removes `p->fd`
   from `game.head`, where `p` is not the accepted client, and that client is in
   the other list; the branch after the request to retype a name (line 482)
   looks in `game.head` too; all others call `exit(1)`; SIGPIPE is not ignored.
2. **The player who gets a leaver's turn is not asked** (`mover_asked`). Main
   calls `advance_turn` and removes the player (332-336) but never
   `announce_turn`. The players still believe that it is the leaver's turn and
   nobody has been asked for a guess until somebody joins.
3. **The biggest family need not have the most words** (`most_words`). "Return a
   pointer to the family in the list with the most words" (family.c:134, 149),
   but the loop compares `max_words` (151), the capacity, which is 1024 for every
   family that has not outgrown it. In the shipped game most choices are
   between such families, and the one created last wins. `GrownIsBiggest` says
   what does hold.
4. **A killed child is not noticed** (`killed_child`). "check the error of
   child's abnormal terminating" (psort.c:107) is done with `WEXITSTATUS` alone,
   which is 0 for a child ended by a signal, and a read that returns 0 is not
   an error either (helper.c:130): psort writes records it never received and
   exits with 0. When a child fails with `exit(1)` the same junk is read, but
   `wait` tells, and `ImplementsSort` holds.
5. **The status message can outgrow its buffer** (`status_fits`).
   `status_message` "assumes that the caller has allocated MAX_MSG bytes"
   (gameplay.c:8-9), and the callers do (wordsrv.c:109, 519). A word of `n`
   letters, `d` of them different, needs up to 99 + `n` + 2`d` bytes with
   `MAX_GUESSES` = 4: 126 of the 128 for `n` = `d` = 9, and 129 for
   `n` = `d` = 10. The shipped dictionary stops at nine letters, but the
   dictionary is an argument of the server and `game.word` holds
   `MAX_WORD` - 1 = 19. The limit given to `strncat` (gameplay.c:23) is that of
   the text appended, not of the whole. `StatusBounded` says what does hold for
   every dictionary.
6. **A last line without a newline is cut** (`records_lines`). "remove the
   newline character" (mkwords.c:73) removes the last character whatever it is
   (74): the record of a last line without a newline lacks its last letter.
   `EndedLinesKept` says what does hold: as many records as lines, in their
   order, and whole ones of all lines that have a newline.

Observed while modelling, without a run of their own:

* "find an entire line" (wordsrv.c:453) tests only the end of what was read, so
  that two lines that arrive in one read are taken as one. `WordServer` models it
  (`Complete`); no property calls it wrong, as `InputRead` says that what was
  sent is read, and not that it is read line by line.
* reading.h:4 gives a maximum word length, but `fgets` in `read_words` gets
  that size for word, newline and NUL, so longer words are split two letters
  earlier. `NoLetterLost` and `WordsAreLines` say what does hold.
* A family's array is said to grow by `family_increment` pointers when it is full
  (family.c:8-10, 88-89); the code lets it grow by one (100-105), as the comment
  inside the function says. `GrownIsBiggest` rests on the latter: a capacity
  above `family_increment` is the number of words.
* An empty dictionary makes `init_game` divide by zero (`DivideByZero`).
* psort takes the number of processes for the name of the input file if `-n`
  comes after `-f` (psort.c:31), and then fails at `stat`.

## Proofs

For every value of the constants that satisfies `GameAssumption`,
`TurnsAssumption`, `ServerAssumption`, `MergeAssumption`, `PSortAssumption`,
`FamilyAssumption`, `WheelAssumption` and `ReadersAssumption`:

* `GameplayProofs`: `GameTypeCorrect`, `BoardCorrect`, `CounterCorrect`,
  `RoundStaysOpen` from one invariant, `GameInv`. The type invariant alone is
  not inductive: that `guesses_left` stays above 0 and that a letter of the word
  remains both need the board to be the function of word and flags that
  `BoardTruthful` says. `StatusIsBounded` bounds the number of letters guessed
  by those of the word and the wrong ones still allowed, for every dictionary and
  every `MAX_GUESSES`. `StatePlaysGame` and `StateTakesTurns` carry the theorems
  about `Gameplay` and `Turns` over to `GameState`, which the run `game_state`
  checks.
* `TurnsProofs`: `TurnsCorrect` (`TurnsOK`, inductive as it stands once it says
  that the list has no repetition) and `TurnsFair` (`NoOvertaking`, an action
  property). They rest on `PushShape` and `RemoveShape`, what the two list
  operations do to length, members and positions.
* `WordServerProofs`: `ServerKeepsState` shows that each step of the server is a
  step of `GameState` or leaves it alone, and with that `ServerPlaysGame` and
  `ServerTakesTurns`, so that the theorems about game and turns carry over.
  `ServerMonitors` needs `ListsInv`: the lists
  can only be shown to be disjoint together with the fact that their members are
  exactly the open descriptors, since that is why `accept` cannot return one
  that is in a list. `ServerNames` adds `NamesInv`, `ServerShows` adds
  `ShownInv`; both use that a handler's client is in the list it thinks it is.
  `MoverKnown` is inductive by itself. `ServerTypeCorrect` (`ServerTypeOK`) adds
  `SelectInv`: a client that is removed in the middle of a scan leaves `rset` as
  well as `allset`, the listening socket is in `rset` only while a connection
  waits, and `maxfd` is always a descriptor there is.
  `ServerImplementsGame`: the server implements `WordGame` under the mapping
  from active players to their names. It uses all the invariants above, and
  `InputInv`, that names stay within the bound of what clients send
  (`MaxInput`), which is what makes them members of the abstract `Names`.
* `MergeProofs`: lemmas about the merge of any sorted chunks of the sizes
  `read_rec_num` gives. That the output never outgrows its memory follows from
  its having no record twice (`InjectiveLength`), not from any counter. The
  invariant adds that each entry of the array shows the record it points at, one
  entry for a chunk, and that no record is in the chunks twice. The latter is
  what the partition lemmas `ChunkSizes` and `ChunksInOrder` are for: every chunk
  has a record and ends where the next starts. What `qsort` and the two ways to
  advance do to the entries is said for them as a set, once it is shown that no
  chunk has two.
* `PSortProofs`: `PSortTypeCorrect`, `ChunksAlwaysCover`, `MergeIsSorted`,
  `MergeIsComplete`, `RecordsArrive`, `ChildrenAlwaysHeard` and `PSortImplementsSort` from `PSortInv`, which has four
  parts. `ControlInv` says where the parent is: which children are forked, that those
  waited for have ended without `exit(1)`, and that `read_offset` is where chunk
  `index` starts, so that by the partition lemmas each child inherits its own
  chunk. `QueueInv` bounds what is in each pipe and what has been read of it:
  nothing before the phase `read`, the whole chunk of every child the parent is
  past. `TravelInv` is `RecordsTravel` without its condition on the parent: what
  it has got, what is in the pipe and what the child has left are, put together,
  the sorted chunk, and a record that moves from one to the next leaves the whole
  as it is (`Pass`). In the phase `merge`, `MergingInv` is the invariant of
  `MergeProofs`, unless a child was killed. It holds at the start of the merge
  because a parent that has waited for all children and found no failure has a
  whole sorted chunk of each (`ChunkArrived`), which takes the three other parts:
  with a child that failed, junk would have been read in place of its records.
  The refinement needs only that the merge is sorted and complete when it ends.
  The proof found that the refinement mapping had a `CASE` two guards of which
  were true at once (psort done after a child was killed); they exclude each
  other now.
* `FamiliesProofs`: what adding a word does to the list of families, and what
  `find_biggest_family` returns. `WordAdded` is the step of `FamiliesDivide`:
  the family of the word's signature grows by it, or is new, and its capacity
  follows (`FamilyGrows`). The number of words of a family is the number of
  places in the list of words with its signature, which is why `FamiliesDivide`
  counts places and not words: a dictionary may hold a word twice.
* `WheelProofs`: `WheelTypeCorrect`, `FamiliesCorrect`, `WordsCorrect`,
  `AlwaysAGuess`, `GrownChosen` and `WheelIsHonest` from one invariant,
  `WheelInv`. None of them is inductive alone. That the words of the biggest
  family are those that explain the new board needs `FamiliesDivide` at the end
  of the loop and `WordsExplainBoard` before the guess (`BoardAfterAnswer` joins
  the two); that there is one needs that no family is empty; that there is always
  a guess needs the board to have a blank (`OpenInv`), which all remaining words
  have in the same place, with a letter that was not guessed; and that the
  answers are true of the word told at the end needs `OverInv`, how the counter
  and the board stand when a round is over. `WheelIsHonest` maps a guess that is
  being computed to the state before it, so that the loop over the words
  stutters and `AnswerGuess` is the abstract `Answer`.

* `ReadersProofs`: `ReadersTypeCorrect`, `LettersKept`, `EntryAlwaysFound`,
  `WordsAreTheLines`, `EndedLinesAreKept` and `PickIsALine`, for every file.
  `StopExists` and `StopUnique` say where a call of `fgets` stops.
  `EntryAlwaysFound` (`IndexFound`) is not inductive without the past: `IndexInv`
  keeps the positions get_file_length went through, and says that after as many
  calls init_game, with the smaller buffer, is no further on. Its step is
  `StopMonotone`: a call that starts earlier and has less room stops no later. For
  the lines, a line is known by the number of line ends up to its own.
  `LineEndOf` and `EveryLineEnds` say that this numbers the lines from 1 without
  a gap (as many numbers as ends, no two the same), which replaces an induction
  over the file. `NextLine` is the step of `LinesInv`: if every line fits, a call
  that starts after a line end returns the next line. `NoLetterLost` is inductive
  with the types alone, and needs no assumption on the length of lines.

Only model-checked are the liveness properties (`RoundsEnd`, `TurnComesRound`,
`InputRead`, `HangupHandled`, `EverybodyEnds`, `RoundEnds`, `EndOfInputEnds`),
since the prover does not handle fairness. Every invariant and every other
action property and refinement that a passing run checks is a theorem.

## Not modelled, and the plan

* The server: the buffer limits and bare newlines, blocking writes, the text of
  messages apart from the length of the status message, and
  `init_server_addr` and `set_up_server_socket`, which call the system once and
  exit if that fails.
* psort: missing and repeated options, and less than one process. `pipe_fd`
  then has an undefined size (psort.c:46) and there is nothing to model but that.
* wheel: `MAX_WORDS`, past which `read_words` would write; failures of
  allocation; `print_families`, which is not called; `deallocate_*`, which only
  free. mkwords: its options and the random frequency.
* Data files, Makefiles and the binary.

Next, in this order:

1. **Liveness by safety**: the measures that the liveness properties rest on, as
   action properties that can be proved: a step of a handler or of the scan takes
   a descriptor out of `rset`, a guess of a round lowers `guesses_left` or fills a
   blank, a step of a child or of the parent of psort lowers the number of
   records left to move.
2. **No deadlock in psort**: as long as not all processes have ended, one of them
   can take a step, as an invariant of the states of pipes and ends.
