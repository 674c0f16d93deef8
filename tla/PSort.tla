------------------------------- MODULE PSort -------------------------------
(***************************************************************************)
(* psort: a parent that parses its options, forks one child for each chunk *)
(* of the input file, reads the sorted chunks from pipes, waits for the    *)
(* children, merges the chunks (Merge) and writes the output file.  Parent *)
(* and children run concurrently; each may fail a system call and exit,    *)
(* and a child may be killed by a signal.                                  *)
(*                                                                         *)
(* A record is shorter than PIPE_BUF and all reads and writes are of one   *)
(* record, so a pipe is a bounded queue of whole records.                  *)
(***************************************************************************)
EXTENDS Merge

CONSTANTS
  PipeSize,  \* the records that fit into a pipe
  MaxLost    \* bound on the children that fail or are killed from outside

ASSUME PSortAssumption == PipeSize \in Nat \ {0} /\ MaxLost \in Nat

VARIABLES
  infile,        \* the frequency of each record of the input file
  argv,          \* the options still to be parsed
  named,         \* what the variable infile of main points to: NULL, the
                 \* number of processes or the name of the input file
  parent,        \* what the parent is at: options, fork, read, wait, merge,
                 \* done, failed
  index,         \* the child of its current iteration
  read_offset,   \* the records given to children so far
  from,          \* the value of read_offset each child was forked with
  child,         \* none, forked, writing, finished, failed or killed
  read_content,  \* the records each child has still to write
  pipe,          \* the records in each child's pipe
  waited,        \* the children wait has returned
  outfile        \* the output file

given == << infile, argv, named >>
parentVars == << parent, index, read_offset, from, waited, outfile >>
childVars == << child, read_content >>
vars == << given, parentVars, childVars, pipe, mergeVars >>

Options == {"n", "f", "o"}

\* What is in memory that nothing has been read into.
NoWord == -1

Running(i) == child[i] \in {"forked", "writing"}

PSortInit ==
  /\ infile \in [0 .. record_num - 1 -> Freqs]
  /\ argv \in {s \in [1 .. 3 -> Options \cup {"?"}] : IsInjective(s)}
  /\ named = "NULL"
  /\ parent = "options"
  /\ index = 0
  /\ read_offset = 0
  /\ from = [i \in Children |-> 0]
  /\ child = [i \in Children |-> "none"]
  /\ read_content = [i \in Children |-> << >>]
  /\ pipe = [i \in Children |-> << >>]
  /\ waited = {}
  /\ outfile = << >>
  /\ file_content = [i \in Children |-> << >>]
  /\ merge_array = << >>
  /\ sorted_file_content = << >>

-----------------------------------------------------------------------------
(* The ends of the pipes.                                                  *)

ParentKeepsEnd(i) ==  \* slip: the parent leaves its writing end open
  Running(i) \/ parent \notin {"done", "failed"}

\* The parent closes its writing end before it forks another child, so only
\* child i holds that of its pipe.
HasWriter(i) == Running(i)

\* The parent holds a reading end until it has read the chunk; children forked
\* later inherit it and close it when they start.
HasReader(i) ==
  \/ parent = "fork"
  \/ parent = "read" /\ index <= i
  \/ \E j \in Children : j > i /\ child[j] = "forked"

-----------------------------------------------------------------------------
(* A child.                                                                *)

Chunk(i) ==
  {[freq |-> infile[k], word |-> k] :
     k \in from[i] .. from[i] + read_rec_num(i) - 1}

StartUnsorted(i) ==  \* slip: qsort is forgotten
  /\ child[i] = "forked"
  /\ child' = [child EXCEPT ![i] = "writing"]
  /\ \E s \in SetToSeqs(Chunk(i)) : read_content' = [read_content EXCEPT ![i] = s]
  /\ UNCHANGED << given, parentVars, pipe, mergeVars >>

\* The child closes the reading ends it has inherited, reads its chunk and
\* sorts it; qsort may put equal records in any order.
StartChild(i) ==
  /\ child[i] = "forked"
  /\ child' = [child EXCEPT ![i] = "writing"]
  /\ \E s \in SetToSeqs(Chunk(i)) :
       /\ Sorted(s)
       /\ read_content' = [read_content EXCEPT ![i] = s]
  /\ UNCHANGED << given, parentVars, pipe, mergeVars >>

\* The child blocks while the pipe is full.
WriteRecord(i) ==
  /\ child[i] = "writing"
  /\ read_content[i] # << >>
  /\ HasReader(i)
  /\ Len(pipe[i]) < PipeSize
  /\ pipe' = [pipe EXCEPT ![i] = Append(@, Head(read_content[i]))]
  /\ read_content' = [read_content EXCEPT ![i] = Tail(@)]
  /\ UNCHANGED << given, parentVars, child, mergeVars >>

\* SIGPIPE: nobody can read what it writes.
BrokenPipe(i) ==
  /\ child[i] = "writing"
  /\ read_content[i] # << >>
  /\ ~ HasReader(i)
  /\ child' = [child EXCEPT ![i] = "killed"]
  /\ UNCHANGED << given, parentVars, read_content, pipe, mergeVars >>

FinishChild(i) ==
  /\ child[i] = "writing"
  /\ read_content[i] = << >>
  /\ child' = [child EXCEPT ![i] = "finished"]
  /\ UNCHANGED << given, parentVars, read_content, pipe, mergeVars >>

ChildSteps(i) ==
  StartChild(i) \/ WriteRecord(i) \/ BrokenPipe(i) \/ FinishChild(i)

MayLose == Cardinality({i \in Children : child[i] \in {"failed", "killed"}}) < MaxLost

\* One of the child's checks fails: exit(1).
FailChild(i) ==
  /\ MayLose
  /\ Running(i)
  /\ child' = [child EXCEPT ![i] = "failed"]
  /\ UNCHANGED << given, parentVars, read_content, pipe, mergeVars >>

KillChild(i) ==
  /\ MayLose
  /\ Running(i)
  /\ child' = [child EXCEPT ![i] = "killed"]
  /\ UNCHANGED << given, parentVars, read_content, pipe, mergeVars >>

-----------------------------------------------------------------------------
(* The parent.                                                             *)

Named(option) ==
  CASE option = "n" -> "number"  \* the case for n goes on into that for f
    [] option = "f" -> "file"
    [] option = "o" -> named

\* One iteration of the loop over getopt.
ParseOption ==
  /\ parent = "options"
  /\ argv # << >>
  /\ Head(argv) \in Options
  /\ named' = Named(Head(argv))
  /\ argv' = Tail(argv)
  /\ UNCHANGED << infile, parentVars, childVars, pipe, mergeVars >>

\* The default case: exit(1).
RefuseOption ==
  /\ parent = "options"
  /\ argv # << >>
  /\ Head(argv) \notin Options
  /\ parent' = "failed"
  /\ UNCHANGED << given, index, read_offset, from, waited, outfile, childVars,
                  pipe, mergeVars >>

\* stat finds the file: there is none that has the number as its name.
FileFound == named = "file"

\* get_file_size
MeasureFile ==
  /\ parent = "options"
  /\ argv = << >>
  /\ parent' = IF FileFound THEN "fork" ELSE "failed"
  /\ UNCHANGED << given, index, read_offset, from, waited, outfile, childVars,
                  pipe, mergeVars >>

AdvanceFirst ==  \* slip: read_offset is advanced before the fork
  from' = [from EXCEPT ![index] = read_offset + read_rec_num(index)]

\* read_offset is what the child was forked with; the parent advances it after.
Inherit == from' = [from EXCEPT ![index] = read_offset]

Fork ==
  /\ parent = "fork"
  /\ index < chunk_num
  /\ child' = [child EXCEPT ![index] = "forked"]
  /\ Inherit
  /\ read_offset' = read_offset + read_rec_num(index)
  /\ index' = index + 1
  /\ UNCHANGED << given, parent, waited, outfile, read_content, pipe, mergeVars >>

AllForked ==
  /\ parent = "fork"
  /\ index = chunk_num
  /\ parent' = "read"
  /\ index' = 0
  /\ UNCHANGED << given, read_offset, from, waited, outfile, childVars, pipe,
                  mergeVars >>

Store(r) == file_content' = [file_content EXCEPT ![index] = Append(@, r)]

\* read blocks while the pipe is empty and has a writer.  At the end of the
\* pipe it returns 0, which is not an error to the code: what the memory holds
\* stays as the record.
ReadRecord ==
  /\ parent = "read"
  /\ index < chunk_num
  /\ Len(file_content[index]) < read_rec_num(index)
  /\ \/ /\ pipe[index] # << >>
        /\ Store(Head(pipe[index]))
        /\ pipe' = [pipe EXCEPT ![index] = Tail(@)]
     \/ /\ pipe[index] = << >>
        /\ ~ HasWriter(index)
        /\ \E f \in Freqs : Store([freq |-> f, word |-> NoWord])
        /\ UNCHANGED pipe
  /\ UNCHANGED << given, parentVars, childVars, merge_array,
                  sorted_file_content >>

LeaveLast ==  \* slip: off by one in the loop that reads a chunk
  Len(file_content[index]) >= read_rec_num(index) - 1

ChunkRead == Len(file_content[index]) >= read_rec_num(index)

\* The reading end is closed.
NextPipe ==
  /\ parent = "read"
  /\ index < chunk_num
  /\ ChunkRead
  /\ index' = index + 1
  /\ UNCHANGED << given, parent, read_offset, from, waited, outfile, childVars,
                  pipe, mergeVars >>

AllRead ==
  /\ parent = "read"
  /\ index = chunk_num
  /\ parent' = "wait"
  /\ UNCHANGED << given, index, read_offset, from, waited, outfile, childVars,
                  pipe, mergeVars >>

StatusIgnored(i) == FALSE  \* slip: the exit status is not looked at

\* WEXITSTATUS of the status of a child: not 0 if it called exit(1), and 0 if
\* it was killed.
WEXITSTATUS(i) == child[i] = "failed"

\* wait returns any child that has ended.
Wait ==
  /\ parent = "wait"
  /\ \E i \in Children \ waited :
       /\ child[i] # "none" /\ ~ Running(i)
       /\ IF WEXITSTATUS(i)
          THEN parent' = "failed" /\ UNCHANGED waited
          ELSE waited' = waited \cup {i} /\ UNCHANGED parent
  /\ UNCHANGED << given, index, read_offset, from, outfile, childVars, pipe,
                  mergeVars >>

StartMerge ==
  /\ parent = "wait"
  /\ waited = Children
  /\ parent' = "merge"
  /\ merge_array' = FirstEntries
  /\ UNCHANGED << given, index, read_offset, from, waited, outfile, childVars,
                  pipe, file_content, sorted_file_content >>

ContinueMerge ==
  /\ parent = "merge"
  /\ MergeStep
  /\ UNCHANGED << given, parentVars, childVars, pipe >>

\* writing
WriteOutput ==
  /\ parent = "merge"
  /\ merge_array = << >>
  /\ parent' = "done"
  /\ outfile' = sorted_file_content
  /\ UNCHANGED << given, index, read_offset, from, waited, childVars, pipe,
                  mergeVars >>

ParentSteps ==
  \/ ParseOption \/ RefuseOption \/ MeasureFile
  \/ Fork \/ AllForked
  \/ ReadRecord \/ NextPipe \/ AllRead
  \/ Wait
  \/ StartMerge \/ ContinueMerge \/ WriteOutput

\* One of the parent's checks fails: exit(1), with the children left running.
\* An output file that was being written may be left in part.
FailParent ==
  /\ parent \notin {"done", "failed"}
  /\ parent' = "failed"
  /\ IF parent = "merge" /\ merge_array = << >>
     THEN \E n \in 0 .. Len(sorted_file_content) :
            outfile' = SubSeq(sorted_file_content, 1, n)
     ELSE UNCHANGED outfile
  /\ UNCHANGED << given, index, read_offset, from, waited, childVars, pipe,
                  mergeVars >>

-----------------------------------------------------------------------------

Ended == parent \in {"done", "failed"} /\ \A i \in Children : ~ Running(i)

\* Nobody is left.
AllEnded == Ended /\ UNCHANGED vars

PSortNext ==
  \/ ParentSteps
  \/ FailParent
  \/ \E i \in Children : ChildSteps(i) \/ FailChild(i) \/ KillChild(i)
  \/ AllEnded

PSortSpec == PSortInit /\ [][PSortNext]_vars

\* Every process runs; none has to fail.
FairPSortSpec ==
  /\ PSortSpec
  /\ WF_vars(ParentSteps)
  /\ \A i \in Children : WF_vars(ChildSteps(i))

-----------------------------------------------------------------------------
(* Properties.                                                             *)

Killed == \E i \in Children : child[i] = "killed"

\* What the merge is of: sorted chunks, unless a child was killed, which psort
\* does not notice (see AbnormalNoticed).
Merging == parent = "merge" /\ ~ Killed

PSortTypeOK ==
  /\ named \in {"NULL", "number", "file"}
  /\ parent \in {"options", "fork", "read", "wait", "merge", "done", "failed"}
  /\ index \in 0 .. chunk_num
  /\ read_offset \in 0 .. record_num
  /\ from \in [Children -> 0 .. record_num]
  /\ child \in [Children -> {"none", "forked", "writing", "finished", "failed",
                             "killed"}]
  /\ \A i \in Children : /\ Len(pipe[i]) <= PipeSize
                         /\ Len(file_content[i]) <= read_rec_num(i)
  /\ waited \subseteq Children
  /\ Merging => MergeTypeOK

\* Each record of the file is in the chunk of exactly one child, when the
\* number of records is no multiple of that of children (helper.c:168-175,
\* psort.c:86).
ChunksCover ==
  parent \in {"read", "wait", "merge", "done"} =>
    \A k \in 0 .. record_num - 1 :
      Cardinality({i \in Children :
                     k \in from[i] .. from[i] + read_rec_num(i) - 1}) = 1

\* What a child that has not failed has written, the parent has read and the
\* pipe still holds is the child's chunk, once, in sorted order: a full pipe
\* or the child's end never makes the parent miss or invent a record.
RecordsTravel ==
  \A i \in Children : child[i] \in {"writing", "finished"} /\ parent # "failed" =>
    LET all == file_content[i] \o pipe[i] \o read_content[i]
    IN  /\ Sorted(all)
        /\ IsInjective(all)
        /\ Range(all) = Chunk(i)

\* While the parent lives, somebody can read what a child has to write: no
\* child is killed by SIGPIPE because of the order in which parent and
\* siblings close the ends (psort.c:88, helper.c:71-81, 136).
ChildrenHeard ==
  parent # "failed" =>
    \A i \in Children :
      child[i] = "writing" /\ read_content[i] # << >> => HasReader(i)

\* However the children's records got to the parent, the output is sorted at
\* every step of the merge, and nothing still to come belongs before its end
\* (helper.c:201-205).
MergesInOrder == Merging => MergeSorted

\* Every record the children have sent is merged once or still to come, in
\* whatever order chunks of different sizes run out and the last entry of the
\* array is moved to its front (helper.c:213-222).
MergesEach == Merging => MergeComplete

\* psort ends with its input sorted or with a failure; in particular a child
\* that failed is never followed by an output file that lacks its records.  The
\* exception is a child that was killed: what psort does then is no better than
\* a failure.
Job == INSTANCE Sort WITH
  N <- record_num,
  Frequencies <- Freqs,
  input <- infile,
  output <- IF parent = "done" /\ ~ Killed THEN outfile ELSE << >>,
  outcome <- CASE parent = "done" /\ ~ Killed -> "sorted"
               [] parent = "failed" \/ (parent = "done" /\ Killed) -> "failed"
               [] OTHER -> "running"

ImplementsSort == Job!SortSpec

\* Parent and children all end, whichever of them fails and when: nobody is
\* left blocked on a pipe or in wait.
EverybodyEnds == <>Ended

\* psort.c:107 says that the parent waits and checks for a child's abnormal
\* terminating.
AbnormalNoticed ==
  parent = "done" => \A i \in Children : child[i] = "finished"
=============================================================================
