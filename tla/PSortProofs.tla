---------------------------- MODULE PSortProofs ----------------------------
(***************************************************************************)
(* Theorems about PSort: for every number of records and children, every   *)
(* size of the pipes and however the processes interleave, fail or are     *)
(* killed, psort ends with its input sorted or with a failure.             *)
(***************************************************************************)
EXTENDS PSort, MergeProofs

-----------------------------------------------------------------------------
(* Where the parent is, and what it has forked and waited for.             *)

\* What read_offset is when child n is to be forked.
Start(n) == IF n = chunk_num THEN record_num ELSE First(n)

ControlInv ==
  /\ named \in {"NULL", "number", "file"}
  /\ parent \in {"options", "fork", "read", "wait", "merge", "done", "failed"}
  /\ index \in 0 .. chunk_num
  /\ read_offset \in 0 .. record_num
  /\ from \in [Children -> 0 .. record_num]
  /\ child \in [Children -> {"none", "forked", "writing", "finished", "failed",
                             "killed"}]
  /\ waited \subseteq Children
  /\ parent = "options" => index = 0 /\ read_offset = 0
  /\ parent = "fork" => read_offset = Start(index)
  /\ parent \in {"wait", "merge", "done"} => index = chunk_num
  /\ \A i \in Children :
       /\ child[i] # "none" => from[i] = First(i)
       /\ parent = "options" => child[i] = "none"
       /\ parent = "fork" => (child[i] = "none" <=> index <= i)
       /\ parent \in {"read", "wait", "merge", "done"} => child[i] # "none"
  /\ \A i \in waited : child[i] \in {"finished", "killed"}
  /\ parent \in {"merge", "done"} => waited = Children

\* read_offset is where the next child's chunk starts.
LEMMA Starts ==
  /\ Start(0) = 0
  /\ \A i \in Children : /\ Start(i) = First(i)
                         /\ Start(i) \in 0 .. record_num
                         /\ Start(i + 1) = First(i) + read_rec_num(i)
                         /\ Start(i + 1) \in 0 .. record_num
<1>1. Start(0) = 0
  <2>1. CASE chunk_num = 0
    BY <2>1, ChunkNumber DEF Start
  <2>2. CASE chunk_num # 0
    <3>1. 0 \in Children
      BY <2>2, ChunkNumber
    <3> QED
      BY <2>2, <3>1, ChunkStarts DEF Start
  <2> QED
    BY <2>1, <2>2
<1>2. ASSUME NEW i \in Children
      PROVE  /\ Start(i) = First(i)
             /\ Start(i) \in 0 .. record_num
             /\ Start(i + 1) = First(i) + read_rec_num(i)
             /\ Start(i + 1) \in 0 .. record_num
  <2>1. i \in Nat /\ i < chunk_num /\ chunk_num \in Nat /\ record_num \in Nat
    BY ChunkNumber
  <2>2. /\ First(i) \in Nat /\ read_rec_num(i) \in Nat
        /\ First(i) + read_rec_num(i) <= record_num
    BY ChunkWithin, ChunkSizes
  <2>3. Start(i + 1) = First(i) + read_rec_num(i)
    <3>1. CASE i + 1 = chunk_num
      <4>1. i + 1 \notin Children
        BY <3>1, ChunkNumber
      <4> QED
        BY <3>1, <4>1, ChunkStarts DEF Start
    <3>2. CASE i + 1 # chunk_num
      <4>1. i + 1 \in Children
        BY <2>1, <3>2, ChunkNumber
      <4> QED
        BY <3>2, <4>1, ChunkStarts DEF Start
    <3> QED
      BY <3>1, <3>2
  <2>4. Start(i) = First(i)
    BY <2>1 DEF Start
  <2> QED
    BY <2>1, <2>2, <2>3, <2>4
<1> QED
  BY <1>1, <1>2

LEMMA ControlInit ==
  PSortInit => ControlInv
BY ChunkNumber, Starts DEF PSortInit, ControlInv

LEMMA ControlStep ==
  ControlInv /\ [PSortNext]_vars => ControlInv'
<1>0. SUFFICES ASSUME ControlInv, [PSortNext]_vars PROVE ControlInv'
  OBVIOUS
<1> USE DEF ControlInv, parentVars, given, childVars
<1>a. /\ chunk_num \in Nat /\ record_num \in Nat
      /\ \A i \in Children : i \in Nat /\ i < chunk_num
  BY ChunkNumber
<1>1. CASE ParseOption
  BY <1>0, <1>1 DEF ParseOption, Named, Options
<1>2. CASE RefuseOption
  BY <1>0, <1>2 DEF RefuseOption
<1>3. CASE MeasureFile
  BY <1>0, <1>3, <1>a, Starts DEF MeasureFile
<1>4. CASE Fork
  <2>1. index \in Children /\ index' = index + 1
    BY <1>0, <1>4, ChunkNumber DEF Fork
  <2>2. /\ read_offset = First(index) /\ from' = [from EXCEPT ![index] = First(index)]
        /\ First(index) \in 0 .. record_num
        /\ read_offset' = Start(index + 1) /\ read_offset' \in 0 .. record_num
    <3>1. /\ read_offset = Start(index) /\ from' = [from EXCEPT ![index] = read_offset]
          /\ read_offset' = read_offset + read_rec_num(index)
      BY <1>0, <1>4 DEF Fork, Inherit
    <3>2. /\ Start(index) = First(index)
          /\ Start(index) \in 0 .. record_num
          /\ Start(index + 1) = First(index) + read_rec_num(index)
          /\ Start(index + 1) \in 0 .. record_num
      BY <2>1, Starts
    <3> QED
      BY ONLY <3>1, <3>2
  <2>3. child' = [child EXCEPT ![index] = "forked"]
    BY <1>4 DEF Fork
  <2> QED
    BY <1>0, <1>4, <1>a, <2>1, <2>2, <2>3 DEF Fork
<1>5. CASE AllForked
  BY <1>0, <1>5, <1>a DEF AllForked
<1>6. CASE ReadRecord
  BY <1>0, <1>6 DEF ReadRecord
<1>7. CASE NextPipe
  BY <1>0, <1>7, <1>a DEF NextPipe
<1>8. CASE AllRead
  BY <1>0, <1>8 DEF AllRead
<1>9. CASE Wait
  BY <1>0, <1>9 DEF Wait, Running, WEXITSTATUS
<1>10. CASE StartMerge
  BY <1>0, <1>10 DEF StartMerge
<1>11. CASE ContinueMerge
  BY <1>0, <1>11 DEF ContinueMerge
<1>12. CASE WriteOutput
  BY <1>0, <1>12 DEF WriteOutput
<1>13. CASE FailParent
  BY <1>0, <1>13 DEF FailParent
<1>14. ASSUME NEW i \in Children, ChildSteps(i) \/ FailChild(i) \/ KillChild(i)
       PROVE  ControlInv'
  <2>1. /\ Running(i)
        /\ UNCHANGED << given, parentVars >>
        /\ \/ UNCHANGED child
           \/ \E s \in {"writing", "finished", "failed", "killed"} :
                child' = [child EXCEPT ![i] = s]
    BY <1>0, <1>14 DEF ChildSteps, StartChild, WriteRecord, BrokenPipe, FinishChild,
                 FailChild, KillChild, Running
  <2> QED
    BY <1>0, <2>1 DEF Running
<1>15. CASE UNCHANGED vars
  BY <1>0, <1>15 DEF vars
<1> QED
  BY <1>0, <1>1, <1>2, <1>3, <1>4, <1>5, <1>6, <1>7, <1>8, <1>9, <1>10, <1>11, <1>12,
     <1>13, <1>14, <1>15
     DEF PSortNext, ParentSteps, AllEnded

-----------------------------------------------------------------------------
(* What the processes hold of the records.                                 *)

QueueInv ==
  /\ infile \in [0 .. record_num - 1 -> Freqs]
  /\ read_content \in [Children -> Seq(Record)]
  /\ pipe \in [Children -> Seq(Record)]
  /\ file_content \in [Children -> Seq(Record)]
  /\ \A i \in Children :
       /\ Len(pipe[i]) <= PipeSize
       /\ Len(file_content[i]) <= read_rec_num(i)
       /\ child[i] \in {"none", "forked"} =>
            read_content[i] = << >> /\ pipe[i] = << >> /\ file_content[i] = << >>
       /\ child[i] = "finished" => read_content[i] = << >>
       /\ parent \in {"options", "fork"} => file_content[i] = << >>
       /\ parent = "read" /\ i < index => Len(file_content[i]) = read_rec_num(i)
       /\ parent = "read" /\ i > index => file_content[i] = << >>
       /\ parent \in {"wait", "merge", "done"} =>
            Len(file_content[i]) = read_rec_num(i)

\* A chunk has the records that its child is to read.
LEMMA ChunkRecords ==
  ASSUME ControlInv, infile \in [0 .. record_num - 1 -> Freqs],
         NEW i \in Children, child[i] # "none"
  PROVE  /\ Chunk(i) \subseteq Record
         /\ IsFiniteSet(Chunk(i)) /\ Cardinality(Chunk(i)) = read_rec_num(i)
<1> DEFINE places == First(i) .. First(i) + read_rec_num(i) - 1
           f == [k \in places |-> [freq |-> infile[k], word |-> k]]
<1>1. Chunk(i) = {[freq |-> infile[k], word |-> k] : k \in places}
  BY DEF Chunk, ControlInv
<1>2. /\ First(i) \in Nat /\ read_rec_num(i) \in Nat \ {0} /\ record_num \in Nat
      /\ First(i) + read_rec_num(i) <= record_num
  BY ChunkWithin, ChunkSizes, ChunkNumber
<1>3. \A k \in places : k \in 0 .. record_num - 1 /\ infile[k] \in Freqs /\ k \in Int
  BY <1>2
<1>4. Chunk(i) \subseteq Record
  <2> HIDE DEF places
  <2> QED
    BY <1>1, <1>3 DEF Record
<1>5. f \in Bijection(places, Chunk(i))
  <2> HIDE DEF places
  <2> QED
    BY <1>1 DEF Bijection, Injection, Surjection, IsInjective
<1>6. ExistsBijection(places, Chunk(i))
  BY <1>5 DEF ExistsBijection
<1>7. IsFiniteSet(places) /\ Cardinality(places) = read_rec_num(i)
  <2>1. ASSUME NEW a \in Nat, NEW n \in Nat \ {0}
        PROVE  IsFiniteSet(a .. a + n - 1) /\ Cardinality(a .. a + n - 1) = n
    <3>1. a \in Int /\ a + n - 1 \in Int /\ ~ a > a + n - 1
          /\ (a + n - 1) - a + 1 = n
      OBVIOUS
    <3> QED
      BY ONLY <3>1, FS_Interval
  <2> QED
    BY <1>2, <2>1
<1> QED
  BY <1>4, <1>6, <1>7, FS_Bijection

\* An order of a finite set has each of its elements, once.
LEMMA Orders ==
  ASSUME NEW S, IsFiniteSet(S), NEW s \in SetToSeqs(S)
  PROVE  /\ s \in Seq(S) /\ Len(s) = Cardinality(S)
         /\ IsInjective(s) /\ Range(s) = S
<1> DEFINE n == Cardinality(S)
<1>1. n \in Nat
  BY FS_CardinalityType
<1>2. s \in [1 .. n -> S] /\ \A j, k \in 1 .. n : j # k => s[j] # s[k]
  BY DEF SetToSeqs
<1> HIDE DEF n
<1>3. s \in Seq(S) /\ Len(s) = n /\ IsInjective(s)
  BY <1>1, <1>2 DEF IsInjective
<1>4. s \in Injection(1 .. n, S)
  BY <1>2, <1>3 DEF Injection
<1>5. Cardinality(1 .. n) = n
  BY <1>1, FS_Interval
<1>6. s \in Surjection(1 .. n, S)
  BY <1>4, <1>5, FS_Injection DEF n
<1>7. Range(s) = S
  BY <1>2, <1>6 DEF Surjection, Range
<1> QED
  BY <1>3, <1>7 DEF n

LEMMA QueueInit ==
  PSortInit => QueueInv
<1>0. SUFFICES ASSUME PSortInit PROVE QueueInv
  OBVIOUS
<1>1. \A i \in Children : read_rec_num(i) \in Nat
  BY ChunkSizes
<1>2. PipeSize \in Nat
  BY PSortAssumption
<1>3. << >> \in Seq(Record) /\ Len(<< >>) = 0
  OBVIOUS
<1> QED
  BY <1>0, <1>1, <1>2, <1>3, ChunkNumber DEF PSortInit, QueueInv

LEMMA QueueStep ==
  ControlInv /\ QueueInv /\ [PSortNext]_vars => QueueInv'
<1>0. SUFFICES ASSUME ControlInv, QueueInv, [PSortNext]_vars PROVE QueueInv'
  OBVIOUS
<1> USE DEF QueueInv, parentVars, given, childVars, mergeVars
<1>a. /\ chunk_num \in Nat /\ record_num \in Nat
      /\ \A i \in Children : i \in Nat /\ i < chunk_num
      /\ \A i \in Children : read_rec_num(i) \in Nat \ {0}
      /\ PipeSize \in Nat
      /\ index \in 0 .. chunk_num
  BY <1>0, ChunkNumber, ChunkSizes, PSortAssumption DEF ControlInv
<1>c. index < chunk_num => index \in Children
  BY <1>a, ChunkNumber
<1>b. child \in [Children -> {"none", "forked", "writing", "finished", "failed",
                              "killed"}]
  BY <1>0 DEF ControlInv
<1>1. CASE ParseOption
  BY <1>0, <1>1 DEF ParseOption
<1>2. CASE RefuseOption
  BY <1>0, <1>2 DEF RefuseOption
<1>3. CASE MeasureFile
  BY <1>0, <1>3 DEF MeasureFile
<1>4. CASE Fork
  <2>1. index \in Children /\ parent = "fork"
    BY <1>4, <1>c DEF Fork
  <2>2. child[index] = "none"
    BY <1>0, <1>a, <2>1 DEF ControlInv
  <2> QED
    BY <1>0, <1>4, <1>b, <2>1, <2>2 DEF Fork
<1>5. CASE AllForked
  BY <1>0, <1>5, <1>a DEF AllForked
<1>6. CASE ReadRecord
  <2>1. /\ parent = "read" /\ index \in Children
        /\ Len(file_content[index]) < read_rec_num(index)
        /\ child[index] # "none"
        /\ UNCHANGED << given, parentVars, childVars >>
    <3>1. parent = "read" /\ index \in Children
      BY <1>6, <1>c DEF ReadRecord
    <3> QED
      BY <1>0, <1>6, <3>1 DEF ReadRecord, ControlInv
  <2>2. PICK r \in Record :
          /\ file_content' = [file_content EXCEPT ![index] = Append(@, r)]
          /\ child[index] # "forked"
          /\ \/ /\ pipe[index] # << >>
                /\ pipe' = [pipe EXCEPT ![index] = Tail(@)]
             \/ UNCHANGED pipe
    <3>1. CASE /\ pipe[index] # << >>
               /\ Store(Head(pipe[index]))
               /\ pipe' = [pipe EXCEPT ![index] = Tail(@)]
      <4>1. Head(pipe[index]) \in Record
        BY <1>0, <2>1, <3>1
      <4> QED
        BY <1>0, <2>1, <3>1, <4>1 DEF Store
    <3>2. CASE /\ ~ HasWriter(index)
               /\ \E f \in Freqs : Store([freq |-> f, word |-> NoWord])
               /\ UNCHANGED pipe
      <4>1. PICK f \in Freqs : Store([freq |-> f, word |-> NoWord])
        BY <3>2
      <4>2. [freq |-> f, word |-> NoWord] \in Record
        BY DEF Record, NoWord
      <4> QED
        BY <3>2, <4>1, <4>2 DEF Store, HasWriter, Running
    <3> QED
      BY <1>6, <3>1, <3>2 DEF ReadRecord
  <2>3. /\ Append(file_content[index], r) \in Seq(Record)
        /\ Len(Append(file_content[index], r)) = Len(file_content[index]) + 1
        /\ Len(file_content[index]) \in Nat
    BY <1>0, <2>1, <2>2
  <2>4. /\ file_content' \in [Children -> Seq(Record)]
        /\ \A i \in Children :
             /\ Len(file_content'[i]) <= read_rec_num(i)
             /\ i # index => file_content'[i] = file_content[i]
    BY <1>0, <1>a, <2>1, <2>2, <2>3
  <2>5. /\ pipe' \in [Children -> Seq(Record)]
        /\ \A i \in Children :
             /\ Len(pipe'[i]) <= PipeSize
             /\ i # index => pipe'[i] = pipe[i]
    <3>1. CASE UNCHANGED pipe
      BY <1>0, <3>1
    <3>2. CASE pipe[index] # << >> /\ pipe' = [pipe EXCEPT ![index] = Tail(@)]
      <4>1. /\ Tail(pipe[index]) \in Seq(Record)
            /\ Len(Tail(pipe[index])) = Len(pipe[index]) - 1
            /\ Len(pipe[index]) \in Nat
        BY <1>0, <2>1, <3>2
      <4> QED
        BY <1>0, <1>a, <2>1, <3>2, <4>1
    <3> QED
      BY <2>2, <3>1, <3>2
  <2> QED
    BY <1>0, <1>a, <2>1, <2>2, <2>4, <2>5
<1>7. CASE NextPipe
  <2>1. /\ parent = "read" /\ index \in Children /\ parent' = parent
        /\ index' = index + 1
        /\ Len(file_content[index]) = read_rec_num(index)
        /\ UNCHANGED << given, childVars, pipe, mergeVars >>
    <3>1. index \in Children
      BY <1>7, <1>c DEF NextPipe
    <3>2. Len(file_content[index]) \in Nat
      BY <1>0, <3>1
    <3> QED
      BY <1>0, <1>7, <1>a, <3>1, <3>2 DEF NextPipe, ChunkRead
  <2> QED
    BY <1>0, <1>a, <2>1
<1>8. CASE AllRead
  BY <1>0, <1>8, <1>a DEF AllRead
<1>9. CASE Wait
  BY <1>0, <1>9 DEF Wait
<1>10. CASE StartMerge
  BY <1>0, <1>10 DEF StartMerge
<1>11. CASE ContinueMerge
  BY <1>0, <1>11 DEF ContinueMerge, MergeStep
<1>12. CASE WriteOutput
  BY <1>0, <1>12 DEF WriteOutput
<1>13. CASE FailParent
  BY <1>0, <1>13 DEF FailParent
<1>14. ASSUME NEW i \in Children, StartChild(i) PROVE QueueInv'
  <2>1. PICK s \in SetToSeqs(Chunk(i)) :
          read_content' = [read_content EXCEPT ![i] = s]
    BY <1>14 DEF StartChild
  <2>2. s \in Seq(Record)
    <3>1. IsFiniteSet(Chunk(i)) /\ Chunk(i) \subseteq Record
      BY <1>0, <1>14, ChunkRecords DEF StartChild
    <3>2. s \in Seq(Chunk(i))
      BY <3>1, Orders
    <3> QED
      BY <3>1, <3>2, SeqMonotonic
  <2> QED
    BY <1>0, <1>14, <1>b, <2>1, <2>2 DEF StartChild
<1>15. ASSUME NEW i \in Children, WriteRecord(i) PROVE QueueInv'
  <2>1. /\ child[i] = "writing" /\ read_content[i] # << >>
        /\ Len(pipe[i]) < PipeSize
        /\ pipe' = [pipe EXCEPT ![i] = Append(@, Head(read_content[i]))]
        /\ read_content' = [read_content EXCEPT ![i] = Tail(@)]
        /\ UNCHANGED << given, parentVars, child, mergeVars >>
    BY <1>15 DEF WriteRecord
  <2>2. /\ Append(pipe[i], Head(read_content[i])) \in Seq(Record)
        /\ Len(Append(pipe[i], Head(read_content[i]))) = Len(pipe[i]) + 1
        /\ Tail(read_content[i]) \in Seq(Record)
        /\ Len(pipe[i]) \in Nat
    BY <1>0, <2>1
  <2>3. Len(pipe[i]) + 1 <= PipeSize
    BY <1>a, <2>1, <2>2
  <2>4. /\ pipe' \in [Children -> Seq(Record)]
        /\ read_content' \in [Children -> Seq(Record)]
        /\ \A j \in Children :
             /\ Len(pipe'[j]) <= PipeSize
             /\ j # i => pipe'[j] = pipe[j] /\ read_content'[j] = read_content[j]
    BY <1>0, <2>1, <2>2, <2>3
  <2> QED
    BY <1>0, <2>1, <2>4
<1>16. ASSUME NEW i \in Children,
              BrokenPipe(i) \/ FinishChild(i) \/ FailChild(i) \/ KillChild(i)
       PROVE  QueueInv'
  <2>1. /\ UNCHANGED << given, parentVars, read_content, pipe, mergeVars >>
        /\ \/ child' = [child EXCEPT ![i] = "finished"] /\ read_content[i] = << >>
           \/ child' = [child EXCEPT ![i] = "failed"]
           \/ child' = [child EXCEPT ![i] = "killed"]
    BY <1>16 DEF BrokenPipe, FinishChild, FailChild, KillChild
  <2> QED
    BY <1>0, <1>b, <2>1
<1>17. CASE UNCHANGED vars
  BY <1>0, <1>17 DEF vars
<1> QED
  BY <1>0, <1>1, <1>2, <1>3, <1>4, <1>5, <1>6, <1>7, <1>8, <1>9, <1>10, <1>11, <1>12,
     <1>13, <1>14, <1>15, <1>16, <1>17
     DEF PSortNext, ParentSteps, ChildSteps, AllEnded

-----------------------------------------------------------------------------
(* What is between a child and the merge.                                  *)

Travelling(i) == file_content[i] \o pipe[i] \o read_content[i]

\* The records of child i's chunk, each once and sorted.
SortedChunk(s, i) ==
  /\ Len(s) = read_rec_num(i)
  /\ Sorted(s)
  /\ IsInjective(s)
  /\ Range(s) = Chunk(i)

TravelInv ==
  \A i \in Children :
    child[i] \in {"writing", "finished"} => SortedChunk(Travelling(i), i)

\* A record that goes from the head of t to the end of s stays where it is in
\* the two of them.
LEMMA Pass ==
  ASSUME NEW S, NEW s \in Seq(S), NEW t \in Seq(S), t # << >>
  PROVE  Append(s, Head(t)) \o Tail(t) = s \o t
<1>1. /\ Head(t) \in S /\ Tail(t) \in Seq(S) /\ Len(Tail(t)) = Len(t) - 1
      /\ Len(s) \in Nat /\ Len(t) \in Nat \ {0}
      /\ \A k \in 1 .. Len(Tail(t)) : Tail(t)[k] = t[k + 1]
      /\ Head(t) = t[1]
  BY HeadTailProperties, LenProperties, EmptySeq
<1> DEFINE a == Append(s, Head(t))
<1>2. /\ a \in Seq(S) /\ Len(a) = Len(s) + 1
      /\ \A k \in 1 .. Len(s) : a[k] = s[k]
      /\ a[Len(s) + 1] = t[1]
  BY <1>1, AppendProperties
<1>3. /\ a \o Tail(t) \in Seq(S) /\ s \o t \in Seq(S)
      /\ Len(a \o Tail(t)) = Len(a) + Len(Tail(t))
      /\ Len(s \o t) = Len(s) + Len(t)
      /\ \A k \in 1 .. Len(a) + Len(Tail(t)) :
           (a \o Tail(t))[k] = IF k <= Len(a) THEN a[k] ELSE Tail(t)[k - Len(a)]
      /\ \A k \in 1 .. Len(s) + Len(t) :
           (s \o t)[k] = IF k <= Len(s) THEN s[k] ELSE t[k - Len(s)]
  <2> DEFINE r == Tail(t)
  <2>1. a \in Seq(S) /\ r \in Seq(S)
    BY <1>1, <1>2
  <2> HIDE DEF a, r
  <2>2. /\ a \o r \in Seq(S)
        /\ Len(a \o r) = Len(a) + Len(r)
        /\ \A k \in 1 .. Len(a) + Len(r) :
             (a \o r)[k] = IF k <= Len(a) THEN a[k] ELSE r[k - Len(a)]
    BY ONLY <2>1, ConcatProperties
  <2>3. /\ s \o t \in Seq(S)
        /\ Len(s \o t) = Len(s) + Len(t)
        /\ \A k \in 1 .. Len(s) + Len(t) :
             (s \o t)[k] = IF k <= Len(s) THEN s[k] ELSE t[k - Len(s)]
    BY ConcatProperties
  <2> QED
    BY ONLY <2>2, <2>3 DEF r
<1> HIDE DEF a
<1>4. Len(a \o Tail(t)) = Len(s \o t)
  BY <1>1, <1>2, <1>3
<1>5. ASSUME NEW k \in 1 .. Len(a \o Tail(t))
      PROVE  (a \o Tail(t))[k] = (s \o t)[k]
  <2>1. CASE k <= Len(s)
    BY <1>1, <1>2, <1>3, <2>1
  <2>2. CASE k = Len(s) + 1
    BY <1>1, <1>2, <1>3, <2>2
  <2>3. CASE k > Len(s) + 1
    <3>1. (a \o Tail(t))[k] = Tail(t)[k - (Len(s) + 1)]
      BY <1>1, <1>2, <1>3, <2>3
    <3>2. k - (Len(s) + 1) \in 1 .. Len(Tail(t))
      BY <1>1, <1>2, <1>3, <2>3
    <3>3. Tail(t)[k - (Len(s) + 1)] = t[k - Len(s)]
      BY <1>1, <3>2
    <3> QED
      BY <1>1, <1>2, <1>3, <2>3, <3>1, <3>3
  <2> QED
    BY <1>1, <1>2, <1>3, <2>1, <2>2, <2>3
<1>6. a \o Tail(t) = s \o t
  BY <1>3, <1>4, <1>5, SeqEqual
<1> QED
  BY <1>6 DEF a

LEMMA TravelInit ==
  PSortInit => TravelInv
BY DEF PSortInit, TravelInv

\* A step that leaves what travels to a child alone keeps it a sorted chunk.
LEMMA TravelKept ==
  ASSUME TravelInv, NEW i \in Children,
         child'[i] \in {"writing", "finished"} => child[i] \in {"writing", "finished"},
         Travelling(i)' = Travelling(i), infile' = infile, from'[i] = from[i]
  PROVE  child'[i] \in {"writing", "finished"} => SortedChunk(Travelling(i), i)'
<1>1. Chunk(i)' = Chunk(i)
  BY DEF Chunk, read_rec_num, chunk_num
<1>2. read_rec_num(i)' = read_rec_num(i)
  BY DEF read_rec_num, chunk_num
<1>3. ASSUME SortedChunk(Travelling(i), i) PROVE SortedChunk(Travelling(i), i)'
  BY <1>1, <1>2, <1>3 DEF SortedChunk, Sorted
<1> QED
  BY <1>3 DEF TravelInv

LEMMA TravelStep ==
  ControlInv /\ QueueInv /\ TravelInv /\ [PSortNext]_vars => TravelInv'
<1>0. SUFFICES ASSUME ControlInv, QueueInv, TravelInv, [PSortNext]_vars
      PROVE    TravelInv'
  OBVIOUS
<1> USE DEF parentVars, given, childVars, mergeVars
<1>a. SUFFICES ASSUME NEW i \in Children, child'[i] \in {"writing", "finished"}
      PROVE  SortedChunk(Travelling(i), i)'
  BY DEF TravelInv, Children, chunk_num
<1>b. /\ child \in [Children -> {"none", "forked", "writing", "finished", "failed",
                                 "killed"}]
      /\ file_content \in [Children -> Seq(Record)]
      /\ pipe \in [Children -> Seq(Record)]
      /\ read_content \in [Children -> Seq(Record)]
      /\ from \in [Children -> 0 .. record_num]
  BY <1>0 DEF ControlInv, QueueInv
<1>c. index < chunk_num => index \in Children
  BY <1>0, ChunkNumber DEF ControlInv
<1>1. ASSUME child[i] \in {"writing", "finished"}, UNCHANGED << infile, from >>,
             Travelling(i)' = Travelling(i)
      PROVE  SortedChunk(Travelling(i), i)'
  BY <1>0, <1>a, <1>1, TravelKept
<1>2. ASSUME UNCHANGED << infile, from, child, read_content, pipe, file_content >>
      PROVE  SortedChunk(Travelling(i), i)'
  BY <1>1, <1>2, <1>a DEF Travelling
<1>3. CASE Fork
  <2>1. /\ child' = [child EXCEPT ![index] = "forked"] /\ index \in Children
        /\ from' = [from EXCEPT ![index] = read_offset]
        /\ UNCHANGED << infile, read_content, pipe, file_content >>
    BY <1>3, <1>c DEF Fork, Inherit
  <2>2. i # index /\ child'[i] = child[i] /\ from'[i] = from[i]
    BY <1>a, <1>b, <2>1
  <2>3. Travelling(i)' = Travelling(i)
    BY <2>1 DEF Travelling
  <2> QED
    BY <1>0, <1>a, <2>1, <2>2, <2>3, TravelKept
<1>4. CASE ReadRecord
  <2>1. /\ parent = "read" /\ index \in Children
        /\ Len(file_content[index]) < read_rec_num(index)
        /\ UNCHANGED << infile, from, child, read_content >>
    BY <1>4, <1>c DEF ReadRecord
  <2>2. child[i] \in {"writing", "finished"}
    BY <1>a, <2>1
  <2>3. CASE i # index
    <3>1. Travelling(i)' = Travelling(i)
      BY <1>4, <1>b, <2>1, <2>3 DEF ReadRecord, Store, Travelling
    <3> QED
      BY <1>1, <2>1, <2>2, <3>1
  <2>4. CASE i = index /\ pipe[i] # << >>
    <3>1. /\ file_content'[i] = Append(file_content[i], Head(pipe[i]))
          /\ pipe'[i] = Tail(pipe[i])
          /\ read_content'[i] = read_content[i]
      BY <1>4, <1>b, <2>1, <2>4 DEF ReadRecord, Store
    <3>2. file_content'[i] \o pipe'[i] = file_content[i] \o pipe[i]
      <4>1. file_content[i] \in Seq(Record) /\ pipe[i] \in Seq(Record)
        BY <1>b
      <4> DEFINE f == file_content[i]
                 p == pipe[i]
      <4>2. f \in Seq(Record) /\ p \in Seq(Record) /\ p # << >>
        BY <2>4, <4>1
      <4> HIDE DEF f, p
      <4>3. Append(f, Head(p)) \o Tail(p) = f \o p
        BY <4>2, Pass
      <4> QED
        BY <3>1, <4>3 DEF f, p
    <3>3. Travelling(i)' = Travelling(i)
      BY <3>1, <3>2 DEF Travelling
    <3> QED
      BY <1>1, <2>1, <2>2, <3>3
  <2>5. CASE i = index /\ pipe[i] = << >>
    <3>1. read_content[i] = << >>
      <4>1. ~ Running(i)
        BY <1>4, <2>5 DEF ReadRecord, HasWriter
      <4> QED
        BY <1>0, <2>2, <4>1 DEF Running, QueueInv
    <3>2. Travelling(i) = file_content[i]
      BY <1>b, <2>5, <3>1, ConcatEmptySeq DEF Travelling
    <3>3. Len(file_content[i]) = read_rec_num(i)
      BY <1>0, <2>2, <3>2 DEF TravelInv, SortedChunk
    <3>4. read_rec_num(i) \in Nat
      BY ChunkSizes
    <3> QED
      BY <2>1, <2>5, <3>3, <3>4
  <2> QED
    BY <2>3, <2>4, <2>5
<1>5. ASSUME NEW j \in Children, StartChild(j) PROVE SortedChunk(Travelling(i), i)'
  <2>1. PICK s \in SetToSeqs(Chunk(j)) :
          Sorted(s) /\ read_content' = [read_content EXCEPT ![j] = s]
    BY <1>5 DEF StartChild
  <2>2. /\ child[j] = "forked" /\ child' = [child EXCEPT ![j] = "writing"]
        /\ UNCHANGED << infile, from, pipe, file_content >>
    BY <1>5 DEF StartChild
  <2>3. CASE i # j
    <3>1. /\ child[i] \in {"writing", "finished"}
          /\ Travelling(i)' = Travelling(i)
      BY <1>a, <1>b, <2>1, <2>2, <2>3 DEF Travelling
    <3> QED
      BY <1>1, <2>2, <3>1
  <2>4. CASE i = j
    <3>1. /\ IsFiniteSet(Chunk(i)) /\ Cardinality(Chunk(i)) = read_rec_num(i)
          /\ Chunk(i) \subseteq Record
      BY <1>0, <2>2, <2>4, ChunkRecords DEF QueueInv
    <3>2. /\ s \in Seq(Chunk(i)) /\ Len(s) = read_rec_num(i)
          /\ IsInjective(s) /\ Range(s) = Chunk(i)
      BY <2>4, <3>1, Orders
    <3>3. /\ file_content'[i] = << >> /\ pipe'[i] = << >> /\ read_content'[i] = s
      BY <1>0, <1>b, <2>1, <2>2, <2>4 DEF QueueInv
    <3>4. Travelling(i)' = s
      <4>1. << >> \in Seq(Chunk(i))
        OBVIOUS
      <4>2. << >> \o << >> = << >> /\ << >> \o s = s
        BY <3>2, <4>1, ConcatEmptySeq
      <4> QED
        BY <3>3, <4>2 DEF Travelling
    <3>5. Chunk(i)' = Chunk(i) /\ read_rec_num(i)' = read_rec_num(i)
      BY <2>2 DEF Chunk, read_rec_num, chunk_num
    <3> QED
      BY <2>1, <3>2, <3>4, <3>5 DEF SortedChunk, Sorted
  <2> QED
    BY <2>3, <2>4
<1>6. ASSUME NEW j \in Children, WriteRecord(j) PROVE SortedChunk(Travelling(i), i)'
  <2>1. /\ child[j] = "writing" /\ read_content[j] # << >>
        /\ pipe' = [pipe EXCEPT ![j] = Append(@, Head(read_content[j]))]
        /\ read_content' = [read_content EXCEPT ![j] = Tail(@)]
        /\ UNCHANGED << infile, from, child, file_content >>
    BY <1>6 DEF WriteRecord
  <2>2. CASE i # j
    <3>1. Travelling(i)' = Travelling(i)
      BY <1>b, <2>1, <2>2 DEF Travelling
    <3> QED
      BY <1>1, <1>a, <2>1, <3>1
  <2>3. CASE i = j
    <3> DEFINE f == file_content[i]
               p == pipe[i]
               r == read_content[i]
    <3>1. f \in Seq(Record) /\ p \in Seq(Record) /\ r \in Seq(Record) /\ r # << >>
      BY <1>b, <2>1, <2>3
    <3>2. Travelling(i) = (f \o p) \o r
      BY DEF Travelling
    <3> DEFINE a == Append(p, Head(r))
               b == Tail(r)
    <3>3. Travelling(i)' = (f \o a) \o b
      BY <1>b, <2>1, <2>3 DEF Travelling
    <3> HIDE DEF f, p, r
    <3>4. a \in Seq(Record) /\ b \in Seq(Record) /\ a \o b = p \o r
      BY <3>1, Pass
    <3> HIDE DEF a, b
    <3>5. (f \o a) \o b = f \o (a \o b)
      <4>1. f \in Seq(Record) /\ a \in Seq(Record) /\ b \in Seq(Record)
        BY <3>1, <3>4
      <4> QED
        BY ONLY <4>1, ConcatAssociative
    <3>6. (f \o p) \o r = f \o (p \o r)
      BY <3>1, ConcatAssociative
    <3>7. Travelling(i)' = Travelling(i)
      BY <3>2, <3>3, <3>4, <3>5, <3>6
    <3> QED
      BY <1>1, <1>a, <2>1, <3>7
  <2> QED
    BY <2>2, <2>3
<1>7. ASSUME NEW j \in Children,
             BrokenPipe(j) \/ FinishChild(j) \/ FailChild(j) \/ KillChild(j)
      PROVE  SortedChunk(Travelling(i), i)'
  <2>1. /\ UNCHANGED << infile, from, read_content, pipe, file_content >>
        /\ \/ child' = [child EXCEPT ![j] = "finished"] /\ child[j] = "writing"
           \/ child' = [child EXCEPT ![j] = "failed"]
           \/ child' = [child EXCEPT ![j] = "killed"]
    BY <1>7 DEF BrokenPipe, FinishChild, FailChild, KillChild
  <2>2. child[i] \in {"writing", "finished"}
    BY <1>a, <1>b, <2>1
  <2>3. Travelling(i)' = Travelling(i)
    BY <2>1 DEF Travelling
  <2> QED
    BY <1>1, <2>1, <2>2, <2>3
<1>8. ASSUME \/ ParseOption \/ RefuseOption \/ MeasureFile \/ AllForked \/ NextPipe
             \/ AllRead \/ Wait \/ StartMerge \/ ContinueMerge \/ WriteOutput
             \/ FailParent \/ UNCHANGED vars
      PROVE  SortedChunk(Travelling(i), i)'
  <2>1. UNCHANGED << infile, from, child, read_content, pipe, file_content >>
    BY <1>8 DEF ParseOption, RefuseOption, MeasureFile, AllForked, NextPipe, AllRead,
                Wait, StartMerge, ContinueMerge, MergeStep, WriteOutput, FailParent, vars
  <2> QED
    BY <1>2, <2>1
<1> QED
  BY <1>0, <1>3, <1>4, <1>5, <1>6, <1>7, <1>8
     DEF PSortNext, ParentSteps, ChildSteps, AllEnded

-----------------------------------------------------------------------------
(* The merge of what has arrived.                                          *)

MergingInv ==
  /\ Merging => MergeInv
  /\ parent \in {"options", "fork", "read", "wait"} =>
       merge_array = << >> /\ sorted_file_content = << >>

PSortInv == ControlInv /\ QueueInv /\ TravelInv /\ MergingInv

InputRecords == {[freq |-> infile[k], word |-> k] : k \in 0 .. record_num - 1}

\* When the parent has waited for all children and none was killed, it has all
\* records of each of them.
LEMMA ChunkArrived ==
  ASSUME ControlInv, QueueInv, TravelInv, NEW i \in Children,
         parent \in {"wait", "merge"}, waited = Children, ~ Killed
  PROVE  SortedChunk(file_content[i], i)
<1>1. child[i] = "finished"
  BY DEF ControlInv, Killed
<1>2. /\ file_content[i] \in Seq(Record) /\ pipe[i] \in Seq(Record)
      /\ read_content[i] = << >>
      /\ Len(file_content[i]) = read_rec_num(i)
  BY <1>1 DEF QueueInv
<1>3. SortedChunk(Travelling(i), i)
  BY <1>1 DEF TravelInv
<1>4. Travelling(i) = file_content[i] \o pipe[i]
  <2> DEFINE f == file_content[i]
             p == pipe[i]
  <2>1. f \in Seq(Record) /\ p \in Seq(Record)
    BY <1>2
  <2>2. Travelling(i) = (f \o p) \o << >>
    BY <1>2 DEF Travelling
  <2> HIDE DEF f, p
  <2>3. f \o p \in Seq(Record)
    BY <2>1, ConcatProperties
  <2>4. (f \o p) \o << >> = f \o p
    BY <2>3, ConcatEmptySeq
  <2> QED
    BY <2>2, <2>4 DEF f, p
<1>5. pipe[i] = << >>
  <2> DEFINE f == file_content[i]
             p == pipe[i]
             n == read_rec_num(i)
  <2>1. f \in Seq(Record) /\ p \in Seq(Record) /\ Len(f) = n
    BY <1>2
  <2>2. Len(f \o p) = n
    BY <1>3, <1>4 DEF SortedChunk
  <2> HIDE DEF f, p, n
  <2>3. Len(f \o p) = Len(f) + Len(p)
    BY <2>1, ConcatProperties
  <2>4. Len(f) \in Nat /\ Len(p) \in Nat
    BY <2>1
  <2>5. Len(p) = 0
    BY <2>1, <2>2, <2>3, <2>4
  <2>6. p = << >>
    BY <2>1, <2>5, EmptySeq
  <2> QED
    BY <2>6 DEF p
<1>6. file_content[i] \o << >> = file_content[i]
  BY <1>2, ConcatEmptySeq
<1> QED
  BY <1>3, <1>4, <1>5, <1>6

\* A record of a chunk is the one that its word says.
LEMMA ChunkMember ==
  ASSUME ControlInv, NEW i \in Children, child[i] # "none", NEW r \in Chunk(i)
  PROVE  /\ r.word \in First(i) .. First(i) + read_rec_num(i) - 1
         /\ r \in InputRecords
<1>1. PICK k \in First(i) .. First(i) + read_rec_num(i) - 1 :
        r = [freq |-> infile[k], word |-> k]
  BY DEF Chunk, ControlInv
<1>2. /\ First(i) \in Nat /\ read_rec_num(i) \in Nat \ {0} /\ record_num \in Nat
      /\ First(i) + read_rec_num(i) <= record_num
  BY ChunkWithin, ChunkSizes, ChunkNumber
<1>3. k \in 0 .. record_num - 1
  BY <1>2
<1> QED
  BY <1>1, <1>3 DEF InputRecords

\* What has arrived can be merged: it is sorted, and it is all of the file.
LEMMA AllArrived ==
  ASSUME ControlInv, QueueInv, TravelInv,
         parent \in {"wait", "merge"}, waited = Children, ~ Killed
  PROVE  ContentInv /\ Delivered = InputRecords
<1>1. \A i \in Children :
        /\ SortedChunk(file_content[i], i) /\ child[i] # "none"
        /\ file_content[i] \in Seq(Record)
  BY ChunkArrived DEF QueueInv, ControlInv
<1>2. ASSUME NEW i \in Children
      PROVE  /\ file_content[i] \in [1 .. read_rec_num(i) -> Record]
             /\ Sorted(file_content[i])
  BY <1>1 DEF SortedChunk
<1>3. ASSUME NEW i \in Children, NEW j \in Children,
             NEW k \in 1 .. read_rec_num(i), NEW l \in 1 .. read_rec_num(j),
             file_content[i][k] = file_content[j][l]
      PROVE  i = j /\ k = l
  <2> DEFINE r == file_content[i][k]
  <2>1. r \in Chunk(i) /\ r \in Chunk(j)
    BY <1>1, <1>2, <1>3 DEF SortedChunk, Range
  <2>2. /\ r.word \in First(i) .. First(i) + read_rec_num(i) - 1
        /\ r.word \in First(j) .. First(j) + read_rec_num(j) - 1
    <3> HIDE DEF r
    <3> QED
      BY <1>1, <2>1, ChunkMember
  <2>3. /\ First(i) \in Nat /\ read_rec_num(i) \in Nat /\ i \in Nat
        /\ First(j) \in Nat /\ read_rec_num(j) \in Nat /\ j \in Nat
    BY ChunkWithin, ChunkSizes, ChunkNumber
  <2>4. ~ i < j /\ ~ j < i
    <3>1. i < j => First(i) + read_rec_num(i) <= First(j)
      BY ChunksInOrder
    <3>2. j < i => First(j) + read_rec_num(j) <= First(i)
      BY ChunksInOrder
    <3> HIDE DEF r
    <3> QED
      BY <2>2, <2>3, <3>1, <3>2
  <2>5. i = j
    BY <2>3, <2>4
  <2> QED
    BY <1>1, <1>2, <1>3, <2>5 DEF SortedChunk, IsInjective
<1>4. Delivered \subseteq InputRecords
  <2> SUFFICES ASSUME NEW i \in Children, NEW r \in Range(file_content[i])
      PROVE  r \in InputRecords
    BY DEF Delivered
  <2>1. r \in Chunk(i)
    BY <1>1 DEF SortedChunk
  <2> QED
    BY <1>1, <2>1, ChunkMember
<1>5. InputRecords \subseteq Delivered
  <2> SUFFICES ASSUME NEW k \in 0 .. record_num - 1
      PROVE  [freq |-> infile[k], word |-> k] \in Delivered
    BY DEF InputRecords
  <2>1. PICK i \in Children : k \in First(i) .. First(i) + read_rec_num(i) - 1
    BY ChunkOf
  <2>2. [freq |-> infile[k], word |-> k] \in Chunk(i)
    BY <1>1, <2>1 DEF Chunk, ControlInv
  <2> QED
    BY <1>1, <2>2 DEF SortedChunk, Delivered
<1> QED
  BY <1>2, <1>3, <1>4, <1>5 DEF ContentInv

LEMMA MergingInit ==
  PSortInit => MergingInv
BY DEF PSortInit, MergingInv, Merging

\* While the parent merges no child runs.
LEMMA NobodyRuns ==
  ASSUME ControlInv, parent \in {"merge", "done"}, NEW i \in Children
  PROVE  ~ Running(i)
BY DEF ControlInv, Running

LEMMA MergingStep ==
  PSortInv /\ [PSortNext]_vars => MergingInv'
<1>0. SUFFICES ASSUME PSortInv, [PSortNext]_vars PROVE MergingInv'
  OBVIOUS
<1> USE DEF parentVars, given, childVars
<1>a. ControlInv /\ QueueInv /\ TravelInv /\ MergingInv
  BY <1>0 DEF PSortInv
<1>1. ASSUME UNCHANGED << child, parent, mergeVars >> PROVE MergingInv'
  <2>1. Killed' = Killed
    BY <1>1 DEF Killed, Children, chunk_num
  <2>2. MergeInv => MergeInv'
    BY <1>1, MergeInvStep
  <2> QED
    BY <1>1, <1>a, <2>1, <2>2 DEF MergingInv, Merging, mergeVars
<1>2. ASSUME UNCHANGED << merge_array, sorted_file_content >>,
             parent \notin {"merge", "done", "failed"}, parent' # "merge"
      PROVE  MergingInv'
  BY <1>1, <1>2, <1>a DEF MergingInv, Merging, ControlInv
<1>3. CASE \/ ParseOption \/ RefuseOption \/ MeasureFile \/ Fork \/ AllForked
           \/ ReadRecord \/ NextPipe \/ AllRead \/ Wait
  <2>1. /\ UNCHANGED << merge_array, sorted_file_content >>
        /\ parent \notin {"merge", "done", "failed"} /\ parent' # "merge"
    BY <1>3 DEF ParseOption, RefuseOption, MeasureFile, Fork, AllForked, ReadRecord,
                NextPipe, AllRead, Wait, mergeVars
  <2> QED
    BY <1>2, <2>1
<1>4. CASE StartMerge
  <2>1. /\ parent = "wait" /\ waited = Children /\ parent' = "merge"
        /\ merge_array' = FirstEntries
        /\ UNCHANGED << child, file_content, sorted_file_content >>
        /\ sorted_file_content = << >>
    BY <1>4, <1>a DEF StartMerge, MergingInv, Merging
  <2>2. ASSUME ~ Killed' PROVE MergeInv'
    <3>1. ~ Killed
      BY <2>1, <2>2 DEF Killed, Children, chunk_num
    <3>2. ContentInv
      BY <1>a, <2>1, <3>1, AllArrived
    <3>3. ContentInv'
      BY <2>1, <3>2 DEF ContentInv, Sorted, Children, chunk_num, read_rec_num
    <3>4. merge_array' = FirstEntries'
      BY <2>1 DEF FirstEntries, Entry, Children, chunk_num
    <3>5. sorted_file_content' = << >>
      BY <2>1
    <3>6. (ContentInv /\ merge_array = FirstEntries /\ sorted_file_content = << >>
             => MergeInv)'
      BY MergeInvStart, PTL
    <3> QED
      BY <3>3, <3>4, <3>5, <3>6
  <2> QED
    BY <2>1, <2>2 DEF MergingInv, Merging
<1>5. CASE ContinueMerge
  <2>1. MergeStep /\ parent = "merge" /\ parent' = parent /\ child' = child
    BY <1>5 DEF ContinueMerge
  <2>2. Killed' = Killed
    BY <2>1 DEF Killed, Children, chunk_num
  <2>3. MergeInv => MergeInv'
    BY <2>1, MergeInvStep
  <2> QED
    BY <1>a, <2>1, <2>2, <2>3 DEF MergingInv, Merging
<1>6. CASE WriteOutput \/ FailParent
  <2>1. parent' \in {"done", "failed"}
    BY <1>6 DEF WriteOutput, FailParent
  <2> QED
    BY <2>1 DEF MergingInv, Merging
<1>7. ASSUME NEW i \in Children, ChildSteps(i) \/ FailChild(i) \/ KillChild(i)
      PROVE  MergingInv'
  <2>1. Running(i) /\ UNCHANGED << parent, mergeVars >>
    BY <1>7 DEF ChildSteps, StartChild, WriteRecord, BrokenPipe, FinishChild,
                FailChild, KillChild, Running
  <2>2. parent # "merge"
    BY <1>a, <2>1, NobodyRuns
  <2> QED
    BY <1>a, <2>1, <2>2 DEF MergingInv, Merging, mergeVars
<1>8. CASE UNCHANGED vars
  BY <1>1, <1>8 DEF vars
<1> QED
  BY <1>0, <1>3, <1>4, <1>5, <1>6, <1>7, <1>8 DEF PSortNext, ParentSteps, AllEnded

LEMMA PSortInvariant ==
  PSortSpec => []PSortInv
<1>1. PSortInit => PSortInv
  BY ControlInit, QueueInit, TravelInit, MergingInit DEF PSortInv
<1>2. PSortInv /\ [PSortNext]_vars => PSortInv'
  BY ControlStep, QueueStep, TravelStep, MergingStep DEF PSortInv
<1> QED
  BY <1>1, <1>2, PTL DEF PSortSpec

-----------------------------------------------------------------------------
(* The theorems.                                                           *)

\* No pipe is filled beyond its size and no chunk is read beyond its end,
\* whichever process runs, fails or is killed when (psort.c:64-131).
THEOREM PSortTypeCorrect ==
  PSortSpec => []PSortTypeOK
<1>1. ASSUME PSortInv PROVE PSortTypeOK
  <2>1. ASSUME Merging PROVE MergeTypeOK
    <3>1. waited = Children /\ parent = "merge" /\ ~ Killed
      BY <1>1, <2>1 DEF PSortInv, ControlInv, Merging
    <3>2. Delivered = InputRecords
      BY <1>1, <3>1, AllArrived DEF PSortInv
    <3>3. WordsInv
      BY <3>2 DEF WordsInv, InputRecords
    <3> QED
      BY <1>1, <2>1, <3>3, TypesFollow DEF PSortInv, MergingInv
  <2> QED
    BY <1>1, <2>1 DEF PSortInv, ControlInv, QueueInv, PSortTypeOK
<1>2. PSortInv => PSortTypeOK
  BY <1>1
<1> QED
  BY <1>2, PSortInvariant, PTL

\* For every number of records and of processes, each record is in the chunk of
\* exactly one child (helper.c:168-175, psort.c:86).
THEOREM ChunksAlwaysCover ==
  PSortSpec => []ChunksCover
<1>1. ASSUME PSortInv PROVE ChunksCover
  <2>1. SUFFICES ASSUME parent \in {"read", "wait", "merge", "done"},
                        NEW k \in 0 .. record_num - 1
        PROVE  Cardinality({i \in Children :
                              k \in from[i] .. from[i] + read_rec_num(i) - 1}) = 1
    BY DEF ChunksCover
  <2>2. \A i \in Children : from[i] = First(i)
    BY <1>1, <2>1 DEF PSortInv, ControlInv
  <2>3. PICK i \in Children : k \in First(i) .. First(i) + read_rec_num(i) - 1
    BY ChunkOf
  <2>4. ASSUME NEW j \in Children, j # i
        PROVE  k \notin First(j) .. First(j) + read_rec_num(j) - 1
    <3>1. /\ First(i) \in Nat /\ read_rec_num(i) \in Nat /\ i \in Nat
          /\ First(j) \in Nat /\ read_rec_num(j) \in Nat /\ j \in Nat
      BY ChunkWithin, ChunkSizes, ChunkNumber
    <3>2. CASE i < j
      <4>1. First(i) + read_rec_num(i) <= First(j)
        BY <3>2, ChunksInOrder
      <4> QED
        BY <2>3, <3>1, <4>1
    <3>3. CASE j < i
      <4>1. First(j) + read_rec_num(j) <= First(i)
        BY <3>3, ChunksInOrder
      <4> QED
        BY <2>3, <3>1, <4>1
    <3> QED
      BY <2>4, <3>1, <3>2, <3>3
  <2>5. {j \in Children : k \in from[j] .. from[j] + read_rec_num(j) - 1} = {i}
    BY <2>2, <2>3, <2>4
  <2> QED
    BY <2>5, FS_Singleton
<1>2. PSortInv => ChunksCover
  BY <1>1
<1> QED
  BY <1>2, PSortInvariant, PTL

\* Looking at one record of each chunk is enough: the output is sorted, and
\* nothing that belongs before its end is still to come (helper.c:201-205).
THEOREM MergeIsSorted ==
  PSortSpec => []MergesInOrder
<1>1. PSortInv => MergesInOrder
  BY DEF PSortInv, MergingInv, MergeInv, MergesInOrder
<1> QED
  BY <1>1, PSortInvariant, PTL

\* However the chunks run out and the array is compacted, no record the children
\* have sent is lost or written twice (helper.c:213-222).
THEOREM MergeIsComplete ==
  PSortSpec => []MergesEach
<1>1. PSortInv => MergesEach
  BY DEF PSortInv, MergingInv, MergeInv, MergesEach
<1> QED
  BY <1>1, PSortInvariant, PTL

\* What a child that has not failed has sorted is its chunk, each record once,
\* wherever between the two processes the records are: a full pipe, an end of
\* the pipe or the child's end never makes the parent miss or invent a record.
THEOREM RecordsArrive ==
  PSortSpec => []RecordsTravel
<1>1. PSortInv => RecordsTravel
  BY DEF PSortInv, TravelInv, RecordsTravel, SortedChunk, Travelling
<1> QED
  BY <1>1, PSortInvariant, PTL

\* While the parent lives, no child is killed by SIGPIPE: the parent closes the
\* end that it reads only when it has all of the child's records (psort.c:88,
\* helper.c:71-81, 136).
THEOREM ChildrenAlwaysHeard ==
  PSortSpec => []ChildrenHeard
<1>1. ASSUME PSortInv PROVE ChildrenHeard
  <2>1. SUFFICES ASSUME parent # "failed", NEW i \in Children,
                        child[i] = "writing", read_content[i] # << >>
        PROVE  parent = "fork" \/ (parent = "read" /\ index <= i)
    BY DEF ChildrenHeard, HasReader
  <2>2. ControlInv /\ QueueInv /\ TravelInv
    BY <1>1 DEF PSortInv
  <2> DEFINE f == file_content[i]
             p == pipe[i]
             r == read_content[i]
  <2>3. f \in Seq(Record) /\ p \in Seq(Record) /\ r \in Seq(Record) /\ r # << >>
    BY <2>1, <2>2 DEF QueueInv
  <2>4. Len((f \o p) \o r) = read_rec_num(i)
    BY <2>1, <2>2 DEF TravelInv, SortedChunk, Travelling
  <2>5. Len(f) < read_rec_num(i)
    <3> HIDE DEF f, p, r
    <3>1. f \o p \in Seq(Record) /\ Len(f \o p) = Len(f) + Len(p)
      BY <2>3, ConcatProperties
    <3> DEFINE q == f \o p
    <3>2. q \in Seq(Record) /\ Len(q) = Len(f) + Len(p) /\ Len(q \o r) = read_rec_num(i)
      BY <2>4, <3>1
    <3> HIDE DEF q
    <3>3. Len(q \o r) = Len(q) + Len(r)
      BY <2>3, <3>2, ConcatProperties
    <3>4. Len(f) \in Nat /\ Len(p) \in Nat /\ Len(r) \in Nat \ {0}
      BY <2>3, EmptySeq
    <3> QED
      BY <3>2, <3>3, <3>4
  <2>6. /\ parent \notin {"wait", "merge", "done"}
        /\ ~ (parent = "read" /\ i < index)
    <3>1. Len(f) \in Nat /\ read_rec_num(i) \in Nat
      <4>1. read_rec_num(i) \in Nat
        BY ChunkSizes
      <4> HIDE DEF f
      <4> QED
        BY <2>3, <4>1
    <3>2. Len(f) # read_rec_num(i)
      BY <2>5, <3>1
    <3> QED
      BY <2>2, <3>2 DEF QueueInv
  <2>7. parent \in {"fork", "read"} /\ i \in Nat /\ index \in Nat
    BY <2>1, <2>2, <2>6, ChunkNumber DEF ControlInv
  <2> QED
    BY <2>6, <2>7
<1>2. PSortInv => ChildrenHeard
  BY <1>1
<1> QED
  BY <1>2, PSortInvariant, PTL

-----------------------------------------------------------------------------
(* psort implements Sort.                                                  *)

\* What the abstract specification sees of the state.
Output == IF parent = "done" /\ ~ Killed THEN outfile ELSE << >>

Outcome ==
  CASE parent = "done" /\ ~ Killed -> "sorted"
    [] parent = "failed" \/ (parent = "done" /\ Killed) -> "failed"
    [] OTHER -> "running"

\* When the merge has no entry left, its output is the sorted input.
LEMMA MergedIsSorted ==
  ASSUME PSortInv, parent = "merge", ~ Killed, merge_array = << >>
  PROVE  Job!IsSortedCopy(sorted_file_content, infile)
<1> DEFINE out == sorted_file_content
<1>1. Delivered = InputRecords
  <2>1. waited = Children
    BY DEF PSortInv, ControlInv
  <2> QED
    BY <2>1, AllArrived DEF PSortInv
<1>2. /\ out \in Seq(Record) /\ Sorted(out) /\ IsInjective(out)
      /\ Range(out) \cup Remaining = Delivered
  BY DEF PSortInv, MergingInv, Merging, MergeInv, OutputInv, MergeSorted, MergeComplete
<1>3. Remaining = {}
  BY DEF Remaining, Entries, Range
<1>4. Range(out) = InputRecords
  BY <1>1, <1>2, <1>3
<1>5. Cardinality(InputRecords) = record_num
  <2> DEFINE places == 0 .. record_num - 1
             f == [k \in places |-> [freq |-> infile[k], word |-> k]]
  <2>1. f \in Bijection(places, InputRecords)
    BY DEF InputRecords, Bijection, Injection, Surjection, IsInjective
  <2>2. ExistsBijection(places, InputRecords)
    BY <2>1 DEF ExistsBijection
  <2>3. IsFiniteSet(places) /\ Cardinality(places) = record_num
    BY FS_Interval, MergeAssumption
  <2> QED
    BY <2>2, <2>3, FS_Bijection
<1>6. Len(out) = record_num
  BY <1>2, <1>4, <1>5, InjectiveLength
<1> QED
  BY <1>2, <1>4, <1>6
     DEF Job!IsSortedCopy, Job!Range, Range, InputRecords, Sorted

LEMMA JobInit ==
  PSortInit => Job!SortInit
BY DEF PSortInit, Job!SortInit

LEMMA JobStep ==
  PSortInv /\ [PSortNext]_vars =>
    [Job!Finish \/ Job!Fail]_<< infile, Output, Outcome >>
<1>0. SUFFICES ASSUME PSortInv, [PSortNext]_vars
      PROVE  [Job!Finish \/ Job!Fail]_<< infile, Output, Outcome >>
  OBVIOUS
<1> USE DEF parentVars, given, childVars
<1>a. ControlInv
  BY <1>0 DEF PSortInv
<1>b. parent \in {"options", "fork", "read", "wait", "merge", "done", "failed"}
  BY <1>a DEF ControlInv
<1>1. ASSUME infile' = infile, parent \notin {"done", "failed"},
             parent' \in {"options", "fork", "read", "wait", "merge"}
      PROVE  UNCHANGED << infile, Output, Outcome >>
  BY <1>1 DEF Output, Outcome
<1>2. ASSUME infile' = infile, parent \notin {"done", "failed"}, parent' = "failed"
      PROVE  Job!Fail
  BY <1>2 DEF Job!Fail, Output, Outcome
<1>3. ASSUME UNCHANGED << infile, parent, outfile >>,
             parent = "done" => child' = child
      PROVE  UNCHANGED << infile, Output, Outcome >>
  <2>1. parent = "done" => Killed' = Killed
    BY <1>3 DEF Killed, Children, chunk_num
  <2> QED
    BY <1>3, <2>1 DEF Output, Outcome
<1>4. CASE \/ ParseOption \/ Fork \/ AllForked \/ ReadRecord \/ NextPipe \/ AllRead
           \/ StartMerge \/ ContinueMerge
  <2>1. /\ infile' = infile /\ parent \notin {"done", "failed"}
        /\ parent' \in {"options", "fork", "read", "wait", "merge"}
    BY <1>4 DEF ParseOption, Fork, AllForked, ReadRecord, NextPipe, AllRead,
                StartMerge, ContinueMerge
  <2> QED
    BY <1>1, <2>1
<1>5. CASE RefuseOption \/ FailParent
  BY <1>2, <1>5 DEF RefuseOption, FailParent
<1>6. CASE MeasureFile
  BY <1>1, <1>2, <1>6 DEF MeasureFile
<1>7. CASE Wait
  BY <1>1, <1>2, <1>7 DEF Wait
<1>8. CASE WriteOutput
  <2>1. /\ parent = "merge" /\ merge_array = << >> /\ parent' = "done"
        /\ outfile' = sorted_file_content
        /\ UNCHANGED << infile, child >>
    BY <1>8 DEF WriteOutput
  <2>2. Killed' = Killed
    BY <2>1 DEF Killed, Children, chunk_num
  <2>3. CASE Killed
    <3>1. Output = << >> /\ Output' = << >> /\ Outcome = "running" /\ Outcome' = "failed"
      BY <2>1, <2>2, <2>3 DEF Output, Outcome
    <3> QED
      BY <2>1, <3>1 DEF Job!Fail, Output, Outcome
  <2>4. CASE ~ Killed
    <3>1. ~ Killed'
      BY <2>2, <2>4
    <3>2. Output' = sorted_file_content
      BY <2>1, <3>1 DEF Output
    <3>3. Outcome = "running" /\ Outcome' = "sorted"
      BY <2>1, <3>1 DEF Outcome
    <3>4. Job!IsSortedCopy(sorted_file_content, infile)
      BY <1>0, <2>1, <2>4, MergedIsSorted
    <3> QED
      BY <2>1, <3>2, <3>4, <3>3 DEF Job!Finish, Output, Outcome
  <2> QED
    BY <2>3, <2>4
<1>9. ASSUME NEW i \in Children, ChildSteps(i) \/ FailChild(i) \/ KillChild(i)
      PROVE  UNCHANGED << infile, Output, Outcome >>
  <2>1. Running(i) /\ UNCHANGED << infile, parent, outfile >>
    BY <1>9 DEF ChildSteps, StartChild, WriteRecord, BrokenPipe, FinishChild,
                FailChild, KillChild, Running
  <2>2. parent # "done"
    BY <1>a, <2>1, NobodyRuns
  <2> QED
    BY <1>3, <2>1, <2>2
<1>10. CASE UNCHANGED vars
  BY <1>3, <1>10 DEF vars
<1> QED
  BY <1>0, <1>4, <1>5, <1>6, <1>7, <1>8, <1>9, <1>10
     DEF PSortNext, ParentSteps, AllEnded

\* However parent and children interleave, fail or are killed, psort ends with
\* its whole input sorted in the output file, or with a failure; a child that
\* failed is never followed by an output file.
THEOREM PSortImplementsSort ==
  PSortSpec => ImplementsSort
<1>1. PSortSpec => [][Job!Finish \/ Job!Fail]_<< infile, Output, Outcome >>
  BY JobStep, PSortInvariant, PTL DEF PSortSpec
<1>2. PSortSpec => Job!SortInit
  BY JobInit DEF PSortSpec
<1> QED
  BY <1>1, <1>2 DEF ImplementsSort, Job!SortSpec, Output, Outcome
=============================================================================
