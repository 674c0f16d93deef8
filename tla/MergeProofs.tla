---------------------------- MODULE MergeProofs ----------------------------
(***************************************************************************)
(* Lemmas about Merge, for PSortProofs: for every number of records and    *)
(* chunks and all frequencies, the chunks divide the records, and a step   *)
(* of the merge keeps what makes it sorted and complete.                   *)
(***************************************************************************)
EXTENDS Merge, FiniteSetTheorems, SequenceTheorems, TLAPS

-----------------------------------------------------------------------------
(* The partition.                                                          *)

\* Where chunk i starts in the file.
First(i) ==
  i * (record_num \div chunk_num)
    + (IF i < record_num % chunk_num THEN i ELSE record_num % chunk_num)

\* The children are numbered from 0.
LEMMA ChunkNumber ==
  /\ chunk_num \in Nat /\ record_num \in Nat
  /\ chunk_num = 0 => record_num = 0
  /\ \A i : i \in Children <=> i \in Nat /\ i < chunk_num
<1>1. /\ chunk_num \in Nat /\ record_num \in Nat
      /\ chunk_num = 0 => record_num = 0
  BY MergeAssumption DEF chunk_num
<1> QED
  BY <1>1 DEF Children

\* Every chunk has a record, since there are no more chunks than records.
LEMMA ChunkSizes ==
  ASSUME NEW i \in Children
  PROVE  /\ chunk_num \in Nat \ {0}
         /\ record_num \div chunk_num \in Nat \ {0}
         /\ record_num % chunk_num \in 0 .. chunk_num - 1
         /\ record_num = chunk_num * (record_num \div chunk_num)
                           + (record_num % chunk_num)
         /\ read_rec_num(i) \in Nat \ {0}
<1>1. chunk_num \in Nat
  BY MergeAssumption DEF chunk_num
<1>2. chunk_num > 0 /\ chunk_num <= record_num /\ record_num \in Nat
  BY <1>1, MergeAssumption DEF Children, chunk_num
<1> DEFINE q == record_num \div chunk_num
           r == record_num % chunk_num
<1>3. /\ q \in Int /\ r \in 0 .. chunk_num - 1
      /\ record_num = chunk_num * q + r
  BY <1>1, <1>2
<1>4. q > 0
  <2>1. SUFFICES ASSUME q <= 0 PROVE FALSE
    BY <1>3
  <2>2. chunk_num * q <= 0
    BY <2>1, <1>1, <1>3
  <2> QED
    BY <2>2, <1>1, <1>2, <1>3
<1> QED
  BY <1>1, <1>2, <1>3, <1>4 DEF read_rec_num, Children

\* Chunk i ends where chunk i + 1 starts, and later chunks start later.
LEMMA ChunksInOrder ==
  ASSUME NEW i \in Children, NEW j \in Children, i < j
  PROVE  First(i) + read_rec_num(i) <= First(j)
<1> DEFINE q == record_num \div chunk_num
           r == record_num % chunk_num
<1>1. /\ q \in Nat /\ r \in Nat /\ i \in Nat /\ j \in Nat /\ i + 1 <= j
      /\ chunk_num \in Nat
  BY ChunkSizes DEF Children
<1>2. (i + 1) * q <= j * q
  <2> HIDE DEF q
  <2>1. j * q = (i + 1) * q + (j - (i + 1)) * q
    BY <1>1
  <2>2. (j - (i + 1)) * q >= 0
    BY <1>1
  <2>3. (i + 1) * q \in Int /\ (j - (i + 1)) * q \in Int
    BY <1>1
  <2> QED
    BY <2>1, <2>2, <2>3
<1>3. i * q + q <= j * q
  <2> HIDE DEF q
  <2> QED
    BY <1>1, <1>2
<1>4. i * q \in Int /\ j * q \in Int
  BY <1>1
<1>5. /\ First(i) = i * q + (IF i < r THEN i ELSE r)
      /\ First(j) = j * q + (IF j < r THEN j ELSE r)
      /\ read_rec_num(i) = q + (IF i < r THEN 1 ELSE 0)
  BY DEF First, read_rec_num
<1> HIDE DEF q, r
<1> QED
  BY <1>1, <1>3, <1>4, <1>5

\* Chunk i is within the file.
LEMMA ChunkWithin ==
  ASSUME NEW i \in Children
  PROVE  First(i) \in Nat /\ First(i) + read_rec_num(i) <= record_num
<1> DEFINE q == record_num \div chunk_num
           r == record_num % chunk_num
           c == chunk_num
<1>1. /\ q \in Nat /\ r \in Nat /\ r < c /\ c \in Nat /\ i \in Nat /\ i + 1 <= c
      /\ record_num = c * q + r
  <2>1. /\ c \in Nat \ {0} /\ q \in Nat \ {0} /\ r \in 0 .. c - 1
        /\ record_num = c * q + r
    BY ChunkSizes
  <2> HIDE DEF q, r
  <2> QED
    BY <2>1 DEF Children
<1>2. /\ First(i) = i * q + (IF i < r THEN i ELSE r)
      /\ read_rec_num(i) = q + (IF i < r THEN 1 ELSE 0)
  BY DEF First, read_rec_num
<1> HIDE DEF q, r, c
<1>3. i * q \in Nat
  BY <1>1
<1>4. i * q + q <= c * q
  <2>1. c * q = (i * q + q) + (c - (i + 1)) * q
    BY <1>1
  <2>2. (c - (i + 1)) * q >= 0 /\ (c - (i + 1)) * q \in Int
    BY <1>1
  <2> QED
    BY <2>1, <2>2, <1>1, <1>3
<1>5. c * q \in Int
  BY <1>1
<1> QED
  BY <1>1, <1>2, <1>3, <1>4, <1>5

\* The first chunk starts where the file does, and each of the others where the
\* one before it ends.
LEMMA ChunkStarts ==
  ASSUME NEW i \in Children
  PROVE  /\ First(0) = 0
         /\ IF i + 1 \in Children THEN First(i + 1) = First(i) + read_rec_num(i)
                                 ELSE record_num = First(i) + read_rec_num(i)
<1> DEFINE q == record_num \div chunk_num
           r == record_num % chunk_num
<1>1. /\ q \in Nat /\ r \in Nat /\ i \in Nat /\ chunk_num \in Nat \ {0}
      /\ r < chunk_num /\ i < chunk_num
      /\ record_num = chunk_num * q + r
  <2>1. /\ chunk_num \in Nat \ {0} /\ q \in Nat \ {0} /\ r \in 0 .. chunk_num - 1
        /\ record_num = chunk_num * q + r
    BY ChunkSizes
  <2> HIDE DEF q, r
  <2> QED
    BY <2>1 DEF Children
<1>2. /\ First(0) = 0 * q + (IF 0 < r THEN 0 ELSE r)
      /\ First(i) = i * q + (IF i < r THEN i ELSE r)
      /\ First(i + 1) = (i + 1) * q + (IF i + 1 < r THEN i + 1 ELSE r)
      /\ read_rec_num(i) = q + (IF i < r THEN 1 ELSE 0)
  BY DEF First, read_rec_num
<1> HIDE DEF q, r
<1>3. (i + 1) * q = i * q + q /\ i * q \in Int
  BY <1>1
<1>4. First(0) = 0
  BY <1>1, <1>2
<1>5. First(i) + read_rec_num(i) = First(i + 1)
  BY <1>1, <1>2, <1>3
<1>6. ASSUME i + 1 \notin Children PROVE First(i + 1) = record_num
  <2>1. i + 1 = chunk_num
    BY <1>1, <1>6 DEF Children
  <2> QED
    BY <1>1, <1>2, <2>1
<1> QED
  BY <1>4, <1>5, <1>6

\* Every record is in a chunk.
LEMMA ChunkOf ==
  ASSUME NEW k \in 0 .. record_num - 1
  PROVE  \E i \in Children : k \in First(i) .. First(i) + read_rec_num(i) - 1
<1> DEFINE c == chunk_num
           q == record_num \div chunk_num
           r == record_num % chunk_num
<1>1. /\ q \in Nat \ {0} /\ r \in Nat /\ r < c /\ c \in Nat \ {0} /\ k \in Nat
      /\ record_num = c * q + r /\ k < c * q + r
  <2>1. record_num \in Nat /\ k \in Nat /\ k < record_num
    BY MergeAssumption
  <2>2. 0 \in Children
    BY <2>1, MergeAssumption DEF Children, chunk_num
  <2>3. /\ c \in Nat \ {0} /\ q \in Nat \ {0} /\ r \in 0 .. c - 1
        /\ record_num = c * q + r
    BY <2>2, ChunkSizes
  <2> HIDE DEF q, r, c
  <2> QED
    BY <2>1, <2>3
<1>2. \A i \in Children :
        /\ First(i) = i * q + (IF i < r THEN i ELSE r)
        /\ read_rec_num(i) = q + (IF i < r THEN 1 ELSE 0)
  BY DEF First, read_rec_num
<1>3. Children = 0 .. c - 1
  BY DEF Children
<1> HIDE DEF q, r, c
<1>4. CASE k < r * (q + 1)
  <2> DEFINE i == k \div (q + 1)
             m == k % (q + 1)
  <2>1. /\ i \in Nat /\ m \in 0 .. q /\ k = (q + 1) * i + m
    BY <1>1
  <2> HIDE DEF i, m
  <2>2. (q + 1) * i = i * q + i /\ i * q \in Nat
    BY <1>1, <2>1
  <2>3. i < r
    <3>1. SUFFICES ASSUME i >= r PROVE FALSE
      BY <1>1, <2>1
    <3>2. i * (q + 1) = r * (q + 1) + (i - r) * (q + 1)
      BY <1>1, <2>1
    <3>3. (i - r) * (q + 1) >= 0 /\ (i - r) * (q + 1) \in Int /\ r * (q + 1) \in Int
      BY <1>1, <2>1, <3>1
    <3>4. i * (q + 1) = i * q + i
      BY <1>1, <2>1
    <3> QED
      BY <1>1, <1>4, <2>1, <2>2, <3>2, <3>3, <3>4
  <2>4. i \in Children
    BY <1>1, <1>3, <2>1, <2>3
  <2>5. First(i) = i * q + i /\ read_rec_num(i) = q + 1
    BY <1>2, <2>3, <2>4
  <2>6. k \in First(i) .. First(i) + read_rec_num(i) - 1
    BY <1>1, <2>1, <2>2, <2>5
  <2> QED
    BY <2>4, <2>6
<1>5. CASE ~ k < r * (q + 1)
  <2> DEFINE d == k - r
             i == d \div q
             m == d % q
  <2>0. r * (q + 1) = r * q + r /\ r * q \in Nat /\ c * q \in Nat
    BY <1>1
  <2>1. d \in Nat /\ d >= r * q /\ d < c * q
    BY <1>1, <1>5, <2>0
  <2>2. i \in Nat /\ m \in 0 .. q - 1 /\ d = q * i + m
    BY <1>1, <2>1
  <2>3. k = d + r
    BY <1>1
  <2> HIDE DEF d, i, m
  <2>4. q * i = i * q /\ i * q \in Nat
    BY <1>1, <2>2
  <2>5. i >= r
    <3>1. SUFFICES ASSUME i + 1 <= r PROVE FALSE
      BY <1>1, <2>2
    <3>2. r * q = (i * q + q) + (r - (i + 1)) * q
      BY <1>1, <2>2
    <3>3. (r - (i + 1)) * q >= 0 /\ (r - (i + 1)) * q \in Int
      BY <1>1, <2>2, <3>1
    <3> QED
      BY <1>1, <2>1, <2>2, <2>4, <3>2, <3>3
  <2>6. i < c
    <3>1. SUFFICES ASSUME c <= i PROVE FALSE
      BY <1>1, <2>2
    <3>2. i * q = c * q + (i - c) * q
      BY <1>1, <2>2
    <3>3. (i - c) * q >= 0 /\ (i - c) * q \in Int
      BY <1>1, <2>2, <3>1
    <3> QED
      BY <1>1, <2>0, <2>1, <2>2, <2>4, <3>2, <3>3
  <2>7. i \in Children
    BY <1>1, <1>3, <2>2, <2>6
  <2>8. First(i) = i * q + r /\ read_rec_num(i) = q
    BY <1>1, <1>2, <2>2, <2>5, <2>7
  <2>9. k \in First(i) .. First(i) + read_rec_num(i) - 1
    BY <1>1, <2>1, <2>2, <2>3, <2>4, <2>8
  <2> QED
    BY <2>7, <2>9
<1> QED
  BY <1>4, <1>5

-----------------------------------------------------------------------------
(* The invariant.                                                          *)

Record == [freq : Freqs, word : Int]

\* The chunks are sorted, and no record is in them twice.
ContentInv ==
  /\ \A i \in Children :
       /\ file_content[i] \in [1 .. read_rec_num(i) -> Record]
       /\ Sorted(file_content[i])
  /\ \A i, j \in Children :
       \A k \in 1 .. read_rec_num(i), l \in 1 .. read_rec_num(j) :
         file_content[i][k] = file_content[j][l] => i = j /\ k = l

EntryShape == [freq : Int, child_index : Children, rec_index : Nat]

\* The entries of a sequence are of different chunks.
ChunksDiffer(a) ==
  \A k, l \in DOMAIN a : a[k].child_index = a[l].child_index => k = l

\* An entry shows the record it points at.
Shows(e) ==
  /\ e.child_index \in Children
  /\ e.rec_index \in 0 .. read_rec_num(e.child_index) - 1
  /\ e = Entry(e.child_index, e.rec_index)

ArrayInv ==
  /\ merge_array \in Seq(EntryShape)
  /\ Len(merge_array) <= chunk_num
  /\ \A e \in Entries : Shows(e)
  /\ ChunksDiffer(merge_array)

OutputInv == sorted_file_content \in Seq(Record)

MergeInv ==
  /\ ContentInv
  /\ ArrayInv
  /\ OutputInv
  /\ MergeSorted
  /\ MergeComplete

\* What the array shows and what the output is, before the first step.
LEMMA MergeInvStart ==
  /\ ContentInv
  /\ merge_array = FirstEntries
  /\ sorted_file_content = << >>
  => MergeInv
<1>0. SUFFICES ASSUME ContentInv,
                      merge_array = FirstEntries,
                      sorted_file_content = << >>
      PROVE  MergeInv
  OBVIOUS
<1>1. ContentInv
  BY <1>0
<1>2. \A i \in Children : read_rec_num(i) \in Nat \ {0}
  BY ChunkSizes
<1>3. /\ Entries = {Entry(i, 0) : i \in Children}
      /\ sorted_file_content = << >>
  <2>1. /\ DOMAIN merge_array = 1 .. chunk_num
        /\ \A k \in 1 .. chunk_num : merge_array[k] = Entry(k - 1, 0)
    BY <1>0 DEF FirstEntries
  <2>2. \A k \in 1 .. chunk_num : k - 1 \in Children
    BY ChunkNumber DEF Children
  <2>3. \A i \in Children : i + 1 \in 1 .. chunk_num /\ (i + 1) - 1 = i
    BY ChunkNumber DEF Children
  <2> QED
    BY <1>0, <2>1, <2>2, <2>3 DEF Entries, Range
<1>4. ArrayInv
  <2>1. \A i \in Children : Shows(Entry(i, 0)) /\ Entry(i, 0) \in EntryShape
    <3> TAKE i \in Children
    <3>1. read_rec_num(i) \in Nat \ {0} /\ 1 \in 1 .. read_rec_num(i)
      BY <1>2
    <3>2. file_content[i][1].freq \in Int
      <4>1. file_content[i] \in [1 .. read_rec_num(i) -> Record]
        BY <1>1 DEF ContentInv
      <4>2. file_content[i][1] \in Record
        BY <3>1, <4>1
      <4>3. file_content[i][1].freq \in Freqs
        BY <4>2 DEF Record
      <4> QED
        BY <4>3, MergeAssumption
    <3> QED
      BY <3>1, <3>2 DEF Shows, Entry, EntryShape
  <2>2. /\ merge_array = [k \in 1 .. chunk_num |-> Entry(k - 1, 0)]
        /\ chunk_num \in Nat
        /\ \A k \in 1 .. chunk_num : k - 1 \in Children
    BY <1>0, ChunkNumber DEF FirstEntries, Children
  <2>3. merge_array \in Seq(EntryShape) /\ Len(merge_array) = chunk_num
    BY <2>1, <2>2
  <2>4. ChunksDiffer(merge_array)
    BY <2>2 DEF ChunksDiffer, Entry
  <2> QED
    BY <1>3, <2>1, <2>2, <2>3, <2>4 DEF ArrayInv
<1>5. OutputInv
  BY <1>3 DEF OutputInv
<1>6. Range(sorted_file_content) = {}
  BY <1>3 DEF Range
<1>7. MergeSorted
  BY <1>3, <1>6 DEF MergeSorted, Sorted
<1>8. Remaining = Delivered
  <2>1. Remaining =
          UNION {{file_content[i][k] : k \in 1 .. read_rec_num(i)} : i \in Children}
    <3>1. \A i \in Children :
            /\ Entry(i, 0).child_index = i
            /\ Entry(i, 0).rec_index + 1 = 1
      BY DEF Entry
    <3>2. \A i \in Children :
            {file_content[Entry(i, 0).child_index][k] :
               k \in Entry(i, 0).rec_index + 1
                       .. read_rec_num(Entry(i, 0).child_index)}
              = {file_content[i][k] : k \in 1 .. read_rec_num(i)}
      BY <3>1
    <3> DEFINE Rest(e) == {file_content[e.child_index][k] :
                             k \in e.rec_index + 1 .. read_rec_num(e.child_index)}
    <3>3. Remaining = UNION {Rest(e) : e \in {Entry(i, 0) : i \in Children}}
      BY <1>3 DEF Remaining
    <3>4. \A i \in Children :
            Rest(Entry(i, 0)) = {file_content[i][k] : k \in 1 .. read_rec_num(i)}
      BY <3>2
    <3> HIDE DEF Entry, Rest
    <3>5. {Rest(e) : e \in {Entry(i, 0) : i \in Children}}
            = {Rest(Entry(i, 0)) : i \in Children}
      OBVIOUS
    <3>6. {Rest(Entry(i, 0)) : i \in Children}
            = {{file_content[i][k] : k \in 1 .. read_rec_num(i)} : i \in Children}
      BY <3>4
    <3> QED
      BY <3>3, <3>5, <3>6
  <2>2. \A i \in Children :
          Range(file_content[i]) = {file_content[i][k] : k \in 1 .. read_rec_num(i)}
    BY <1>1 DEF ContentInv, Range
  <2> DEFINE Held(i) == {file_content[i][k] : k \in 1 .. read_rec_num(i)}
  <2>3. /\ Remaining = UNION {Held(i) : i \in Children}
        /\ \A i \in Children : Range(file_content[i]) = Held(i)
    BY <2>1, <2>2
  <2> HIDE DEF Held
  <2> QED
    BY <2>3 DEF Delivered
<1>9. MergeComplete
  BY <1>3, <1>6, <1>8 DEF MergeComplete, IsInjective
<1> QED
  BY <1>1, <1>4, <1>5, <1>7, <1>9 DEF MergeInv

-----------------------------------------------------------------------------
(* A step.                                                                 *)

\* The entries are of different chunks, as members of the array too.
LEMMA EntriesDiffer ==
  ASSUME ArrayInv, NEW d \in Entries, NEW e \in Entries,
         d.child_index = e.child_index
  PROVE  d = e
BY DEF ArrayInv, ChunksDiffer, Entries, Range

\* qsort rearranges: same entries, in order, and no two of the same chunk.
LEMMA QSorted ==
  ASSUME NEW a \in Seq(EntryShape), ChunksDiffer(a), NEW s \in qsort(a)
  PROVE  /\ s \in Seq(EntryShape) /\ Len(s) = Len(a)
         /\ Range(s) = Range(a)
         /\ ChunksDiffer(s)
         /\ Sorted(s)
<1>1. PICK p \in Bijection(DOMAIN a, DOMAIN a) : s = [k \in DOMAIN a |-> a[p[k]]]
  BY DEF qsort
<1>2. /\ p \in [DOMAIN a -> DOMAIN a]
      /\ \A k, l \in DOMAIN a : p[k] = p[l] => k = l
      /\ \A l \in DOMAIN a : \E k \in DOMAIN a : p[k] = l
  BY DEF Bijection, Injection, Surjection, IsInjective
<1>3. DOMAIN a = 1 .. Len(a) /\ Len(a) \in Nat
  OBVIOUS
<1>4. s \in Seq(EntryShape) /\ Len(s) = Len(a) /\ DOMAIN s = DOMAIN a
  BY <1>1, <1>2, <1>3
<1>5. \A k \in DOMAIN a : s[k] = a[p[k]]
  BY <1>1
<1>6. Range(s) = Range(a)
  BY <1>2, <1>4, <1>5 DEF Range
<1>7. ChunksDiffer(s)
  <2> SUFFICES ASSUME NEW k \in DOMAIN a, NEW l \in DOMAIN a,
                      s[k].child_index = s[l].child_index
      PROVE  k = l
    BY <1>4 DEF ChunksDiffer
  <2>1. p[k] \in DOMAIN a /\ p[l] \in DOMAIN a
    BY <1>2
  <2>2. a[p[k]].child_index = a[p[l]].child_index
    BY <1>5
  <2>3. p[k] = p[l]
    BY <2>1, <2>2 DEF ChunksDiffer
  <2> QED
    BY <1>2, <2>3
<1> QED
  BY <1>4, <1>6, <1>7 DEF qsort

\* What takes an entry's place among the entries.
Replacement(e) ==
  IF e.rec_index < read_rec_num(e.child_index) - 1
  THEN {Entry(e.child_index, e.rec_index + 1)} ELSE {}

\* The first entry advances and all others stay.
LEMMA WithNextShape ==
  ASSUME NEW a \in Seq(EntryShape), a # << >>, ChunksDiffer(a),
         Entry(a[1].child_index, a[1].rec_index + 1) \in EntryShape
  PROVE  LET n == Entry(a[1].child_index, a[1].rec_index + 1)
         IN  /\ WithNext(a) \in Seq(EntryShape) /\ Len(WithNext(a)) = Len(a)
             /\ Range(WithNext(a)) = (Range(a) \ {a[1]}) \cup {n}
             /\ ChunksDiffer(WithNext(a))
<1> DEFINE n == Entry(a[1].child_index, a[1].rec_index + 1)
           s == WithNext(a)
<1>1. Len(a) \in Nat \ {0} /\ DOMAIN a = 1 .. Len(a) /\ 1 \in 1 .. Len(a)
  BY EmptySeq
<1>2. s = [a EXCEPT ![1] = n]
  BY DEF WithNext
<1>3. n.child_index = a[1].child_index
  BY DEF Entry
<1> HIDE DEF n, s
<1>4. /\ n \in EntryShape
      /\ s \in Seq(EntryShape) /\ Len(s) = Len(a) /\ DOMAIN s = 1 .. Len(a)
      /\ s[1] = n /\ \A k \in 1 .. Len(a) : k # 1 => s[k] = a[k]
  <2>1. n \in EntryShape
    BY DEF n
  <2> QED
    BY <1>1, <1>2, <2>1
<1>5. \A k \in 1 .. Len(a) : k # 1 => a[k] # a[1]
  BY <1>1 DEF ChunksDiffer
<1>6. Range(s) = (Range(a) \ {a[1]}) \cup {n}
  BY <1>1, <1>4, <1>5 DEF Range
<1>7. \A k \in 1 .. Len(a) : s[k].child_index = a[k].child_index
  BY <1>3, <1>4
<1>8. ChunksDiffer(s)
  BY <1>1, <1>4, <1>7 DEF ChunksDiffer
<1> QED
  BY <1>4, <1>6, <1>8 DEF n, s

\* The first entry goes and all others stay.
LEMMA WithoutFirstShape ==
  ASSUME NEW a \in Seq(EntryShape), a # << >>, ChunksDiffer(a)
  PROVE  /\ WithoutFirst(a) \in Seq(EntryShape) /\ Len(WithoutFirst(a)) = Len(a) - 1
         /\ Range(WithoutFirst(a)) = Range(a) \ {a[1]}
         /\ ChunksDiffer(WithoutFirst(a))
<1> DEFINE m == Len(a)
           b == [a EXCEPT ![1] = a[m]]
           s == WithoutFirst(a)
<1>1. m \in Nat \ {0} /\ DOMAIN a = 1 .. m /\ 1 \in 1 .. m /\ m \in 1 .. m
  BY EmptySeq
<1>2. /\ b \in Seq(EntryShape) /\ Len(b) = m
      /\ b[1] = a[m] /\ \A k \in 1 .. m : k # 1 => b[k] = a[k]
  BY <1>1
<1>3. s = SubSeq(b, 1, m - 1)
  BY <1>2 DEF WithoutFirst, Front, Last
<1> HIDE DEF m, b, s
<1>4. /\ s \in Seq(EntryShape) /\ Len(s) = m - 1 /\ DOMAIN s = 1 .. m - 1
      /\ \A k \in 1 .. m - 1 : s[k] = b[k]
  BY <1>1, <1>2, <1>3
<1>5. /\ \A k \in 1 .. m - 1 : s[k] = IF k = 1 THEN a[m] ELSE a[k]
  BY <1>1, <1>2, <1>4
<1>6. \A k \in 1 .. m : k # 1 => a[k] # a[1]
  BY <1>1 DEF ChunksDiffer
<1>7. Range(s) \subseteq Range(a) \ {a[1]}
  <2> SUFFICES ASSUME NEW k \in 1 .. m - 1 PROVE s[k] \in Range(a) \ {a[1]}
    BY <1>4 DEF Range
  <2>1. k \in 1 .. m /\ (k = 1 => m # 1)
    BY <1>1
  <2> QED
    BY <1>1, <1>5, <1>6, <2>1 DEF Range
<1>8. Range(a) \ {a[1]} \subseteq Range(s)
  <2> SUFFICES ASSUME NEW k \in 1 .. m, a[k] # a[1] PROVE a[k] \in Range(s)
    BY <1>1 DEF Range
  <2>1. CASE k = m
    <3>1. 1 \in 1 .. m - 1
      BY <1>1, <2>1
    <3> QED
      BY <1>4, <1>5, <2>1, <3>1 DEF Range
  <2>2. CASE k # m
    <3>1. k \in 1 .. m - 1 /\ k # 1
      BY <1>1, <2>2
    <3> QED
      BY <1>4, <1>5, <3>1 DEF Range
  <2> QED
    BY <2>1, <2>2
<1>9. ChunksDiffer(s)
  <2> SUFFICES ASSUME NEW k \in 1 .. m - 1, NEW l \in 1 .. m - 1,
                      s[k].child_index = s[l].child_index
      PROVE  k = l
    BY <1>4 DEF ChunksDiffer
  <2>1. \A j \in 1 .. m - 1 : j \in 1 .. m /\ j # m
    BY <1>1
  <2> QED
    BY <1>1, <1>5, <2>1 DEF ChunksDiffer
<1> QED
  BY <1>4, <1>7, <1>8, <1>9 DEF m, s

\* One iteration of the loop takes a smallest entry and puts what follows it, if
\* anything, in its place; the array is as it should be.
LEMMA StepOnArray ==
  ASSUME ContentInv, ArrayInv, MergeStep
  PROVE  /\ merge_array' \in Seq(EntryShape)
         /\ Len(merge_array') <= chunk_num
         /\ ChunksDiffer(merge_array')
         /\ UNCHANGED file_content
         /\ \E e \in Entries :
              /\ \A d \in Entries : e.freq <= d.freq
              /\ sorted_file_content' =
                   Append(sorted_file_content,
                          file_content[e.child_index][e.rec_index + 1])
              /\ Entries' = (Entries \ {e}) \cup Replacement(e)
<1>1. PICK a \in qsort(merge_array) :
        /\ sorted_file_content' =
             Append(sorted_file_content,
                    file_content[a[1].child_index][a[1].rec_index + 1])
        /\ merge_array' = Advance(a)
  BY DEF MergeStep
<1>2. merge_array # << >> /\ UNCHANGED file_content
  BY DEF MergeStep
<1>3. /\ a \in Seq(EntryShape) /\ Len(a) = Len(merge_array)
      /\ Range(a) = Entries /\ ChunksDiffer(a) /\ Sorted(a)
  BY QSorted DEF ArrayInv, Entries
<1>4. a # << >>
  BY <1>2, <1>3, EmptySeq DEF ArrayInv
<1>5. DOMAIN a = 1 .. Len(a) /\ 1 \in DOMAIN a
  BY <1>3, <1>4, EmptySeq
<1> DEFINE e == a[1]
<1>6. e \in Entries
  BY <1>3, <1>5 DEF Range
<1>7. \A d \in Entries : e.freq <= d.freq
  BY <1>3, <1>5 DEF Range, Sorted
<1>8. /\ e.child_index \in Children
      /\ e.rec_index \in 0 .. read_rec_num(e.child_index) - 1
      /\ read_rec_num(e.child_index) \in Nat \ {0}
  BY <1>6, ChunkSizes DEF ArrayInv, Shows
<1>9. /\ merge_array' \in Seq(EntryShape)
      /\ Len(merge_array') <= Len(merge_array)
      /\ ChunksDiffer(merge_array')
      /\ Range(merge_array') = (Entries \ {e}) \cup Replacement(e)
  <2>1. CASE e.rec_index < read_rec_num(e.child_index) - 1
    <3>1. Entry(e.child_index, e.rec_index + 1) \in EntryShape
      <4>1. (e.rec_index + 1) + 1 \in 1 .. read_rec_num(e.child_index)
        BY <1>8, <2>1
      <4>2. file_content[e.child_index][(e.rec_index + 1) + 1] \in Record
        BY <1>8, <4>1 DEF ContentInv
      <4>3. file_content[e.child_index][(e.rec_index + 1) + 1].freq \in Int
        BY <4>2, MergeAssumption DEF Record
      <4>4. e.child_index \in Children /\ e.rec_index + 1 \in Nat
        BY <1>8
      <4> HIDE DEF e
      <4> QED
        BY <4>3, <4>4 DEF Entry, EntryShape
    <3>2. merge_array' = WithNext(a)
      BY <1>1, <2>1 DEF Advance
    <3> QED
      BY <1>3, <1>4, <2>1, <3>1, <3>2, WithNextShape DEF Replacement, ArrayInv
  <2>2. CASE ~ e.rec_index < read_rec_num(e.child_index) - 1
    <3>1. merge_array' = WithoutFirst(a)
      BY <1>1, <2>2 DEF Advance
    <3>2. Len(a) \in Nat
      BY <1>3
    <3> QED
      BY <1>3, <1>4, <2>2, <3>1, <3>2, WithoutFirstShape DEF Replacement
  <2> QED
    BY <2>1, <2>2
<1>10. Entries' = (Entries \ {e}) \cup Replacement(e)
  BY <1>9 DEF Entries, Range
<1>11. Len(merge_array') <= chunk_num
  BY <1>9, ChunkNumber DEF ArrayInv
<1> QED
  BY <1>1, <1>2, <1>6, <1>7, <1>9, <1>10, <1>11

\* What remains after a step is what remained, less the record written.
LEMMA StepTakesOne ==
  ASSUME ContentInv, ArrayInv, NEW e \in Entries,
         Entries' = (Entries \ {e}) \cup Replacement(e),
         UNCHANGED file_content
  PROVE  Remaining' =
           Remaining \ {file_content[e.child_index][e.rec_index + 1]}
<1> DEFINE Rest(d) == {file_content[d.child_index][k] :
                         k \in d.rec_index + 1 .. read_rec_num(d.child_index)}
           taken == file_content[e.child_index][e.rec_index + 1]
<1>1. Remaining = UNION {Rest(d) : d \in Entries}
  BY DEF Remaining
<1>2. Remaining' = UNION {Rest(d) : d \in Entries'}
  BY DEF Remaining, read_rec_num, chunk_num
<1>3. UNION {Rest(d) : d \in Replacement(e)} = Rest(e) \ {taken}
  <2> DEFINE n == Entry(e.child_index, e.rec_index + 1)
  <2>1. /\ e.child_index \in Children
        /\ e.rec_index \in 0 .. read_rec_num(e.child_index) - 1
        /\ read_rec_num(e.child_index) \in Nat \ {0}
    BY ChunkSizes DEF ArrayInv, Shows
  <2>2. Rest(e) \ {taken} =
          {file_content[e.child_index][k] :
             k \in e.rec_index + 2 .. read_rec_num(e.child_index)}
    <3>1. \A k \in e.rec_index + 1 .. read_rec_num(e.child_index) :
            file_content[e.child_index][k] = taken <=> k = e.rec_index + 1
      BY <2>1 DEF ContentInv
    <3> QED
      BY <2>1, <3>1
  <2>3. CASE e.rec_index < read_rec_num(e.child_index) - 1
    <3>1. Replacement(e) = {n}
      BY <2>3 DEF Replacement
    <3>2. /\ n.child_index = e.child_index
          /\ n.rec_index = e.rec_index + 1
      BY DEF Entry
    <3>3. Rest(n) = {file_content[e.child_index][k] :
                       k \in e.rec_index + 2 .. read_rec_num(e.child_index)}
      BY <2>1, <3>2
    <3> QED
      BY <2>2, <3>1, <3>3
  <2>4. CASE ~ e.rec_index < read_rec_num(e.child_index) - 1
    <3>1. Replacement(e) = {}
      BY <2>4 DEF Replacement
    <3>2. e.rec_index + 2 .. read_rec_num(e.child_index) = {}
      BY <2>1, <2>4
    <3> QED
      BY <2>2, <3>1, <3>2
  <2> QED
    BY <2>3, <2>4
<1>4. \A d \in Entries \ {e} : taken \notin Rest(d)
  <2> SUFFICES ASSUME NEW d \in Entries, d # e, taken \in Rest(d)
      PROVE  FALSE
    OBVIOUS
  <2>1. /\ e.child_index \in Children /\ d.child_index \in Children
        /\ e.rec_index \in 0 .. read_rec_num(e.child_index) - 1
        /\ d.rec_index \in 0 .. read_rec_num(d.child_index) - 1
        /\ read_rec_num(e.child_index) \in Nat \ {0}
        /\ read_rec_num(d.child_index) \in Nat \ {0}
    BY ChunkSizes DEF ArrayInv, Shows
  <2>2. d.child_index # e.child_index
    BY EntriesDiffer
  <2>3. PICK k \in d.rec_index + 1 .. read_rec_num(d.child_index) :
          taken = file_content[d.child_index][k]
    OBVIOUS
  <2>4. /\ k \in 1 .. read_rec_num(d.child_index)
        /\ e.rec_index + 1 \in 1 .. read_rec_num(e.child_index)
    BY <2>1
  <2>5. \A i, j \in Children :
          \A l \in 1 .. read_rec_num(i), m \in 1 .. read_rec_num(j) :
            file_content[i][l] = file_content[j][m] => i = j
    BY DEF ContentInv
  <2> DEFINE i == e.child_index
             j == d.child_index
             l == e.rec_index + 1
  <2>6. /\ i \in Children /\ j \in Children /\ j # i
        /\ l \in 1 .. read_rec_num(i) /\ k \in 1 .. read_rec_num(j)
        /\ file_content[i][l] = file_content[j][k]
    BY <2>1, <2>2, <2>3, <2>4
  <2> HIDE DEF i, j, l
  <2> QED
    BY ONLY <2>5, <2>6
<1> HIDE DEF Rest, taken
<1>5. Remaining = (UNION {Rest(d) : d \in Entries \ {e}}) \cup Rest(e)
  BY <1>1
<1>6. Remaining' =
        (UNION {Rest(d) : d \in Entries \ {e}}) \cup (Rest(e) \ {taken})
  BY <1>2, <1>3
<1>7. taken \notin UNION {Rest(d) : d \in Entries \ {e}}
  BY <1>4
<1>8. Remaining' = Remaining \ {taken}
  BY <1>5, <1>6, <1>7
<1> QED
  BY <1>8 DEF taken

\* The record of the smallest entry is smallest of what remains.
LEMMA StepTakesSmallest ==
  ASSUME ContentInv, ArrayInv, NEW e \in Entries,
         \A d \in Entries : e.freq <= d.freq
  PROVE  LET taken == file_content[e.child_index][e.rec_index + 1]
         IN  /\ taken \in Remaining
             /\ taken \in Record
             /\ \A s \in Remaining : s \in Record /\ taken.freq <= s.freq
<1> DEFINE taken == file_content[e.child_index][e.rec_index + 1]
<1>1. ASSUME NEW d \in Entries
      PROVE  /\ d.child_index \in Children
             /\ d.rec_index + 1 \in 1 .. read_rec_num(d.child_index)
             /\ read_rec_num(d.child_index) \in Nat \ {0}
             /\ d.freq = file_content[d.child_index][d.rec_index + 1].freq
             /\ file_content[d.child_index][d.rec_index + 1] \in Record
  <2>1. /\ d.child_index \in Children
        /\ d.rec_index \in 0 .. read_rec_num(d.child_index) - 1
        /\ d = Entry(d.child_index, d.rec_index)
    BY DEF ArrayInv, Shows
  <2>2. read_rec_num(d.child_index) \in Nat \ {0}
    BY <2>1, ChunkSizes
  <2>3. d.rec_index + 1 \in 1 .. read_rec_num(d.child_index)
    BY <2>1, <2>2
  <2>4. d.freq = file_content[d.child_index][d.rec_index + 1].freq
    BY <2>1 DEF Entry
  <2>5. file_content[d.child_index] \in [1 .. read_rec_num(d.child_index) -> Record]
    BY <2>1 DEF ContentInv
  <2> QED
    BY <2>1, <2>2, <2>3, <2>4, <2>5
<1>2. taken \in Remaining
  <2>1. e.rec_index + 1 \in e.rec_index + 1 .. read_rec_num(e.child_index)
    BY <1>1
  <2> QED
    BY <2>1 DEF Remaining
<1>3. ASSUME NEW s \in Remaining
      PROVE  s \in Record /\ taken.freq <= s.freq
  <2>1. PICK d \in Entries :
          \E k \in d.rec_index + 1 .. read_rec_num(d.child_index) :
            s = file_content[d.child_index][k]
    BY DEF Remaining
  <2>2. PICK k \in d.rec_index + 1 .. read_rec_num(d.child_index) :
          s = file_content[d.child_index][k]
    BY <2>1
  <2>3. /\ k \in 1 .. read_rec_num(d.child_index)
        /\ d.rec_index + 1 <= k
    BY <1>1
  <2>4. file_content[d.child_index] \in [1 .. read_rec_num(d.child_index) -> Record]
    BY <1>1 DEF ContentInv
  <2>5. file_content[d.child_index][d.rec_index + 1].freq <= s.freq
    BY <1>1, <2>2, <2>3, <2>4 DEF ContentInv, Sorted
  <2>6. s \in Record
    BY <2>2, <2>3, <2>4
  <2>7. e.freq <= d.freq
    OBVIOUS
  <2>8. /\ taken.freq = e.freq
        /\ file_content[d.child_index][d.rec_index + 1].freq = d.freq
        /\ taken.freq \in Int /\ d.freq \in Int /\ s.freq \in Int
    BY <1>1, <2>6, MergeAssumption DEF Record
  <2> QED
    BY <2>5, <2>6, <2>7, <2>8
<1> QED
  BY <1>1, <1>2, <1>3

\* Appending a record adds it to those of the sequence.
LEMMA AppendRange ==
  ASSUME NEW S, NEW s \in Seq(S), NEW r \in S
  PROVE  Range(Append(s, r)) = Range(s) \cup {r}
<1>1. /\ Append(s, r) \in Seq(S)
      /\ DOMAIN Append(s, r) = 1 .. Len(s) + 1
      /\ DOMAIN s = 1 .. Len(s)
      /\ Len(s) \in Nat
      /\ \A i \in 1 .. Len(s) : Append(s, r)[i] = s[i]
      /\ Append(s, r)[Len(s) + 1] = r
  OBVIOUS
<1>2. Range(Append(s, r)) \subseteq Range(s) \cup {r}
  <2> SUFFICES ASSUME NEW i \in 1 .. Len(s) + 1
      PROVE  Append(s, r)[i] \in Range(s) \cup {r}
    BY <1>1 DEF Range
  <2>1. i \in 1 .. Len(s) \/ i = Len(s) + 1
    BY <1>1
  <2> QED
    BY <1>1, <2>1 DEF Range
<1>3. Range(s) \subseteq Range(Append(s, r))
  <2> SUFFICES ASSUME NEW i \in 1 .. Len(s)
      PROVE  s[i] \in Range(Append(s, r))
    BY <1>1 DEF Range
  <2>1. i \in 1 .. Len(s) + 1
    BY <1>1
  <2> QED
    BY <1>1, <2>1 DEF Range
<1>4. r \in Range(Append(s, r))
  <2>1. Len(s) + 1 \in DOMAIN Append(s, r)
    BY <1>1
  <2> QED
    BY <1>1, <2>1 DEF Range
<1> QED
  BY <1>2, <1>3, <1>4

\* Every step of the merge keeps the invariant.
LEMMA MergeInvStep ==
  MergeInv /\ [MergeStep]_mergeVars => MergeInv'
<1> SUFFICES ASSUME MergeInv, [MergeStep]_mergeVars PROVE MergeInv'
  OBVIOUS
<1>1. CASE UNCHANGED mergeVars
  <2>1. /\ file_content' = file_content
        /\ merge_array' = merge_array
        /\ sorted_file_content' = sorted_file_content
    BY <1>1 DEF mergeVars
  <2>2. ContentInv' /\ OutputInv'
    BY <2>1 DEF MergeInv, ContentInv, OutputInv
  <2>3. ArrayInv'
    BY <2>1 DEF MergeInv, ArrayInv, Shows, Entry, Entries, EntryShape, ChunksDiffer,
                 Children, chunk_num, read_rec_num
  <2>4. Remaining' = Remaining /\ Delivered' = Delivered
    BY <2>1 DEF Remaining, Delivered, Entries
  <2>5. MergeSorted' /\ MergeComplete'
    BY <2>1, <2>4 DEF MergeInv, MergeSorted, MergeComplete
  <2> QED
    BY <2>2, <2>3, <2>5 DEF MergeInv
<1>2. CASE MergeStep
  <2>0. /\ merge_array' \in Seq(EntryShape)
        /\ Len(merge_array') <= chunk_num
        /\ ChunksDiffer(merge_array')
    BY <1>2, StepOnArray DEF MergeInv
  <2>1. PICK e \in Entries :
          /\ \A d \in Entries : e.freq <= d.freq
          /\ sorted_file_content' =
               Append(sorted_file_content,
                      file_content[e.child_index][e.rec_index + 1])
          /\ Entries' = (Entries \ {e}) \cup Replacement(e)
          /\ UNCHANGED file_content
    BY <1>2, StepOnArray DEF MergeInv
  <2> DEFINE taken == file_content[e.child_index][e.rec_index + 1]
             out == sorted_file_content
  <2>2. ContentInv /\ ArrayInv /\ OutputInv /\ MergeSorted /\ MergeComplete
    BY DEF MergeInv
  <2>3. Remaining' = Remaining \ {taken}
    BY <2>1, <2>2, StepTakesOne
  <2>4. /\ taken \in Remaining
        /\ taken \in Record
        /\ \A s \in Remaining : s \in Record /\ taken.freq <= s.freq
    BY <2>1, <2>2, StepTakesSmallest
  <2>5. out' = Append(out, taken) /\ out \in Seq(Record)
    BY <2>1, <2>2 DEF OutputInv
  <2>6. /\ Len(out) \in Nat
        /\ DOMAIN out = 1 .. Len(out)
        /\ DOMAIN out' = 1 .. Len(out) + 1
        /\ \A i \in 1 .. Len(out) :
             out'[i] = out[i] /\ out[i] \in Range(out) /\ out[i] \in Record
        /\ out'[Len(out) + 1] = taken
    <3> HIDE DEF taken
    <3> QED
      BY <2>4, <2>5 DEF Range
  <2>7. Range(out') = Range(out) \cup {taken}
    <3> HIDE DEF taken
    <3> QED
      BY <2>4, <2>5, AppendRange
  <2>8. ContentInv'
    BY <2>1, <2>2 DEF ContentInv, Sorted
  <2>9. ArrayInv'
    <3>1. \A d \in Entries' :
            \/ d \in Entries \ {e}
            \/ /\ e.rec_index < read_rec_num(e.child_index) - 1
               /\ d = Entry(e.child_index, e.rec_index + 1)
      BY <2>1 DEF Replacement
    <3>2. /\ e.child_index \in Children
          /\ e.rec_index \in 0 .. read_rec_num(e.child_index) - 1
          /\ read_rec_num(e.child_index) \in Nat \ {0}
      BY <2>2, ChunkSizes DEF ArrayInv, Shows
    <3>3. \A i, k : Entry(i, k)' = Entry(i, k)
      BY <2>1 DEF Entry
    <3>4. \A i, k : Entry(i, k).child_index = i /\ Entry(i, k).rec_index = k
      BY DEF Entry
    <3>5. \A d \in Entries' :
            /\ d.child_index \in Children
            /\ d.rec_index \in 0 .. read_rec_num(d.child_index) - 1
            /\ d = Entry(d.child_index, d.rec_index)
      <4> SUFFICES ASSUME NEW d \in Entries'
          PROVE  /\ d.child_index \in Children
                 /\ d.rec_index \in 0 .. read_rec_num(d.child_index) - 1
                 /\ d = Entry(d.child_index, d.rec_index)
        OBVIOUS
      <4>1. CASE d \in Entries \ {e}
        BY <2>2, <4>1 DEF ArrayInv, Shows
      <4>2. CASE /\ e.rec_index < read_rec_num(e.child_index) - 1
                 /\ d = Entry(e.child_index, e.rec_index + 1)
        BY <3>2, <3>4, <4>2
      <4> QED
        BY <3>1, <4>1, <4>2
    <3>6. \A d \in Entries' : Shows(d)'
      BY <2>1, <3>3, <3>5 DEF Shows, Children, chunk_num, read_rec_num
    <3> QED
      BY <2>0, <3>6 DEF ArrayInv, EntryShape, ChunksDiffer, Children, chunk_num
  <2>10. OutputInv'
    BY <2>4, <2>5 DEF OutputInv
  <2>11. MergeSorted'
    <3> HIDE DEF taken
    <3>1. \A i \in 1 .. Len(out) : out[i].freq <= taken.freq
      BY <2>2, <2>4, <2>6 DEF MergeSorted
    <3>2. taken.freq \in Int
      BY <2>4, MergeAssumption DEF Record
    <3>3. Sorted(out')
      <4> SUFFICES ASSUME NEW i \in 1 .. Len(out) + 1, NEW j \in 1 .. Len(out) + 1,
                          i <= j
          PROVE  out'[i].freq <= out'[j].freq
        BY <2>6 DEF Sorted
      <4>1. CASE j <= Len(out)
        <5>1. i \in 1 .. Len(out) /\ j \in 1 .. Len(out)
          BY <2>6, <4>1
        <5> QED
          BY <2>2, <2>6, <5>1 DEF MergeSorted, Sorted
      <4>2. CASE j = Len(out) + 1 /\ i # j
        <5>1. i \in 1 .. Len(out)
          BY <2>6, <4>2
        <5> QED
          BY <2>6, <3>1, <4>2, <5>1
      <4>3. CASE j = Len(out) + 1 /\ i = j
        BY <2>6, <3>2, <4>3
      <4> QED
        BY <2>6, <4>1, <4>2, <4>3
    <3>4. \A r \in Range(out'), s \in Remaining' : r.freq <= s.freq
      BY <2>2, <2>3, <2>4, <2>7 DEF MergeSorted
    <3> QED
      BY <3>3, <3>4 DEF MergeSorted, Sorted
  <2>12. MergeComplete'
    <3> HIDE DEF taken
    <3>1. Delivered' = Delivered
      BY <2>1 DEF Delivered, chunk_num, Children
    <3>2. /\ Range(out) \cup Remaining = Delivered
          /\ Range(out) \cap Remaining = {}
      BY <2>2 DEF MergeComplete
    <3>3. /\ Range(out') \cup Remaining' = Delivered'
          /\ Range(out') \cap Remaining' = {}
      BY <2>3, <2>4, <2>7, <3>1, <3>2
    <3>4. taken \notin Range(out)
      BY <2>4, <3>2
    <3>5. IsInjective(out')
      <4> SUFFICES ASSUME NEW i \in 1 .. Len(out) + 1, NEW j \in 1 .. Len(out) + 1,
                          out'[i] = out'[j]
          PROVE  i = j
        BY <2>6 DEF IsInjective
      <4>1. \A k \in 1 .. Len(out) : out'[k] # taken
        BY <2>6, <3>4
      <4>2. \A k \in 1 .. Len(out) + 1 : k \in 1 .. Len(out) \/ k = Len(out) + 1
        BY <2>6
      <4>3. CASE i = Len(out) + 1 \/ j = Len(out) + 1
        BY <2>6, <4>1, <4>2, <4>3
      <4>4. CASE i \in 1 .. Len(out) /\ j \in 1 .. Len(out)
        BY <2>2, <2>6, <4>4 DEF MergeComplete, IsInjective
      <4> QED
        BY <4>2, <4>3, <4>4
    <3> QED
      BY <3>3, <3>5 DEF MergeComplete, IsInjective
  <2> QED
    BY <2>8, <2>9, <2>10, <2>11, <2>12 DEF MergeInv
<1> QED
  BY <1>1, <1>2

-----------------------------------------------------------------------------
(* Types.                                                                  *)

\* A record's word tells it from the others, and there is one for each place in
\* the file.
WordsInv ==
  /\ \A r \in Delivered : r.word \in 0 .. record_num - 1
  /\ \A r, s \in Delivered : r.word = s.word => r = s

\* A sequence without repetition is as long as its range is big.
LEMMA InjectiveLength ==
  ASSUME NEW S, NEW s \in Seq(S), IsInjective(s)
  PROVE  IsFiniteSet(Range(s)) /\ Cardinality(Range(s)) = Len(s)
<1>1. Len(s) \in Nat /\ DOMAIN s = 1 .. Len(s) /\ s \in [1 .. Len(s) -> Range(s)]
  BY DEF Range
<1>2. s \in Bijection(1 .. Len(s), Range(s))
  BY <1>1 DEF Bijection, Injection, Surjection, IsInjective, Range
<1>3. ExistsBijection(1 .. Len(s), Range(s))
  BY <1>2 DEF ExistsBijection
<1> QED
  BY <1>1, <1>3, FS_CountingElements, FS_NatBijection

LEMMA TypesFollow ==
  ASSUME MergeInv, WordsInv
  PROVE  MergeTypeOK
<1> DEFINE out == sorted_file_content
<1>1. \A e \in Entries : e.child_index \in Children
  BY DEF MergeInv, ArrayInv, Shows
<1>2. /\ out \in Seq(Record) /\ IsInjective(out) /\ Range(out) \subseteq Delivered
  BY DEF MergeInv, OutputInv, MergeComplete
<1>3. IsFiniteSet(Range(out)) /\ Cardinality(Range(out)) = Len(out)
  BY <1>2, InjectiveLength
<1>4. Cardinality(Range(out)) <= record_num
  <2> DEFINE w == [r \in Range(out) |-> r.word]
  <2>1. w \in Injection(Range(out), 0 .. record_num - 1)
    BY <1>2 DEF WordsInv, Injection, IsInjective
  <2>2. /\ IsFiniteSet(0 .. record_num - 1)
        /\ Cardinality(0 .. record_num - 1) = record_num
    BY FS_Interval, MergeAssumption
  <2> QED
    BY <2>1, <2>2, FS_Injection
<1>5. Len(out) \in 0 .. record_num
  BY <1>2, <1>3, <1>4, MergeAssumption
<1> QED
  BY <1>1, <1>2, <1>5 DEF MergeTypeOK, MergeInv, ArrayInv
=============================================================================
