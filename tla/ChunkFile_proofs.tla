--------------------------- MODULE ChunkFile_proofs ---------------------------
(***************************************************************************)
(* Proofs about ChunkFile, for every set of versions, every number of      *)
(* chunks and every number of writes: the metadata at its end commits a    *)
(* file, a Write that returned OK is in the file, and a reader that no     *)
(* writer disturbs returns the chunks of one version.                      *)
(***************************************************************************)
EXTENDS ChunkFile, SequenceLemmas

(* The records of a file *)

\* Metadata and chunks are told apart, and both are records.
LEMMA Kinds ==
    ASSUME NEW v \in Version, NEW k \in Nat, NEW o \in Seq(Nat)
    PROVE  /\ ChunkRecord(v, k) \in Record /\ ~IsMetadata(ChunkRecord(v, k))
           /\ MetadataRecord(v, o) \in [version : Version, offsets : Seq(Nat)]
           /\ MetadataRecord(v, o) \in Record /\ IsMetadata(MetadataRecord(v, o))
           /\ MetadataRecord(v, o).version = v /\ MetadataRecord(v, o).offsets = o
BY DEF ChunkRecord, MetadataRecord, IsMetadata, Record

\* The offsets of a version's chunks.
Where(v) == [k \in 1..Chunks[v] |-> k - 1]

\* The file of a version: its chunks in their order, then where they are.
LEMMA FileOfVersion ==
    ASSUME NEW v \in Version
    PROVE  /\ Chunks[v] \in Nat
           /\ Where(v) \in Seq(Nat)
           /\ WriteToString(v) \in Seq(Record)
           /\ Len(WriteToString(v)) = Chunks[v] + 1
           /\ \A k \in 1..Chunks[v] : WriteToString(v)[k] = ChunkRecord(v, k - 1)
           /\ WriteToString(v)[Chunks[v] + 1] =
                 MetadataRecord(v, Where(v))
<1> DEFINE chunks == [k \in 1..Chunks[v] |-> ChunkRecord(v, k - 1)]
           end == <<MetadataRecord(v, Where(v))>>
<1>1. Chunks[v] \in Nat
  BY ChunkFileAssumption
<1>2. chunks \in Seq(Record) /\ Len(chunks) = Chunks[v]
  <2>1. \A k \in 1..Chunks[v] : ChunkRecord(v, k - 1) \in Record
    BY <1>1 DEF ChunkRecord, Record
  <2> QED BY <1>1, <2>1
<1>3. Where(v) \in Seq(Nat)
  BY <1>1 DEF Where
<1>4. MetadataRecord(v, Where(v)) \in Record
  BY <1>3, Kinds
<1>5. end \in Seq(Record) /\ Len(end) = 1 /\ end[1] = MetadataRecord(v, Where(v))
  BY <1>4
<1>6. \A k \in 1..Chunks[v] : chunks[k] = ChunkRecord(v, k - 1)
  OBVIOUS
<1>7. WriteToString(v) = chunks \o end
  BY DEF WriteToString, Where
<1> HIDE DEF chunks, end
<1>8. /\ chunks \o end \in Seq(Record)
      /\ Len(chunks \o end) = Len(chunks) + Len(end)
      /\ \A i \in 1..(Len(chunks) + Len(end)) :
            (chunks \o end)[i] = IF i <= Len(chunks) THEN chunks[i] ELSE end[i - Len(chunks)]
  BY <1>2, <1>5, ConcatProperties
<1>9. (chunks \o end)[Chunks[v] + 1] = MetadataRecord(v, Where(v))
  <2>1. /\ Chunks[v] + 1 \in 1..(Len(chunks) + Len(end))
        /\ ~(Chunks[v] + 1 <= Len(chunks))
        /\ Chunks[v] + 1 - Len(chunks) = 1
    BY <1>1, <1>2, <1>5
  <2> QED BY <1>5, <1>8, <2>1
<1>10. \A k \in 1..Chunks[v] : (chunks \o end)[k] = ChunkRecord(v, k - 1)
  BY <1>1, <1>2, <1>5, <1>6, <1>8
<1>11. Len(chunks \o end) = Chunks[v] + 1
  BY <1>2, <1>5, <1>8
<1> QED BY <1>1, <1>3, <1>7, <1>8, <1>9, <1>10, <1>11, Zenon

\* Nothing but its own metadata is metadata in the file of a version.
LEMMA MetadataIsLast ==
    ASSUME NEW v \in Version, NEW k \in 1..(Chunks[v] + 1)
    PROVE  IsMetadata(WriteToString(v)[k]) <=> k = Chunks[v] + 1
<1>1. Chunks[v] \in Nat
  BY FileOfVersion
<1>2. CASE k = Chunks[v] + 1
  <2>1. IsMetadata(MetadataRecord(v, Where(v)))
    BY FileOfVersion, Kinds
  <2>2. WriteToString(v)[k] = MetadataRecord(v, Where(v))
    BY <1>2, FileOfVersion, Zenon
  <2> QED BY <1>2, <2>1, <2>2, Zenon
<1>3. CASE k # Chunks[v] + 1
  <2>1. k \in 1..Chunks[v] /\ k - 1 \in Nat
    BY <1>1, <1>3
  <2> QED BY <1>3, <2>1, FileOfVersion, Kinds
<1> QED BY <1>2, <1>3

\* A file that has as many records as its version is written has them all.
LEMMA BeginsWhole ==
    ASSUME NEW v \in Version, NEW s, Begins(s, v), Len(s) = Chunks[v] + 1
    PROVE  s = WriteToString(v)
<1>1. s \in Seq(Record) /\ \A k \in 1..Len(s) : s[k] = WriteToString(v)[k]
  BY DEF Begins
<1> QED BY <1>1, FileOfVersion, SeqEqual

\* A file whose last record is metadata is a whole file, and the metadata is its
\* version's.
LEMMA EndsInMetadata ==
    ASSUME NEW v \in Version, NEW s, Begins(s, v), s # <<>>, IsMetadata(Last(s))
    PROVE  /\ s = WriteToString(v)
           /\ Last(s) = MetadataRecord(v, Where(v))
<1>1. /\ s \in Seq(Record)
      /\ Len(s) <= Chunks[v] + 1
      /\ \A k \in 1..Len(s) : s[k] = WriteToString(v)[k]
  BY DEF Begins
<1>2. Len(s) \in Nat \ {0} /\ Chunks[v] \in Nat
  BY <1>1, EmptySeq, FileOfVersion
<1>3. Len(s) \in 1..(Chunks[v] + 1) /\ Len(s) \in 1..Len(s)
  BY <1>1, <1>2
<1>4. Last(s) = WriteToString(v)[Len(s)]
  BY <1>1, <1>3 DEF Last
<1>5. Len(s) = Chunks[v] + 1
  BY <1>3, <1>4, MetadataIsLast
<1>6. WriteToString(v)[Chunks[v] + 1] = MetadataRecord(v, Where(v))
  BY FileOfVersion
<1> QED BY <1>4, <1>5, <1>6, BeginsWhole, Zenon

\* The next record of the version keeps a beginning one.
LEMMA BeginsAppend ==
    ASSUME NEW v \in Version, NEW s, NEW r,
           Begins(s, v), Len(s) <= Chunks[v], r = WriteToString(v)[Len(s) + 1]
    PROVE  Begins(Append(s, r), v)
<1>1. s \in Seq(Record) /\ \A k \in 1..Len(s) : s[k] = WriteToString(v)[k]
  BY DEF Begins
<1>2. Len(s) \in Nat /\ Chunks[v] \in Nat
  BY <1>1, LenProperties, FileOfVersion
<1>3. Len(s) + 1 \in 1..Len(WriteToString(v)) /\ WriteToString(v) \in Seq(Record)
  BY <1>2, FileOfVersion
<1>4. r \in Record
  BY <1>3, ElementOfSeq
<1>5. /\ Append(s, r) \in Seq(Record)
      /\ Len(Append(s, r)) = Len(s) + 1
      /\ \A i \in 1..Len(s) : Append(s, r)[i] = s[i]
      /\ Append(s, r)[Len(s) + 1] = r
  BY <1>1, <1>4, AppendProperties
<1>6. ASSUME NEW k \in 1..(Len(s) + 1)
      PROVE  Append(s, r)[k] = WriteToString(v)[k]
  <2>1. CASE k = Len(s) + 1
    BY <1>5, <2>1
  <2>2. CASE k # Len(s) + 1
    <3>1. k \in 1..Len(s)
      BY <1>2, <2>2
    <3> QED BY <1>1, <1>5, <3>1
  <2> QED BY <2>1, <2>2
<1>7. Len(s) + 1 <= Chunks[v] + 1
  BY <1>2
<1> QED BY <1>5, <1>6, <1>7 DEF Begins

\* What is in the file begins as well as what will be in it.
LEMMA BeginsFront ==
    ASSUME NEW v \in Version, NEW s \in Seq(Record), NEW t \in Seq(Record),
           Begins(s \o t, v)
    PROVE  Begins(s, v)
<1>1. /\ Len(s \o t) <= Chunks[v] + 1
      /\ \A k \in 1..Len(s \o t) : (s \o t)[k] = WriteToString(v)[k]
  BY DEF Begins
<1>2. /\ Len(s \o t) = Len(s) + Len(t)
      /\ \A i \in 1..(Len(s) + Len(t)) :
            (s \o t)[i] = IF i <= Len(s) THEN s[i] ELSE t[i - Len(s)]
  BY ConcatProperties
<1>3. Len(s) \in Nat /\ Len(t) \in Nat /\ Chunks[v] \in Nat
  BY LenProperties, FileOfVersion
<1>4. Len(s) <= Chunks[v] + 1
  BY <1>1, <1>2, <1>3
<1>5. ASSUME NEW k \in 1..Len(s)
      PROVE  s[k] = WriteToString(v)[k]
  <2>1. k \in 1..(Len(s) + Len(t)) /\ k <= Len(s)
    BY <1>3
  <2>2. (s \o t)[k] = s[k]
    BY <1>2, <2>1
  <2>3. k \in 1..Len(s \o t)
    BY <1>2, <2>1
  <2> QED BY <1>1, <2>2, <2>3
<1> QED BY <1>4, <1>5 DEF Begins

\* An empty file is the beginning of every version's.
LEMMA EmptyBegins ==
    ASSUME NEW v \in Version
    PROVE  Begins(<<>>, v)
<1>1. <<>> \in Seq(Record) /\ Len(<<>>) = 0
  BY EmptySeq
<1>2. 0 <= Chunks[v] + 1
  BY FileOfVersion
<1> QED BY <1>1, <1>2 DEF Begins

\* Nothing follows the metadata of a file.
LEMMA NothingFollowsMetadata ==
    ASSUME NEW v \in Version, NEW w \in Version, NEW t \in Seq(Record),
           Begins(WriteToString(v) \o t, w)
    PROVE  t = <<>>
<1> DEFINE s == WriteToString(v)
<1>1. s \in Seq(Record) /\ Len(s) = Chunks[v] + 1 /\ Chunks[v] \in Nat /\ Chunks[w] \in Nat
  BY FileOfVersion
<1>2. s # <<>> /\ Last(s) = s[Chunks[v] + 1] /\ Chunks[v] + 1 \in 1..(Chunks[v] + 1)
  BY <1>1, EmptySeq DEF Last
<1>3. IsMetadata(Last(s))
  BY <1>2, MetadataIsLast
<1>4. Begins(s, w)
  BY <1>1, BeginsFront
<1>5. s = WriteToString(w)
  BY <1>2, <1>3, <1>4, EndsInMetadata
<1>6. Len(s) = Chunks[w] + 1
  BY <1>5, FileOfVersion
<1>7. Len(s \o t) = Len(s) + Len(t) /\ Len(t) \in Nat
  BY <1>1, ConcatProperties, LenProperties
<1>8. Len(s \o t) <= Chunks[w] + 1
  BY DEF Begins
<1>9. Len(t) = 0
  BY <1>1, <1>6, <1>7, <1>8
<1> QED BY <1>9, EmptySeq

\* What GetChunkMetadata finds is the metadata of a whole file.
LEMMA MetadataOfWholeFile ==
    ASSUME FileInv, cpb # None, NEW r \in MetadataOfFile
    PROVE  /\ r \in [version : Version, offsets : Seq(Nat)]
           /\ cpb = WriteToString(r.version)
           /\ r = Last(cpb)
<1>1. PICK v \in Version : cpb \in Seq(Record) /\ Begins(cpb, v)
  BY DEF FileInv
<1>2. r \in ToSet(cpb) /\ r = Last(cpb) /\ IsMetadata(r)
  BY DEF MetadataOfFile
<1>3. cpb # <<>>
  BY <1>2 DEF ToSet
<1>4. cpb = WriteToString(v) /\ r = MetadataRecord(v, Where(v))
  BY <1>1, <1>2, <1>3, EndsInMetadata
<1>5. Where(v) \in Seq(Nat)
  BY FileOfVersion
<1>6. r \in [version : Version, offsets : Seq(Nat)] /\ r.version = v
  BY <1>4, <1>5, Kinds
<1> QED BY <1>2, <1>4, <1>6

------------------------------------------------------------------------------
(* The inductive invariant *)

\* There is no file and nothing to read yet.
LEMMA InitInv == Init => ChunkFileInv
<1> SUFFICES ASSUME Init PROVE ChunkFileInv
  OBVIOUS
<1> USE DEF Init
<1>1. FileInv
  BY DEF FileInv
<1>2. WriterInv
  BY EmptySeq DEF WriterInv, WritingChunks
<1>3. LastInv
  BY DEF LastInv, WrittenIsThere
<1>4. ReaderInv
  BY EmptySeq DEF ReaderInv, OneVersionRead
<1> QED BY <1>1, <1>2, <1>3, <1>4 DEF ChunkFileInv

\* A reader's invariant outlives what opens a file, because the read is disturbed then.
LEMMA OpenKeepsReader ==
    ASSUME ReaderInv, UNCHANGED reader, disturbed' = TRUE, cpb' = cpb \/ cpb' = <<>>
    PROVE  ReaderInv'
<1>1. <<>> \in Seq(Record)
  BY EmptySeq
<1> QED BY <1>1 DEF ReaderInv, OneVersionRead, reader

\* Nothing that leaves the file and the reader alone, or lets the reader read a file no
\* writer has, breaks the reader's invariant.
LEMMA StutterReader ==
    ASSUME ReaderInv, UNCHANGED <<cpb, reader, disturbed>>
    PROVE  ReaderInv'
BY DEF ReaderInv, OneVersionRead, reader

\* The invariants of the file, the writer and the last result read only their variables.
LEMMA StutterWriter ==
    ASSUME FileInv, WriterInv, LastInv, UNCHANGED <<pb, cpb, writer, last>>
    PROVE  FileInv' /\ WriterInv' /\ LastInv'
BY DEF FileInv, WriterInv, LastInv, WritingChunks, MoreChunks, WrittenIsThere, writer

\* Opening the .pb takes away what was in it; the .cpb is not touched.
LEMMA OpenPbInv ==
    ASSUME ChunkFileInv, NEW v \in Version, OpenPb(v)
    PROVE  ChunkFileInv'
<1> USE DEF ChunkFileInv, OpenPb, Open, Called
<1>1. FileInv'
  BY DEF FileInv
<1>2. WriterInv'
  BY EmptySeq DEF WriterInv, WritingChunks
<1>3. LastInv'
  BY DEF LastInv, WrittenIsThere
<1>4. ReaderInv'
  BY OpenKeepsReader, Zenon
<1> QED BY <1>1, <1>2, <1>3, <1>4

\* Opening the .cpb empties it: nothing is left of another version.
LEMMA OpenCpbInv ==
    ASSUME ChunkFileInv, NEW v \in Version, OpenCpb(v)
    PROVE  ChunkFileInv'
<1> USE DEF ChunkFileInv, OpenCpb, Open, Called
<1>1. FileInv'
  BY EmptySeq, EmptyBegins DEF FileInv
<1>2. WriterInv'
  <2>1. buffer = <<>>
    BY DEF WriterInv, WritingChunks
  <2>2. <<>> \o <<>> = <<>> /\ <<>> \in Seq(Record) /\ <<>> \in Seq(Nat) /\ Len(<<>>) = 0
    BY EmptySeq, ConcatEmptySeq
  <2>3. Begins(cpb' \o buffer', v)
    BY <2>1, <2>2, EmptyBegins
  <2>4. Chunks[v] \in Nat
    BY FileOfVersion
  <2> QED BY <2>1, <2>2, <2>3, <2>4 DEF WriterInv, WritingChunks, MoreChunks
<1>3. LastInv'
  BY DEF LastInv, WrittenIsThere
<1>4. ReaderInv'
  BY OpenKeepsReader, Zenon
<1> QED BY <1>1, <1>2, <1>3, <1>4

\* An open that fails leaves the file of that name as it was.
LEMMA OpenFailsInv ==
    ASSUME ChunkFileInv, OpenFails
    PROVE  ChunkFileInv'
<1> USE DEF ChunkFileInv, OpenFails, Called
<1>1. FileInv'
  BY DEF FileInv
<1>2. WriterInv'
  BY DEF WriterInv, WritingChunks, MoreChunks
<1>3. LastInv'
  BY DEF LastInv, WrittenIsThere
<1>4. ReaderInv'
  BY StutterReader, Zenon
<1> QED BY <1>1, <1>2, <1>3, <1>4

\* WriteRecord puts the next record of the version behind the others, or nothing.
LEMMA PutGoesOn ==
    ASSUME WriterInv, WritingChunks, next <= Chunks[writing], NEW r, Put(r),
           wok => r = WriteToString(writing)[next + 1]
    PROVE  /\ buffer' \in Seq(Record)
           /\ Begins(cpb \o buffer', writing)
           /\ wok => Len(cpb \o buffer') = next + 1
           /\ ~wok => buffer' = <<>>
<1>1. /\ writing \in Version /\ Chunks[writing] > 0
      /\ cpb \in Seq(Record) /\ buffer \in Seq(Record)
      /\ Begins(cpb \o buffer, writing)
      /\ next \in 0..(Chunks[writing] + 1)
      /\ wok => Len(cpb \o buffer) = next
      /\ ~wok => buffer = <<>>
  BY DEF WriterInv, WritingChunks
<1>2. CASE ~wok
  BY <1>1, <1>2 DEF Put
<1>3. CASE wok
  <2>1. /\ Chunks[writing] \in Nat
        /\ WriteToString(writing) \in Seq(Record)
        /\ Len(WriteToString(writing)) = Chunks[writing] + 1
    BY <1>1, FileOfVersion
  <2>2. next + 1 \in 1..Len(WriteToString(writing))
    BY <1>1, <2>1
  <2>3. r \in Record
    BY <1>3, <2>1, <2>2, ElementOfSeq
  <2>4. buffer' = Append(buffer, r) /\ buffer' \in Seq(Record)
    BY <1>1, <1>3, <2>3, AppendProperties DEF Put
  <2>5. cpb \o buffer' = Append(cpb \o buffer, r)
    BY <1>1, <2>3, <2>4, ConcatAppend
  <2>6. Begins(Append(cpb \o buffer, r), writing)
    <3> DEFINE s == cpb \o buffer
    <3>1. Begins(s, writing) /\ Len(s) = next
      BY <1>1, <1>3
    <3> HIDE DEF s
    <3>2. Len(s) <= Chunks[writing] /\ r = WriteToString(writing)[Len(s) + 1]
      BY <1>3, <3>1
    <3>3. Begins(Append(s, r), writing)
      BY <1>1, <3>1, <3>2, BeginsAppend
    <3> QED BY <3>3 DEF s
  <2>7. Len(Append(cpb \o buffer, r)) = next + 1
    <3>1. cpb \o buffer \in Seq(Record)
      BY <1>1, ConcatProperties
    <3> QED BY <1>1, <1>3, <2>3, <3>1, AppendProperties
  <2> QED BY <1>3, <2>4, <2>5, <2>6, <2>7
<1> QED BY <1>2, <1>3

\* The buffer gets the next record of the version that is written.
LEMMA WriteRecordInv ==
    ASSUME ChunkFileInv, WriteRecord
    PROVE  ChunkFileInv'
<1> USE DEF ChunkFileInv, WriteRecord
<1>1. FileInv'
  BY DEF FileInv
<1>2. WriterInv'
  <2>1. /\ writing \in Version /\ writing # None
        /\ Chunks[writing] \in Nat /\ Chunks[writing] > 0
        /\ cpb \in Seq(Record) /\ buffer \in Seq(Record)
        /\ next \in 0..(Chunks[writing] + 1) /\ next < Chunks[writing]
        /\ offsets \in Seq(Nat) /\ Len(offsets) = next
        /\ wok => /\ Len(cpb \o buffer) = next
                  /\ \A k \in 1..Len(offsets) : offsets[k] = k - 1
    BY ChunkFileAssumption DEF WriterInv, WritingChunks, MoreChunks
  <2>2. next + 1 \in 1..Chunks[writing] /\ next <= Chunks[writing]
    BY <2>1
  <2>3. ChunkRecord(writing, next) = WriteToString(writing)[next + 1]
    <3>1. WriteToString(writing)[next + 1] = ChunkRecord(writing, next + 1 - 1)
      BY <2>1, <2>2, FileOfVersion
    <3>2. next + 1 - 1 = next
      BY <2>1
    <3> QED BY <3>1, <3>2
  <2>4. /\ buffer' \in Seq(Record)
        /\ Begins(cpb \o buffer', writing)
        /\ wok => Len(cpb \o buffer') = next + 1
        /\ ~wok => buffer' = <<>>
    BY <2>2, <2>3, PutGoesOn
  <2>5. LastPos \in Nat /\ (wok => LastPos = next)
    <3>1. Len(cpb) \in Nat /\ Len(buffer) \in Nat /\ Len(cpb \o buffer) = Len(cpb) + Len(buffer)
      BY <2>1, LenProperties, ConcatProperties
    <3> QED BY <2>1, <3>1 DEF LastPos
  <2>6. /\ offsets' \in Seq(Nat)
        /\ Len(offsets') = next + 1
        /\ \A k \in 1..next : offsets'[k] = offsets[k]
        /\ offsets'[next + 1] = LastPos
    <3> DEFINE p == LastPos
    <3>1. offsets' = Append(offsets, p)
      OBVIOUS
    <3>2. p \in Nat
      BY <2>5
    <3> HIDE DEF p
    <3>3. /\ Append(offsets, p) \in Seq(Nat)
          /\ Len(Append(offsets, p)) = Len(offsets) + 1
          /\ \A i \in 1..Len(offsets) : Append(offsets, p)[i] = offsets[i]
          /\ Append(offsets, p)[Len(offsets) + 1] = p
      BY <2>1, <3>2, AppendProperties
    <3>4. Len(offsets) = next
      BY <2>1
    <3> QED BY <3>1, <3>3, <3>4, Zenon DEF p
  <2>7. wok => \A k \in 1..Len(offsets') : offsets'[k] = k - 1
    <3> SUFFICES ASSUME wok, NEW k \in 1..(next + 1) PROVE offsets'[k] = k - 1
      BY <2>6
    <3>1. CASE k = next + 1
      BY <2>1, <2>5, <2>6, <3>1
    <3>2. CASE k # next + 1
      <4>1. k \in 1..next
        BY <2>1, <3>2
      <4> QED BY <2>1, <2>6, <4>1
    <3> QED BY <3>1, <3>2
  <2>8. /\ next' = next + 1
        /\ next + 1 \in 0..(Chunks[writing] + 1)
        /\ next + 1 = IF next + 1 < Chunks[writing] THEN next + 1 ELSE Chunks[writing]
    BY <2>1
  <2>9. UNCHANGED <<cpb, writing, wok, pb>>
    OBVIOUS
  <2>10. WritingChunks /\ WritingChunks'
    BY <2>9 DEF WritingChunks
  <2> QED BY <2>1, <2>4, <2>6, <2>7, <2>8, <2>9, <2>10 DEF WriterInv, MoreChunks
<1>3. LastInv'
  BY DEF LastInv, WrittenIsThere
<1>4. ReaderInv'
  BY StutterReader, Zenon
<1> QED BY <1>1, <1>2, <1>3, <1>4

\* The metadata comes after all the chunks.
LEMMA WriteMetadataInv ==
    ASSUME ChunkFileInv, WriteMetadata
    PROVE  ChunkFileInv'
<1> USE DEF ChunkFileInv, WriteMetadata
<1>1. FileInv'
  BY DEF FileInv
<1>2. WriterInv'
  <2>1. /\ writing \in Version /\ writing # None
        /\ Chunks[writing] \in Nat /\ Chunks[writing] > 0
        /\ next = Chunks[writing]
        /\ offsets \in Seq(Nat) /\ Len(offsets) = next
        /\ wok => \A k \in 1..Len(offsets) : offsets[k] = k - 1
    BY ChunkFileAssumption DEF WriterInv, WritingChunks, MoreChunks, AllWritten
  <2>2. wok => MetadataRecord(writing, offsets) = WriteToString(writing)[next + 1]
    <3> SUFFICES ASSUME wok
                 PROVE  MetadataRecord(writing, offsets) = WriteToString(writing)[next + 1]
      OBVIOUS
    <3>1. Where(writing) \in Seq(Nat)
      BY <2>1, FileOfVersion
    <3>2. Len(Where(writing)) = Chunks[writing]
          /\ \A k \in 1..Chunks[writing] : Where(writing)[k] = k - 1
      BY <2>1 DEF Where
    <3>3. offsets = Where(writing)
      BY <2>1, <3>1, <3>2, SeqEqual
    <3> QED BY <2>1, <3>3, FileOfVersion
  <2>3. next <= Chunks[writing]
    BY <2>1
  <2>4. /\ buffer' \in Seq(Record)
        /\ Begins(cpb \o buffer', writing)
        /\ wok => Len(cpb \o buffer') = next + 1
        /\ ~wok => buffer' = <<>>
    BY <2>2, <2>3, PutGoesOn
  <2>5. /\ next' = next + 1
        /\ next + 1 \in 0..(Chunks[writing] + 1)
        /\ Chunks[writing] = IF next + 1 < Chunks[writing] THEN next + 1 ELSE Chunks[writing]
    BY <2>1
  <2>6. UNCHANGED <<cpb, writing, offsets, wok, pb>>
    OBVIOUS
  <2>7. WritingChunks /\ WritingChunks'
    BY <2>6 DEF WritingChunks
  <2>8. cpb \in Seq(Record)
    BY <2>7 DEF WriterInv
  <2> QED BY <2>1, <2>4, <2>5, <2>6, <2>7, <2>8 DEF WriterInv, MoreChunks
<1>3. LastInv'
  BY DEF LastInv, WrittenIsThere
<1>4. ReaderInv'
  BY StutterReader, Zenon
<1> QED BY <1>1, <1>2, <1>3, <1>4

\* The first record of the buffer goes into the file.
LEMMA FlushInv ==
    ASSUME ChunkFileInv, Flush
    PROVE  ChunkFileInv'
<1> USE DEF ChunkFileInv, Flush
<1>1. /\ WritingChunks /\ writing \in Version /\ writing # None /\ wok
      /\ cpb \in Seq(Record) /\ buffer \in Seq(Record) /\ buffer # <<>>
      /\ Begins(cpb \o buffer, writing)
  BY DEF WriterInv, WritingChunks
<1>2. /\ cpb' \in Seq(Record) /\ buffer' \in Seq(Record)
      /\ cpb' \o buffer' = cpb \o buffer
  BY <1>1, MoveHead
<1>3. Begins(cpb', writing)
  <2>1. Begins(cpb' \o buffer', writing)
    BY <1>1, <1>2
  <2> QED BY <1>1, <1>2, <2>1, BeginsFront
<1>4. FileInv'
  BY <1>1, <1>2, <1>3 DEF FileInv
<1>5. WriterInv'
  BY <1>1, <1>2 DEF WriterInv, WritingChunks, MoreChunks
<1>6. LastInv'
  BY <1>1 DEF LastInv, WrittenIsThere
<1>7. reading \in {"metadata", "chunks"} => disturbed
  <2> SUFFICES ASSUME reading \in {"metadata", "chunks"}, ~disturbed PROVE FALSE
    OBVIOUS
  <2>1. metadata.version \in Version /\ cpb = WriteToString(metadata.version)
    BY DEF ReaderInv
  <2> QED BY <1>1, <2>1, NothingFollowsMetadata
<1>8. ReaderInv'
  BY <1>2, <1>7 DEF ReaderInv, OneVersionRead, reader
<1> QED BY <1>4, <1>5, <1>6, <1>8

\* On a full disk the buffer is lost; what is in the file stays a beginning.
LEMMA WriteFailsInv ==
    ASSUME ChunkFileInv, WriteFails
    PROVE  ChunkFileInv'
<1> USE DEF ChunkFileInv, WriteFails
<1>1. /\ WritingChunks /\ writing \in Version
      /\ cpb \in Seq(Record) /\ buffer \in Seq(Record)
      /\ Begins(cpb \o buffer, writing)
  BY DEF WriterInv, WritingChunks
<1>2. <<>> \in Seq(Record) /\ cpb \o <<>> = cpb
  BY <1>1, EmptySeq, ConcatEmptySeq
<1>3. Begins(cpb, writing)
  BY <1>1, BeginsFront
<1>4. FileInv'
  BY DEF FileInv
<1>5. WriterInv'
  BY <1>1, <1>2, <1>3 DEF WriterInv, WritingChunks, MoreChunks
<1>6. LastInv'
  BY DEF LastInv, WrittenIsThere
<1>7. ReaderInv'
  BY StutterReader, Zenon
<1> QED BY <1>4, <1>5, <1>6, <1>7

\* Close flushes the rest, and only then is OK returned.
LEMMA CloseInv ==
    ASSUME ChunkFileInv, Close
    PROVE  ChunkFileInv'
<1> USE DEF ChunkFileInv, Close
<1>1. /\ WritingChunks /\ writing \in Version /\ writing # None /\ Chunks[writing] > 0
      /\ Chunks[writing] \in Nat /\ next \in 0..(Chunks[writing] + 1)
      /\ cpb \in Seq(Record) /\ buffer \in Seq(Record)
      /\ Begins(cpb \o buffer, writing)
      /\ wok => Len(cpb \o buffer) = next
      /\ last = None
  BY ChunkFileAssumption DEF WriterInv, WritingChunks, LastInv
<1>2. cpb' = cpb \o buffer /\ cpb' \in Seq(Record)
  BY <1>1, ConcatProperties
<1>3. FileInv'
  BY <1>1, <1>2 DEF FileInv
<1>4. WriterInv'
  BY EmptySeq DEF WriterInv, WritingChunks
<1>5. LastInv'
  <2>1. CASE wok
    <3>1. Len(cpb') = Chunks[writing] + 1
      BY <1>1, <1>2, <2>1
    <3>2. cpb' = WriteToString(writing)
      BY <1>1, <1>2, <3>1, BeginsWhole
    <3> QED BY <1>1, <2>1, <3>2 DEF LastInv, WrittenIsThere, Closed
  <2>2. CASE ~wok
    BY <1>1, <2>2 DEF LastInv, WrittenIsThere, Closed
  <2> QED BY <2>1, <2>2
<1>6. ReaderInv'
  <2>1. CASE reading \in {"metadata", "chunks"} /\ ~disturbed
    <3>1. metadata.version \in Version /\ cpb = WriteToString(metadata.version)
      BY <2>1 DEF ReaderInv
    <3>2. buffer = <<>>
      BY <1>1, <3>1, NothingFollowsMetadata
    <3>3. cpb' = cpb
      BY <1>1, <1>2, <3>2, ConcatEmptySeq
    <3> QED BY <3>3, StutterReader, Zenon
  <2>2. CASE ~(reading \in {"metadata", "chunks"} /\ ~disturbed)
    BY <1>2, <2>2 DEF ReaderInv, OneVersionRead, reader
  <2> QED BY <2>1, <2>2
<1> QED BY <1>3, <1>4, <1>5, <1>6

\* The same for a .pb.
LEMMA ClosePbInv ==
    ASSUME ChunkFileInv, ClosePb
    PROVE  ChunkFileInv'
<1> USE DEF ChunkFileInv, ClosePb
<1>1. /\ writing \in Version /\ last = None
      /\ pb = [version |-> writing, whole |-> FALSE]
      /\ buffer = <<>>
  BY DEF WriterInv, WritingChunks, LastInv
<1>2. [pb EXCEPT !.whole = TRUE] = [version |-> writing, whole |-> TRUE]
  <2>1. ASSUME NEW v, NEW a, NEW b
        PROVE  [[version |-> v, whole |-> a] EXCEPT !.whole = b] = [version |-> v, whole |-> b]
    OBVIOUS
  <2> QED BY <1>1, <2>1, Zenon
<1>3. FileInv'
  BY <1>1, <1>2 DEF FileInv
<1>4. WriterInv'
  BY <1>1 DEF WriterInv, WritingChunks
<1>5. LastInv'
  BY <1>1, <1>2 DEF LastInv, WrittenIsThere
<1>6. ReaderInv'
  BY StutterReader, Zenon
<1> QED BY <1>3, <1>4, <1>5, <1>6

\* A crash loses the buffer, and no more.
LEMMA CrashInv ==
    ASSUME ChunkFileInv, Crash
    PROVE  ChunkFileInv'
<1> USE DEF ChunkFileInv, Crash
<1>1. FileInv'
  BY DEF FileInv
<1>2. WriterInv'
  BY EmptySeq DEF WriterInv, WritingChunks
<1>3. LastInv'
  BY DEF LastInv, WrittenIsThere
<1>4. ReaderInv'
  BY StutterReader, Zenon
<1> QED BY <1>1, <1>2, <1>3, <1>4

------------------------------------------------------------------------------
(* Readers *)

\* A read that starts has read nothing yet.
LEMMA ReadBeginInv ==
    ASSUME ChunkFileInv, ReadBegin
    PROVE  ChunkFileInv'
<1> USE DEF ChunkFileInv, ReadBegin
<1>1. FileInv' /\ WriterInv' /\ LastInv'
  BY StutterWriter, Zenon
<1>2. /\ reading' \in {"no", "ReadPb"}
      /\ result' # None => result'.how = "Read"
  BY DEF Done
<1>3. ReaderInv'
  BY <1>2 DEF ReaderInv, OneVersionRead
<1> QED BY <1>1, <1>3

\* ReadPb returns what is in the .pb.
LEMMA ReadPbInv ==
    ASSUME ChunkFileInv, ReadPb
    PROVE  ChunkFileInv'
<1> USE DEF ChunkFileInv, ReadPb
<1>1. FileInv' /\ WriterInv' /\ LastInv'
  BY StutterWriter, Zenon
<1>2. /\ reading' = "no"
      /\ result'.how = "Read"
  BY DEF Done
<1>3. ReaderInv'
  BY <1>2 DEF ReaderInv, OneVersionRead
<1> QED BY <1>1, <1>3

\* The metadata that was read belongs to the version in the file.
LEMMA GetChunkMetadataInv ==
    ASSUME ChunkFileInv, GetChunkMetadata
    PROVE  ChunkFileInv'
<1> USE DEF ChunkFileInv, GetChunkMetadata
<1>1. FileInv' /\ WriterInv' /\ LastInv'
  BY StutterWriter, Zenon
<1>2. cpb # None /\ cpb' = cpb /\ got' = <<>> /\ cpb \in Seq(Record)
  BY DEF FileInv
<1>3. <<>> \in Seq(Record) /\ Len(<<>>) = 0
  BY EmptySeq
<1>4. CASE /\ MetadataOfFile = {}
           /\ \E status \in NoMetadataStatus : Done("GetChunkMetadata", status, None)
           /\ UNCHANGED metadata
  <2>1. reading' = "no" /\ result'.how = "GetChunkMetadata"
    BY <1>4 DEF Done
  <2> QED BY <1>1, <1>2, <1>3, <1>4, <2>1 DEF ReaderInv, OneVersionRead
<1>5. CASE (\E r \in MetadataOfFile : metadata' = r) /\ result' = None
  <2>1. PICK r \in MetadataOfFile : metadata' = r
    BY <1>5
  <2>2. /\ r \in [version : Version, offsets : Seq(Nat)]
        /\ cpb = WriteToString(r.version)
        /\ r = Last(cpb)
    BY <1>2, MetadataOfWholeFile
  <2>3. r.version \in Version /\ r \in Record
    BY <2>2 DEF Record
  <2>4. Chunks[r.version] \in Nat
    BY <2>3, FileOfVersion
  <2>5. Len(got') <= Chunks[r.version] /\ \A k \in 1..Len(got') : got'[k] = cpb[k]
    BY <1>2, <1>3, <2>4
  <2>6. ReaderInv'
    BY <1>2, <1>3, <1>5, <2>1, <2>2, <2>3, <2>5 DEF ReaderInv, OneVersionRead
  <2> QED BY <1>1, <2>6
<1> QED BY <1>4, <1>5

\* The reader goes on with the metadata it has.
LEMMA ReadPartialInv ==
    ASSUME ChunkFileInv, ReadPartial
    PROVE  ChunkFileInv'
<1> USE DEF ChunkFileInv, ReadPartial
<1>1. FileInv' /\ WriterInv' /\ LastInv'
  BY StutterWriter, Zenon
<1>2. ReaderInv'
  BY DEF ReaderInv, OneVersionRead
<1> QED BY <1>1, <1>2

\* What an undisturbed reader knows: where its version's chunks are, and what is there.
LEMMA UndisturbedReader ==
    ASSUME ReaderInv, reading = "chunks", ~disturbed
    PROVE  LET v == metadata.version IN
           /\ v \in Version /\ Chunks[v] \in Nat
           /\ metadata.offsets = Where(v)
           /\ Len(metadata.offsets) = Chunks[v]
           /\ cpb \in Seq(Record) /\ Len(cpb) = Chunks[v] + 1
           /\ \A k \in 1..Chunks[v] : cpb[k] = ChunkRecord(v, k - 1)
<1> DEFINE v == metadata.version
<1>1. /\ cpb \in Seq(Record)
      /\ metadata \in [version : Version, offsets : Seq(Nat)]
      /\ cpb = WriteToString(v)
      /\ metadata = Last(cpb)
  BY DEF ReaderInv
<1>2. v \in Version
  BY <1>1
<1> HIDE DEF v
<1>3. /\ Chunks[v] \in Nat /\ Where(v) \in Seq(Nat)
      /\ Len(WriteToString(v)) = Chunks[v] + 1
      /\ \A k \in 1..Chunks[v] : WriteToString(v)[k] = ChunkRecord(v, k - 1)
      /\ WriteToString(v)[Chunks[v] + 1] = MetadataRecord(v, Where(v))
  BY <1>2, FileOfVersion
<1>4. Last(cpb) = MetadataRecord(v, Where(v))
  BY <1>1, <1>3 DEF Last
<1>5. metadata.offsets = Where(v)
  BY <1>1, <1>2, <1>3, <1>4, Kinds
<1>6. Len(Where(v)) = Chunks[v]
  BY <1>3 DEF Where
<1>7. /\ v \in Version /\ Chunks[v] \in Nat
      /\ metadata.offsets = Where(v)
      /\ Len(metadata.offsets) = Chunks[v]
      /\ cpb \in Seq(Record) /\ Len(cpb) = Chunks[v] + 1
      /\ \A k \in 1..Chunks[v] : cpb[k] = ChunkRecord(v, k - 1)
  BY <1>1, <1>2, <1>3, <1>5, <1>6
<1> QED BY <1>7 DEF v

\* A chunk that is read without a writer in between is of the version of the metadata.
LEMMA ReadChunkInv ==
    ASSUME ChunkFileInv, ReadChunk
    PROVE  ChunkFileInv'
<1> USE DEF ChunkFileInv, ReadChunk
<1> DEFINE at == ReadChunkAt
<1>1. FileInv' /\ WriterInv' /\ LastInv'
  BY StutterWriter, Zenon
<1>2. /\ cpb \in Seq(Record) /\ DOMAIN cpb = 1..Len(cpb)
      /\ got \in Seq(Record) /\ Len(got) \in Nat
  BY LenProperties DEF ReaderInv
<1>3. ~disturbed => at = Len(got) + 1 /\ at \in 1..Chunks[metadata.version] /\ at \in DOMAIN cpb
  <2> SUFFICES ASSUME ~disturbed
               PROVE  /\ at = Len(got) + 1 /\ at \in 1..Chunks[metadata.version]
                      /\ at \in DOMAIN cpb
    OBVIOUS
  <2> DEFINE v == metadata.version
  <2>1. /\ Chunks[v] \in Nat
        /\ metadata.offsets = Where(v)
        /\ Len(metadata.offsets) = Chunks[v]
        /\ Len(cpb) = Chunks[v] + 1
    BY UndisturbedReader
  <2>2. Len(got) + 1 \in 1..Chunks[v]
    BY <1>2, <2>1
  <2>3. at = Len(got) + 1 - 1 + 1
    BY <2>1, <2>2 DEF ReadChunkAt, Where
  <2> QED BY <1>2, <2>1, <2>2, <2>3
<1> HIDE DEF at
<1>4. CASE at \in DOMAIN cpb
  <2>1. got' = Append(got, cpb[at]) /\ UNCHANGED <<reading, result>>
    BY <1>4 DEF at
  <2>2. cpb[at] \in Record
    BY <1>2, <1>4, ElementOfSeq
  <2>3. /\ got' \in Seq(Record) /\ Len(got') = Len(got) + 1
        /\ \A k \in 1..Len(got) : got'[k] = got[k]
        /\ got'[Len(got) + 1] = cpb[at]
    BY <1>2, <2>1, <2>2, AppendProperties
  <2>4. ~disturbed => /\ Len(got') <= Chunks[metadata.version]
                      /\ \A k \in 1..Len(got') : got'[k] = cpb[k]
    <3> SUFFICES ASSUME ~disturbed
                 PROVE  /\ Len(got') <= Chunks[metadata.version]
                        /\ \A k \in 1..Len(got') : got'[k] = cpb[k]
      OBVIOUS
    <3>1. at = Len(got) + 1 /\ at \in 1..Chunks[metadata.version]
      BY <1>3
    <3>2. \A k \in 1..Len(got) : got[k] = cpb[k]
      BY DEF ReaderInv
    <3>3. Len(got') <= Chunks[metadata.version]
      BY <2>3, <3>1
    <3>4. ASSUME NEW k \in 1..(Len(got) + 1)
          PROVE  got'[k] = cpb[k]
      <4>1. CASE k = Len(got) + 1
        BY <2>3, <3>1, <4>1
      <4>2. CASE k # Len(got) + 1
        <5>1. k \in 1..Len(got)
          BY <1>2, <4>2
        <5> QED BY <2>3, <3>2, <5>1
      <4> QED BY <4>1, <4>2
    <3> QED BY <2>3, <3>3, <3>4
  <2>5. UNCHANGED <<cpb, metadata, disturbed, result, reading>> /\ reading = "chunks"
    BY <2>1
  <2>6. result = None
    BY DEF ReaderInv
  <2> QED BY <1>1, <2>3, <2>4, <2>5, <2>6 DEF ReaderInv, OneVersionRead
<1>5. CASE at \notin DOMAIN cpb
  <2>1. reading' = "no" /\ got' = got /\ disturbed
    BY <1>3, <1>5 DEF Done, at
  <2> QED BY <1>1, <2>1 DEF ReaderInv, OneVersionRead
<1> QED BY <1>4, <1>5

\* ReadPartial returns when all the chunks are read.
LEMMA ReadPartialDoneInv ==
    ASSUME ChunkFileInv, ReadPartialDone
    PROVE  ChunkFileInv'
<1> USE DEF ChunkFileInv, ReadPartialDone
<1> DEFINE v == metadata.version
           chunks == [k \in 1..Chunks[v] |-> ChunkRecord(v, k - 1)]
<1>1. FileInv' /\ WriterInv' /\ LastInv'
  BY StutterWriter, Zenon
<1>2. /\ reading' = "no" /\ got' = got
      /\ result'.status = "OK" /\ result'.version = v
  BY DEF Done
<1>3. ~disturbed => got = chunks
  <2> SUFFICES ASSUME ~disturbed PROVE got = chunks
    OBVIOUS
  <2>1. /\ v \in Version /\ Chunks[v] \in Nat
        /\ Len(metadata.offsets) = Chunks[v]
        /\ \A k \in 1..Chunks[v] : cpb[k] = ChunkRecord(v, k - 1)
    BY UndisturbedReader
  <2>2. got \in Seq(Record) /\ Len(got) = Chunks[v] /\ \A k \in 1..Len(got) : got[k] = cpb[k]
    BY <2>1 DEF ReaderInv
  <2>3. got \in [1..Chunks[v] -> Record]
    BY <2>2, LenProperties
  <2>4. \A k \in 1..Chunks[v] : got[k] = ChunkRecord(v, k - 1)
    BY <2>1, <2>2
  <2> QED BY <2>3, <2>4
<1> HIDE DEF v
<1>4. ReaderInv'
  BY <1>1, <1>2, <1>3 DEF ReaderInv, OneVersionRead
<1> QED BY <1>1, <1>4

------------------------------------------------------------------------------
\* Every step keeps the invariant.
LEMMA StepInv == ChunkFileInv /\ [Next]_vars => ChunkFileInv'
<1> SUFFICES ASSUME ChunkFileInv, [Next]_vars
             PROVE  ChunkFileInv'
  OBVIOUS
<1>1. ASSUME NEW v \in Version, OpenPb(v) PROVE ChunkFileInv'
  BY <1>1, OpenPbInv
<1>2. ASSUME NEW v \in Version, OpenCpb(v) PROVE ChunkFileInv'
  BY <1>2, OpenCpbInv
<1>3. CASE OpenFails
  BY <1>3, OpenFailsInv
<1>4. CASE WriteRecord
  BY <1>4, WriteRecordInv
<1>5. CASE WriteMetadata
  BY <1>5, WriteMetadataInv
<1>6. CASE Flush
  BY <1>6, FlushInv
<1>7. CASE WriteFails
  BY <1>7, WriteFailsInv
<1>8. CASE Close
  BY <1>8, CloseInv
<1>9. CASE ClosePb
  BY <1>9, ClosePbInv
<1>10. CASE Crash
  BY <1>10, CrashInv
<1>11. CASE ReadBegin
  BY <1>11, ReadBeginInv
<1>12. CASE ReadPb
  BY <1>12, ReadPbInv
<1>13. CASE GetChunkMetadata
  BY <1>13, GetChunkMetadataInv
<1>14. CASE ReadPartial
  BY <1>14, ReadPartialInv
<1>15. CASE ReadChunk
  BY <1>15, ReadChunkInv
<1>16. CASE ReadPartialDone
  BY <1>16, ReadPartialDoneInv
<1>17. CASE UNCHANGED vars
  BY <1>17, StutterWriter, StutterReader, Zenon DEF ChunkFileInv, vars
<1> QED
  BY <1>1, <1>2, <1>3, <1>4, <1>5, <1>6, <1>7, <1>8, <1>9, <1>10, <1>11, <1>12, <1>13,
     <1>14, <1>15, <1>16, <1>17, Zenon DEF Next

\* In every state the file is how some version begins, the writer goes on with the one
\* it has opened, and an undisturbed reader reads the file as it is.
THEOREM Invariance == Spec => []ChunkFileInv
BY InitInv, StepInv, PTL DEF Spec

\* Every variable has its type, whatever was written, lost or read before: the
\* offsets are never more than the chunks.
THEOREM Typing == Spec => []TypeOK
<1>1. ChunkFileInv => TypeOK
  <2> SUFFICES ASSUME ChunkFileInv PROVE TypeOK
    OBVIOUS
  <2>1. writing # None => Len(offsets) <= Chunks[writing]
    <3> SUFFICES ASSUME writing # None PROVE Len(offsets) <= Chunks[writing]
      OBVIOUS
    <3>1. writing \in Version /\ Chunks[writing] \in Nat
      BY ChunkFileAssumption DEF ChunkFileInv, WriterInv
    <3>2. CASE Chunks[writing] = 0
      BY <3>2, EmptySeq DEF ChunkFileInv, WriterInv
    <3>3. CASE Chunks[writing] > 0
      BY <3>1, <3>3 DEF ChunkFileInv, WriterInv, WritingChunks, MoreChunks
    <3> QED BY <3>1, <3>2, <3>3
  <2> QED BY <2>1 DEF ChunkFileInv, FileInv, WriterInv, LastInv, ReaderInv, TypeOK
<1> QED BY <1>1, Invariance, PTL

\* A file that GetChunkMetadata accepts is complete and of one version, although a
\* writer may have died, failed or be at work at any point.
THEOREM MetadataAlwaysCommits == Spec => []MetadataCommits
<1>1. ChunkFileInv => MetadataCommits
  BY MetadataOfWholeFile DEF ChunkFileInv, MetadataCommits
<1> QED BY <1>1, Invariance, PTL

\* What a Write that returned OK wrote is in the file until the next Write, although
\* it never looks at what WriteRecord returns.
THEOREM WrittenStays == Spec => []WrittenIsThere
<1>1. ChunkFileInv => WrittenIsThere
  BY DEF ChunkFileInv, LastInv
<1> QED BY <1>1, Invariance, PTL

\* A ReadPartial that no writer disturbs succeeds, and returns one version's chunks in
\* their order.
THEOREM OneVersionIsRead == Spec => []OneVersionRead
<1>1. ChunkFileInv => OneVersionRead
  BY DEF ChunkFileInv, ReaderInv
<1> QED BY <1>1, Invariance, PTL
=============================================================================
