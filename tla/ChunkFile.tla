------------------------------ MODULE ChunkFile ------------------------------
(***************************************************************************)
(* Where a split message is kept: Write (composable_splitter_base.cc,      *)
(* split.py), OnlyContainsPb, GetChunkMetadata and ReadChunk (util.cc),    *)
(* Read and ReadPartial (merge.cc), on the two files prefix.pb and         *)
(* prefix.cpb.                                                             *)
(*                                                                         *)
(* One prefix is written several times, with a version of the message      *)
(* each time.  A .cpb file is a sequence of records: the version's chunks, *)
(* then its metadata with the offset of every chunk.  An offset is the     *)
(* number of records before it.  Riegeli buffers: what was written reaches *)
(* the file in order, at some time before Close returns.  The writing      *)
(* process may die at any step and a write may fail (the disk is full).    *)
(*                                                                         *)
(* A reader calls Read, or GetChunkMetadata and then ReadPartial with what *)
(* it got, as TestReadPartial does.  It runs beside the writer.  A chunk   *)
(* is taken not to parse as a ChunkMetadata.                               *)
(***************************************************************************)
EXTENDS Naturals, Sequences, SequencesExt

CONSTANTS
    None,
    Version,    \* the messages written
    Chunks,     \* into how many chunks each is split, 0 for not at all
    MaxWrites   \* bound: calls of Write

ASSUME ChunkFileAssumption == Chunks \in [Version -> Nat] /\ MaxWrites \in Nat

VARIABLES
    pb,         \* prefix.pb: None or a version and whether it is all there
    cpb,        \* prefix.cpb: None or the records in it
    writing,    \* the version being written, or None
    buffer,     \* records written that are not in the file yet
    next,       \* the chunk that is written next; one past the metadata at the end
    offsets,    \* chunks().offset() of the metadata being put together
    wok,        \* writer.ok()
    writes,     \* calls of Write so far
    last,       \* the version of the last call of Write if it returned OK
    reading,    \* "no", "ReadPb", "metadata" or "chunks"
    metadata,   \* what GetChunkMetadata returned
    got,        \* the records ReadPartial has read
    result,     \* how the last Read or ReadPartial ended
    disturbed   \* history: a writer opened the files during this read

writer == <<writing, buffer, next, offsets, wok, writes>>
reader == <<reading, metadata, got, result>>
vars == <<pb, cpb, writer, last, reader, disturbed>>

ChunkRecord(v, k) == [version |-> v, chunk |-> k]
MetadataRecord(v, o) == [version |-> v, offsets |-> o]
IsMetadata(r) == "offsets" \in DOMAIN r

Init == /\ pb = None /\ cpb = None
        /\ writing = None /\ buffer = <<>> /\ next = 0 /\ offsets = <<>>
        /\ wok = TRUE /\ writes = 0
        /\ last = None
        /\ reading = "no" /\ metadata = None /\ got = <<>> /\ result = None
        /\ disturbed = FALSE

------------------------------------------------------------------------------
(* Write *)

Called == /\ writing = None
          /\ writes < MaxWrites
          /\ writes' = writes + 1
          /\ last' = None

Open(v) == /\ Called
           /\ writing' = v
           /\ next' = 0
           /\ offsets' = <<>>
           /\ wok' = TRUE
           /\ disturbed' = TRUE

\* The directory cannot be made, or the file cannot be opened.
OpenFails == /\ Called
             /\ UNCHANGED <<pb, cpb, writing, buffer, next, offsets, wok, reader, disturbed>>

\* No chunked_field: FileWriter truncates prefix.pb.  A prefix.cpb stays.
OpenPb(v) == /\ Chunks[v] = 0
             /\ Open(v)
             /\ pb' = [version |-> v, whole |-> FALSE]
             /\ UNCHANGED <<cpb, buffer, reader>>

\* RecordWriter truncates prefix.cpb.  A prefix.pb stays.
OpenCpb(v) == /\ Chunks[v] > 0
              /\ Open(v)
              /\ cpb' = <<>>
              /\ UNCHANGED <<pb, buffer, reader>>

WritingChunks == writing # None /\ Chunks[writing] > 0

\* Mutant: the offset is the one after the record.
LastPosAfter == Len(cpb) + Len(buffer) + 1

\* Where the record that is written now will be.
LastPos == Len(cpb) + Len(buffer)

\* Mutant: off by one.
OneChunkMore == next <= Chunks[writing]

MoreChunks == next < Chunks[writing]

\* Mutant: the last chunk comes after the metadata.
AllButOneWritten == next = Chunks[writing] - 1

AllWritten == next = Chunks[writing]

\* writer.WriteRecord, whose result nobody looks at.
Put(r) == buffer' = IF wok THEN Append(buffer, r) ELSE buffer

WriteRecord ==
    /\ WritingChunks
    /\ MoreChunks
    /\ Put(ChunkRecord(writing, next))
    /\ offsets' = Append(offsets, LastPos)
    /\ next' = next + 1
    /\ UNCHANGED <<pb, cpb, writing, wok, writes, last, reader, disturbed>>

WriteMetadata ==
    /\ WritingChunks
    /\ AllWritten
    /\ Put(MetadataRecord(writing, offsets))
    /\ next' = next + 1
    /\ UNCHANGED <<pb, cpb, writing, offsets, wok, writes, last, reader, disturbed>>

Flush == /\ buffer # <<>>
         /\ cpb' = Append(cpb, Head(buffer))
         /\ buffer' = Tail(buffer)
         /\ UNCHANGED <<pb, writing, next, offsets, wok, writes, last, reader, disturbed>>

\* The disk is full: what is in the buffer never gets into the file.
WriteFails == /\ WritingChunks
              /\ wok
              /\ wok' = FALSE
              /\ buffer' = <<>>
              /\ UNCHANGED <<pb, cpb, writing, next, offsets, writes, last, reader, disturbed>>

\* Mutant: Write does not ask whether Close worked.
CloseUnchecked == TRUE

Closed == wok

\* writer.Close() flushes; Write returns OK only if it could.
Close == /\ WritingChunks
         /\ next > Chunks[writing]
         /\ cpb' = cpb \o buffer
         /\ last' = IF Closed THEN writing ELSE last
         /\ buffer' = <<>>
         /\ writing' = None
         /\ UNCHANGED <<pb, next, offsets, wok, writes, reader, disturbed>>

\* SerializeToWriter closes the file, and fails if it cannot.
ClosePb == /\ writing # None
           /\ Chunks[writing] = 0
           /\ writing' = None
           /\ \/ pb' = [pb EXCEPT !.whole = TRUE] /\ last' = writing
              \/ UNCHANGED <<pb, last>>
           /\ UNCHANGED <<cpb, buffer, next, offsets, wok, writes, reader, disturbed>>

Crash == /\ writing # None
         /\ writing' = None
         /\ buffer' = <<>>
         /\ UNCHANGED <<pb, cpb, next, offsets, wok, writes, last, reader, disturbed>>

------------------------------------------------------------------------------
(* Read *)

Done(how, status, v) == /\ reading' = "no"
                        /\ result' = [how |-> how, status |-> status, version |-> v]

\* OnlyContainsPb: Read asks only whether it is an error.
ReadBegin == /\ reading = "no"
             /\ IF pb = None /\ cpb = None
                THEN Done("Read", "NotFound", None)
                ELSE reading' = "ReadPb" /\ result' = None
             /\ disturbed' = (writing # None)
             /\ UNCHANGED <<pb, cpb, writer, last, metadata, got>>

\* A file that is cut off where a field ends is parsed all the same.
ReadPb == /\ reading = "ReadPb"
          /\ \/ /\ pb # None => ~pb.whole
                /\ Done("Read", "FailedPrecondition", None)
             \/ /\ pb # None
                /\ Done("Read", "OK", pb.version)
          /\ UNCHANGED <<pb, cpb, writer, last, metadata, got, disturbed>>

------------------------------------------------------------------------------
(* GetChunkMetadata and ReadPartial *)

\* The last record of the file, if it is metadata.
MetadataOfFile == {r \in ToSet(cpb) : r = Last(cpb) /\ IsMetadata(r)}

\* What becomes of reader.status().  SeekBack in a file without records returns
\* false and leaves the status OK, which no StatusOr may hold: absl makes an
\* internal error of it, or in a debug build ends the process.
NoMetadataStatus == IF cpb = <<>> THEN {"Internal", "crash"} ELSE {"Error"}

GetChunkMetadata ==
    /\ reading = "no"
    /\ cpb # None
    /\ \/ /\ MetadataOfFile = {}
          /\ \E status \in NoMetadataStatus : Done("GetChunkMetadata", status, None)
          /\ UNCHANGED metadata
       \/ /\ \E r \in MetadataOfFile : metadata' = r
          /\ reading' = "metadata"
          /\ result' = None
    /\ got' = <<>>
    /\ disturbed' = FALSE
    /\ UNCHANGED <<pb, cpb, writer, last>>

\* OnlyContainsPb is FALSE from then on: no file is ever deleted.
ReadPartial == /\ reading = "metadata"
               /\ reading' = "chunks"
               /\ UNCHANGED <<pb, cpb, writer, last, metadata, got, result, disturbed>>

\* reader.Seek(chunk_info.offset()); records are counted from 1 here.
ReadChunkAt == metadata.offsets[Len(got) + 1] + 1

ReadChunk ==
    /\ reading = "chunks"
    /\ Len(got) < Len(metadata.offsets)
    /\ IF ReadChunkAt \in DOMAIN cpb
       THEN got' = Append(got, cpb[ReadChunkAt]) /\ UNCHANGED <<reading, result>>
       ELSE Done("ReadPartial", "NotFound", None) /\ UNCHANGED got
    /\ UNCHANGED <<pb, cpb, writer, last, metadata, disturbed>>

ReadPartialDone ==
    /\ reading = "chunks"
    /\ Len(got) = Len(metadata.offsets)
    /\ Done("ReadPartial", "OK", metadata.version)
    /\ UNCHANGED <<pb, cpb, writer, last, metadata, got, disturbed>>

------------------------------------------------------------------------------
Next == \/ \E v \in Version : OpenPb(v) \/ OpenCpb(v)
        \/ OpenFails
        \/ WriteRecord
        \/ WriteMetadata
        \/ Flush
        \/ WriteFails
        \/ Close
        \/ ClosePb
        \/ Crash
        \/ ReadBegin
        \/ ReadPb
        \/ GetChunkMetadata
        \/ ReadPartial
        \/ ReadChunk
        \/ ReadPartialDone

Spec == Init /\ [][Next]_vars

------------------------------------------------------------------------------
(* Properties *)

Record == [version : Version, chunk : Nat] \union [version : Version, offsets : Seq(Nat)]

TypeOK == /\ pb \in [version : Version, whole : BOOLEAN] \union {None}
          /\ cpb # None => cpb \in Seq(Record)
          /\ writing \in Version \union {None}
          /\ buffer \in Seq(Record)
          /\ offsets \in Seq(Nat)
          /\ writing # None => Len(offsets) <= Chunks[writing]
          /\ last \in Version \union {None}
          /\ metadata # None => metadata \in Record
          /\ got \in Seq(Record)

\* The records that WriteToString and WriteToCord return, which have no file.
WriteToString(v) ==
    [k \in 1..Chunks[v] |-> ChunkRecord(v, k - 1)]
    \o <<MetadataRecord(v, [k \in 1..Chunks[v] |-> k - 1])>>

\* The metadata record at the end commits the file: whatever a write that failed or a
\* process that died left behind, and however far a running writer has got, a file
\* from which GetChunkMetadata returns something is what WriteToString would return.
MetadataCommits ==
    cpb # None => \A r \in MetadataOfFile : cpb = WriteToString(r.version)

\* A Write that returned OK has left its version in the file, complete, although the
\* result of WriteRecord is not looked at; only the next Write changes that.
WrittenIsThere ==
    last # None =>
        IF Chunks[last] = 0 THEN pb = [version |-> last, whole |-> TRUE]
                            ELSE cpb = WriteToString(last)

\* ReadPartial returns the chunks of one version, all of them in their order, if no
\* writer opened a file since GetChunkMetadata was called.
OneVersionRead ==
    result # None /\ result.how = "ReadPartial" /\ ~disturbed =>
        /\ result.status = "OK"
        /\ got = [k \in 1..Chunks[result.version] |-> ChunkRecord(result.version, k - 1)]

(***************************************************************************)
(* The inductive invariant the proofs in ChunkFile_proofs use.             *)
(***************************************************************************)

\* The records s are how the file of version v begins.
Begins(s, v) == /\ s \in Seq(Record)
                /\ Len(s) <= Chunks[v] + 1
                /\ \A k \in 1..Len(s) : s[k] = WriteToString(v)[k]

\* Whatever is in the file is how the file of some version begins.
FileInv == /\ cpb # None => cpb \in Seq(Record) /\ \E v \in Version : Begins(cpb, v)
           /\ pb \in [version : Version, whole : BOOLEAN] \union {None}

\* What is in the file and in the buffer goes on as the version being written, and as
\* far as next unless a write failed.
WriterInv == /\ writing \in Version \union {None}
             /\ buffer \in Seq(Record)
             /\ offsets \in Seq(Nat)
             /\ ~WritingChunks \/ ~wok => buffer = <<>>
             /\ WritingChunks =>
                   /\ cpb \in Seq(Record)
                   /\ Begins(cpb \o buffer, writing)
                   /\ next \in 0..(Chunks[writing] + 1)
                   /\ Len(offsets) = IF MoreChunks THEN next ELSE Chunks[writing]
                   /\ wok => /\ Len(cpb \o buffer) = next
                             /\ \A k \in 1..Len(offsets) : offsets[k] = k - 1
             /\ writing # None /\ Chunks[writing] = 0 =>
                   pb = [version |-> writing, whole |-> FALSE] /\ offsets = <<>>

\* Only the next Write clears last.
LastInv == /\ last \in Version \union {None}
           /\ last # None => writing = None
           /\ WrittenIsThere

\* A reader that no writer disturbed has the metadata of the file as it is, and the
\* first of its chunks.
ReaderInv == /\ metadata # None => metadata \in Record
             /\ got \in Seq(Record)
             /\ reading \in {"metadata", "chunks"} =>
                   /\ cpb \in Seq(Record)
                   /\ metadata \in [version : Version, offsets : Seq(Nat)]
                   /\ result = None
                   /\ ~disturbed =>
                         /\ cpb = WriteToString(metadata.version)
                         /\ metadata = Last(cpb)
                         /\ Len(got) <= Chunks[metadata.version]
                         /\ \A k \in 1..Len(got) : got[k] = cpb[k]
             /\ OneVersionRead

ChunkFileInv == FileInv /\ WriterInv /\ LastInv /\ ReaderInv

(***************************************************************************)
(* What the documentation says and the code does not do.                   *)
(***************************************************************************)

\* "Once the proto has been split and written to disk using the aforementioned Splitter
\* class, it can be merged back into its original form" (README.md:90-91) with
\* Merger::Read, which reads a "chunked protobuf from `prefix` (must be .pb or .cpb)"
\* (merge.h:46): Read returns what the last Write wrote.
ReadReturnsLastWritten ==
    result # None /\ result.how = "Read" /\ ~disturbed /\ last # None =>
        result.status = "OK" /\ result.version = last
=============================================================================
