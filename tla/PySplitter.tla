----------------------------- MODULE PySplitter -----------------------------
(***************************************************************************)
(* split.py: the Python ComposableSplitter.  Where the C++ splitter keeps  *)
(* two lists of keys, this one looks a chunk up by its id(), fixes the     *)
(* entries but not the root, and accepts any integer as insertion index.   *)
(*                                                                         *)
(* A chunk is a Python object: a model value, equal to another chunk       *)
(* exactly when the two have the same id().  The same object may be added  *)
(* more than once.  add_chunk is public: it is called by build_chunks, by  *)
(* children and by users, before and after split (test_child_splitter).    *)
(***************************************************************************)
EXTENDS Integers, Sequences, SequencesExt

CONSTANTS
    Chunk,           \* objects passed to add_chunk
    Base,            \* self._proto of the root
    None,
    Path,            \* where each splitter's proto is in the root's: its own
                     \* fields_in_parent after those of its ancestors
    RelTag,          \* the `field_tags` callers pass
    ValidTag,        \* the paths get_field_tag resolves from the root's proto
    MaxFields        \* bound: chunked_fields

Splitter == DOMAIN Path

AbsTag == {Path[s] \o t : s \in Splitter, t \in RelTag}

ASSUME PyAssumption == /\ Base \notin Chunk
                       /\ None \notin Chunk \union {Base} \union Int
                       /\ \E s \in Splitter : Path[s] = <<>>
                       /\ MaxFields \in Nat

VARIABLES
    built,           \* self._built of the root
    splitting,       \* split is running the root's build_chunks
    chunks,          \* self._chunks
    fields,          \* self._chunked_message.chunked_fields
    rootIdx,         \* self._chunked_message.chunk_index, or None
    addChunkOrder,   \* self._add_chunk_order: ids
    fixChunkOrder,   \* self._fix_chunk_order
    ret,             \* how the last outermost call ended
    given            \* history: the chunk each entry was added for

lists == <<chunks, fields, rootIdx, addChunkOrder, fixChunkOrder, given>>
vars == <<built, splitting, lists, ret>>

Init == /\ built = FALSE
        /\ splitting = FALSE
        /\ chunks \in {<<>>, <<Base>>}             \* proto_as_initial_chunk
        /\ fields = <<>>
        /\ rootIdx = IF chunks = <<>> THEN None ELSE 0
        /\ addChunkOrder = chunks
        /\ fixChunkOrder = FALSE
        /\ ret = "None"
        /\ given = <<>>

------------------------------------------------------------------------------
(* split *)

SplitChild(s) == /\ Path[s] # <<>>
                 /\ ~splitting
                 /\ ret' = "ValueError"
                 /\ UNCHANGED <<built, splitting, lists>>

SplitBegin == /\ ~built /\ ~splitting
              /\ splitting' = TRUE
              /\ UNCHANGED <<built, lists, ret>>

\* chunk_indices[chunk_addr]: a dict, so the last position of the object wins.
ChunkIndices(chunk) ==
    (CHOOSE i \in DOMAIN chunks :
        /\ chunks[i] = chunk
        /\ \A j \in DOMAIN chunks : j > i => chunks[j] # chunk) - 1

\* Mutant: every split fixes the entries, also those it has already returned.
FieldsFixedAgain ==
    [f \in DOMAIN fields |-> [fields[f] EXCEPT !.idx = ChunkIndices(given[f])]]

FieldsReturned == fields

SplitAgain == /\ built
              /\ fields' = FieldsReturned
              /\ ret' = "OK"
              /\ UNCHANGED <<built, splitting, chunks, rootIdx, addChunkOrder,
                             fixChunkOrder, given>>

\* build_chunks raises, and split with it.  What was added stays.
BuildChunksRaises == /\ splitting
                     /\ splitting' = FALSE
                     /\ ret' = "Error"
                     /\ UNCHANGED <<built, lists>>

\* Mutant: chunk_index is taken for a position in the chunks, not in the ids.
ChunkAddrByPosition(idx) == chunks[idx + 1]

\* chunk_addr
ChunkAddr(idx) == addChunkOrder[idx + 1]

\* Mutant: the ids are not put in the new order.
OrderKept == addChunkOrder

OrderAfterFix == chunks

\* The walk looks at the chunked_fields of each message, so it never gets to the
\* chunk_index of the root.
FixChunks ==
    IF fixChunkOrder
    THEN /\ fields' = [f \in DOMAIN fields |->
                 [fields[f] EXCEPT !.idx = ChunkIndices(ChunkAddr(@))]]
         /\ addChunkOrder' = OrderAfterFix
         /\ fixChunkOrder' = FALSE
    ELSE UNCHANGED <<fields, addChunkOrder, fixChunkOrder>>

SplitFinish == /\ splitting
               /\ FixChunks
               /\ built' = TRUE
               /\ splitting' = FALSE
               /\ ret' = "OK"
               /\ UNCHANGED <<chunks, rootIdx, given>>

------------------------------------------------------------------------------
(* add_chunk *)

\* Where list.insert(index, x) puts x: an index from the end when negative, and
\* never outside the list.  Counted from 1.
InsertPosition(index) ==
    LET n == Len(chunks)
        i == IF index < 0 THEN n + index ELSE index
    IN  (IF i < 0 THEN 0 ELSE IF i > n THEN n ELSE i) + 1

\* Mutant: an insertion does not ask for a fix.
FixForgotten == fixChunkOrder

FixNeeded == TRUE

InsertChunk(c, index) ==
    \/ /\ index = None
       /\ chunks' = Append(chunks, c)
       /\ UNCHANGED fixChunkOrder
    \/ /\ index # None
       /\ chunks' = InsertAt(chunks, InsertPosition(index), c)
       /\ fixChunkOrder' = FixNeeded

\* Mutant: a child's tag is looked up in the child's own proto.
ResolvesInChild(s, t) == t \in ValidTag

\* get_field_tag finds the place in the root's proto.
Resolves(s, t) == Path[s] \o t \in ValidTag

\* add_chunk on splitter s, through its parents to the root.
AddChunk(s, c, t, index) ==
    /\ Len(fields) < MaxFields
    /\ Resolves(s, t)
    /\ fields' = Append(fields, [tag |-> Path[s] \o t, idx |-> Len(chunks)])
    /\ given' = Append(given, c)
    /\ addChunkOrder' = Append(addChunkOrder, c)
    /\ InsertChunk(c, index)
    /\ ret' = "None"
    /\ UNCHANGED <<built, splitting, rootIdx>>

\* get_field_tag raises before anything is changed; a build_chunks lets it through.
AddChunkRaises(s, t) ==
    /\ ~Resolves(s, t)
    /\ splitting' = FALSE
    /\ ret' = "Error"
    /\ UNCHANGED <<built, lists>>

------------------------------------------------------------------------------
Next == \/ \E s \in Splitter : SplitChild(s)
        \/ SplitBegin
        \/ SplitAgain
        \/ BuildChunksRaises
        \/ SplitFinish
        \/ \E s \in Splitter, c \in Chunk, t \in RelTag,
              index \in {None} \union (-2)..(Len(chunks) + 1) : AddChunk(s, c, t, index)
        \/ \E s \in Splitter, t \in RelTag : AddChunkRaises(s, t)

Spec == Init /\ [][Next]_vars

------------------------------------------------------------------------------
(* Properties *)

TypeOK == /\ built \in BOOLEAN
          /\ splitting \in BOOLEAN
          /\ chunks \in Seq(Chunk \union {Base})
          /\ fields \in Seq([tag : ValidTag, idx : Nat])
          /\ rootIdx \in Nat \union {None}
          /\ addChunkOrder \in Seq(Chunk \union {Base})
          /\ fixChunkOrder \in BOOLEAN
          /\ ret \in {"None", "OK", "Error", "ValueError"}
          /\ given \in Seq(Chunk)

LeadsTo(idx, c) == idx < Len(chunks) /\ chunks[idx + 1] = c

\* After split, and unless a chunk was inserted since, the chunk_index of every entry
\* leads to the object add_chunk was given for it: whatever integers chunks were
\* inserted at, and even when one object was added several times.
EntriesResolve ==
    built /\ ~fixChunkOrder =>
        \A f \in DOMAIN fields : LeadsTo(fields[f].idx, given[f])

\* Before _fix_chunks runs, chunk_index still finds the object through the ids, also
\* when it follows a split, later insertions and a build that raised: so the assertion
\* in _fix_chunks (split.py:276) cannot fail.
IdsResolve ==
    /\ \A f \in DOMAIN fields :
          fields[f].idx < Len(addChunkOrder) /\ addChunkOrder[fields[f].idx + 1] = given[f]
    /\ \A k \in DOMAIN addChunkOrder : addChunkOrder[k] \in ToSet(chunks)

\* What split returned is never rewritten by later calls.
ReturnedEntriesStable == [][built => IsPrefix(fields, fields')]_vars

(***************************************************************************)
(* The inductive invariant the proofs in PySplitter_proofs use.            *)
(***************************************************************************)

\* The list of ids has an id for every chunk, and is the list of chunks as long as
\* nothing was inserted since the last _fix_chunks.
OrdersInv == /\ Len(addChunkOrder) = Len(chunks)
             /\ ~fixChunkOrder => addChunkOrder = chunks

PySplitterInv == /\ TypeOK
                 /\ OrdersInv
                 /\ Len(given) = Len(fields)
                 /\ splitting => ~built
                 /\ IdsResolve
                 /\ EntriesResolve

(***************************************************************************)
(* The mapping to ChunkStore: an entry means the object at its position    *)
(* once split has succeeded, and the object its id stands for before, and  *)
(* again after a later insertion.  The caller of split reads a position    *)
(* all the same: split does not fix the entries again.                     *)
(***************************************************************************)
At(seq, idx) == IF idx < Len(seq) THEN seq[idx + 1] ELSE None

Resolve(idx) == At(IF built /\ ~fixChunkOrder THEN chunks ELSE addChunkOrder, idx)

Store == INSTANCE ChunkStore WITH
            Tag      <- AbsTag,
            EntryId  <- 1..MaxFields,
            store    <- chunks,
            entries  <- [f \in DOMAIN fields |->
                            [tag |-> fields[f].tag, chunk |-> Resolve(fields[f].idx)]],
            base     <- IF rootIdx = None THEN None ELSE Resolve(rootIdx),
            returned <- built

\* Without an initial chunk the Python splitter, too, implements ChunkStore: every
\* behaviour of it that starts with no chunk is one of ChunkStore.
ImplementsStore ==
    /\ rootIdx = None => Store!Init
    /\ [][rootIdx = None => [Store!Next]_Store!storeVars]_vars

(***************************************************************************)
(* What the documentation says and the code does not do.                   *)
(***************************************************************************)

\* _fix_chunks "Fixes chunk indices in the ChunkedMessage" (split.py:255): the root's
\* index leads to the initial chunk after split, unless a chunk was inserted since.
RootIndexFixed ==
    built /\ ~fixChunkOrder /\ rootIdx # None => LeadsTo(rootIdx, Base)
=============================================================================
