----------------------------- MODULE CppSplitter -----------------------------
(***************************************************************************)
(* cc/composable_splitter_base.cc: how a tree of ComposableSplitters fills *)
(* the chunk list of its root and keeps the chunk indices right.           *)
(*                                                                         *)
(* The root owns chunks_ and chunked_message_.  A splitter's BuildChunks,  *)
(* which a subclass supplies, is any sequence of SetMessageAsBaseChunk and *)
(* AddChunk calls made on that splitter and on its children, and stops at  *)
(* the first call that fails (every builder uses RETURN_IF_ERROR).         *)
(* BuildChunks is public, so a child's builder may also run before the     *)
(* root's Split, as ChildSplitterTest does, and after it.                  *)
(*                                                                         *)
(* A chunk is data the bookkeeping never looks at: a model value.  A field *)
(* tag is the sequence of steps of its path.                               *)
(***************************************************************************)
EXTENDS Naturals, Sequences, SequencesExt

CONSTANTS
    Chunk,           \* the chunks passed to AddChunk
    Base,            \* message_ of the root, as a chunk
    None,            \* nullptr, an unset optional
    Root,            \* the splitter with parent_splitter_ == nullptr
    Child,           \* the others
    Parent,          \* parent_splitter_ of each child
    FieldsInParent,  \* *fields_in_parent_ of each child
    Path,            \* where each splitter's message is in the root's message
    RelTag,          \* the `fields` callers pass to AddChunk
    ValidTag,        \* the paths AddFieldTag resolves in the root's descriptor
    MaxFields        \* bound: AddChunk calls

Splitter == Child \union {Root}

AbsTag == {Path[s] \o t : s \in Splitter, t \in RelTag}

ASSUME ChunkAssumption == /\ Base \notin Chunk
                          /\ None \notin Chunk \union {Base} \union Nat
                          /\ None \notin [tag : Seq(STRING), chunk : Chunk]

ASSUME TreeAssumption ==
    /\ Root \notin Child
    /\ Parent \in [Child -> Splitter]
    /\ FieldsInParent \in [Child -> Seq(STRING)]
    /\ Path \in [Splitter -> Seq(STRING)]
    /\ Path[Root] = <<>>
    /\ \A c \in Child : Path[c] = Path[Parent[c]] \o FieldsInParent[c]

ASSUME TagAssumption == \A t \in RelTag : t \in Seq(STRING)

ASSUME BoundAssumption == MaxFields \in Nat

VARIABLES
    built,           \* built_ of the root
    splitting,       \* Split is running the root's BuildChunks
    pending,         \* the AddChunk call being executed, or None
    chunks,          \* chunks_
    fields,          \* chunked_message_.chunked_fields: tag and chunk_index
    rootIdx,         \* chunked_message_.chunk_index, or None
    addChunkOrder,   \* add_chunk_order_
    chunksOrder,     \* chunks_order_
    fixChunkOrder,   \* fix_chunk_order_
    childBase,       \* children whose own, unread, chunks_ is not empty
    ret,             \* status of the last outermost call
    given            \* history: what each entry of `fields` was added for

bookkeeping == <<chunks, fields, rootIdx, addChunkOrder, chunksOrder,
                 fixChunkOrder, given>>
vars == <<built, splitting, pending, bookkeeping, childBase, ret>>

Status == {"OK", "Unimplemented", "FailedPrecondition", "Error"}

Init == /\ built = FALSE
        /\ splitting = FALSE
        /\ pending = None
        /\ chunks = <<>>
        /\ fields = <<>>
        /\ rootIdx = None
        /\ addChunkOrder = <<>>
        /\ chunksOrder = <<>>
        /\ fixChunkOrder = FALSE
        /\ childBase = {}
        /\ ret = "OK"
        /\ given = <<>>

(***************************************************************************)
(* A call returns an error.  Inside Split it makes the builder return, and *)
(* Split with it: built_ stays false and nothing that was added is undone. *)
(***************************************************************************)
Fail(status) == splitting' = FALSE /\ ret' = status

Idle == pending = None

------------------------------------------------------------------------------
(* Split *)

SplitChild(c) == /\ Idle /\ ~splitting
                 /\ ret' = "Unimplemented"
                 /\ UNCHANGED <<built, splitting, pending, bookkeeping, childBase>>

SplitBegin == /\ Idle /\ ~splitting /\ ~built
              /\ splitting' = TRUE
              /\ UNCHANGED <<built, pending, bookkeeping, childBase, ret>>

\* The builder gives up for a reason of its own.
BuildChunksFails == /\ Idle /\ splitting
                    /\ Fail("Error")
                    /\ UNCHANGED <<built, pending, bookkeeping, childBase>>

\* Mutant: the map is filled the other way round.
ChunkIndicesSwapped(key) ==
    IF key \in 0..(Len(chunksOrder) - 1) THEN chunksOrder[key + 1] ELSE 0

\* chunk_indices[key]: where the chunk with this key is now.  The flat_hash_map
\* answers 0 for a key it does not hold.
ChunkIndices(key) ==
    IF key \in ToSet(chunksOrder)
    THEN (CHOOSE i \in DOMAIN chunksOrder :
             /\ chunksOrder[i] = key
             /\ \A j \in DOMAIN chunksOrder : j > i => chunksOrder[j] # key) - 1
    ELSE 0

\* Mutant: off by one.
NewChunkIndexOffByOne(current, wild) ==
    IF current < Len(addChunkOrder)
    THEN ChunkIndices(addChunkOrder[current + 1]) - 1
    ELSE wild

\* The new chunk_index.  Reading add_chunk_order_ past its end is undefined: the
\* word found there is some key, or none.
NewChunkIndex(current, wild) ==
    IF current < Len(addChunkOrder)
    THEN ChunkIndices(addChunkOrder[current + 1])
    ELSE wild

\* The chunked_fields whose chunk_index has no entry in add_chunk_order_.
Dangling == {f \in DOMAIN fields : fields[f].idx >= Len(addChunkOrder)}

\* Mutant: the root's chunk_index is forgotten.
FixedRootIdxForgotten == rootIdx

FixedRootIdx == IF rootIdx = None THEN None ELSE NewChunkIndex(rootIdx, 0)

FixChunks ==
    \/ /\ ~fixChunkOrder
       /\ UNCHANGED <<fields, rootIdx, fixChunkOrder>>
    \/ /\ fixChunkOrder
       /\ \E wild \in [Dangling -> 0..Len(chunks)] :
             fields' = [f \in DOMAIN fields |->
                 [fields[f] EXCEPT !.idx =
                     NewChunkIndex(@, IF f \in Dangling THEN wild[f] ELSE 0)]]
       /\ rootIdx' = FixedRootIdx
       /\ fixChunkOrder' = FALSE

\* Mutant: Split looks for chunks to fix even if it has already returned.
SplitAgainFixes == /\ Idle /\ built
                   /\ FixChunks
                   /\ ret' = "OK"
                   /\ UNCHANGED <<built, splitting, pending, chunks, addChunkOrder,
                                  chunksOrder, given, childBase>>

\* Split once more, after it succeeded: the same two lists, untouched.
SplitAgain == /\ Idle /\ built
              /\ ret' = "OK"
              /\ UNCHANGED <<built, splitting, pending, bookkeeping, childBase>>

SplitFinish == /\ Idle /\ splitting
               /\ FixChunks
               /\ built' = TRUE
               /\ splitting' = FALSE
               /\ ret' = "OK"
               /\ UNCHANGED <<pending, chunks, addChunkOrder, chunksOrder,
                              childBase, given>>

------------------------------------------------------------------------------
(* SetMessageAsBaseChunk *)

SetMessageAsBaseChunk ==
    /\ Idle
    /\ chunks = <<>>
    /\ chunks' = <<Base>>
    /\ rootIdx' = 0
    /\ chunksOrder' = Append(chunksOrder, 0)
    /\ addChunkOrder' = Append(addChunkOrder, 0)
    /\ UNCHANGED <<built, splitting, pending, fields, fixChunkOrder, childBase,
                   ret, given>>

SetMessageAsBaseChunkFails ==
    /\ Idle
    /\ chunks # <<>>
    /\ Fail("FailedPrecondition")
    /\ UNCHANGED <<built, pending, bookkeeping, childBase>>

\* A child has lists of its own, which nobody reads: the root gets no base chunk.
ChildSetMessageAsBaseChunk(c) ==
    /\ Idle
    /\ IF c \in childBase
       THEN Fail("FailedPrecondition") /\ UNCHANGED childBase
       ELSE childBase' = childBase \union {c} /\ UNCHANGED <<splitting, ret>>
    /\ UNCHANGED <<built, pending, bookkeeping>>

------------------------------------------------------------------------------
(* AddChunk *)

\* A builder calls AddChunk on splitter s.  A chunk is moved in: it is new.  That
\* an index lies within the list is the caller's part: std::advance(it, *index)
\* checks nothing, so an index outside it is undefined behaviour.
AddChunkCall(s, c, t, index) ==
    /\ Idle
    /\ Len(fields) < MaxFields
    /\ c \notin ToSet(chunks)
    /\ pending' = [at |-> s, tag |-> t, chunk |-> c, index |-> index,
                   want |-> Path[s] \o t]
    /\ UNCHANGED <<built, splitting, bookkeeping, childBase, ret>>

\* Mutants: the tag is passed on as it is; the child's place is put behind it.
FieldsPassedOnAsIs == pending.tag
FieldsPassedOnSuffix == pending.tag \o FieldsInParent[pending.at]

\* The tag with the child's own place put in front.
FieldsPassedOn == FieldsInParent[pending.at] \o pending.tag

\* A child passes the call on to its parent.
AddChunkInParent ==
    /\ pending # None
    /\ pending.at # Root
    /\ pending' = [pending EXCEPT !.at = Parent[@],
                                  !.tag = FieldsPassedOn]
    /\ UNCHANGED <<built, splitting, bookkeeping, childBase, ret>>

\* Mutant: an error clears the chunked_fields, but not the chunks.
FieldsLeftCleared == <<>>

\* The chunked_field that add_chunked_fields and set_chunk_index have made.
FieldsLeft == Append(fields, [tag |-> None, idx |-> Len(chunks)])

\* AddFieldTag fails after add_chunked_fields and set_chunk_index: a chunked_field
\* with part of a tag stays behind.
AddChunkBadTag ==
    /\ pending # None
    /\ pending.at = Root
    /\ pending.tag \notin ValidTag
    /\ fields' = FieldsLeft
    /\ given' = Append(given, None)
    /\ pending' = None
    /\ Fail("Error")
    /\ UNCHANGED <<built, chunks, rootIdx, addChunkOrder, chunksOrder,
                   fixChunkOrder, childBase>>

AddChunk ==
    /\ pending # None
    /\ pending.at = Root
    /\ pending.tag \in ValidTag
    /\ fields' = Append(fields, [tag |-> pending.tag, idx |-> Len(chunks)])
    /\ given' = Append(given, [tag |-> pending.want, chunk |-> pending.chunk])
    /\ \/ /\ pending.index = None
          /\ chunks' = Append(chunks, pending.chunk)
          /\ chunksOrder' = Append(chunksOrder, Len(chunks))
          /\ UNCHANGED fixChunkOrder
       \/ /\ pending.index # None
          /\ chunks' = InsertAt(chunks, pending.index + 1, pending.chunk)
          /\ chunksOrder' = InsertAt(chunksOrder, pending.index + 1, Len(chunks))
          /\ fixChunkOrder' = TRUE
    /\ addChunkOrder' = Append(addChunkOrder, Len(chunks))
    /\ pending' = None
    /\ UNCHANGED <<built, splitting, rootIdx, childBase, ret>>

------------------------------------------------------------------------------
Next == \/ \E c \in Child : SplitChild(c)
        \/ SplitBegin
        \/ SplitAgain
        \/ BuildChunksFails
        \/ SplitFinish
        \/ SetMessageAsBaseChunk
        \/ SetMessageAsBaseChunkFails
        \/ \E c \in Child : ChildSetMessageAsBaseChunk(c)
        \/ \E s \in Splitter, c \in Chunk, t \in RelTag,
              index \in {None} \union 0..Len(chunks) : AddChunkCall(s, c, t, index)
        \/ AddChunkInParent
        \/ AddChunkBadTag
        \/ AddChunk

Spec == Init /\ [][Next]_vars

------------------------------------------------------------------------------
(* Properties *)

FieldType == [tag : Seq(STRING) \union {None}, idx : Nat]

GivenType == [tag : Seq(STRING), chunk : Chunk] \union {None}

CallType == [at : Splitter, tag : Seq(STRING), chunk : Chunk,
             index : {None} \union Nat, want : Seq(STRING)]

\* Every variable of the splitter keeps its type.
TypeOK == /\ built \in BOOLEAN
          /\ splitting \in BOOLEAN
          /\ pending \in CallType \union {None}
          /\ chunks \in Seq(Chunk \union {Base})
          /\ fields \in Seq(FieldType)
          /\ rootIdx \in Nat \union {None}
          /\ addChunkOrder \in Seq(Nat)
          /\ chunksOrder \in Seq(Nat)
          /\ fixChunkOrder \in BOOLEAN
          /\ childBase \subseteq Child
          /\ ret \in Status
          /\ given \in Seq(GivenType)

\* The chunk_index of an entry, or of the root, leads to chunk c.
LeadsTo(idx, c) == idx < Len(chunks) /\ chunks[idx + 1] = c

\* Once Split has succeeded, and unless a chunk was inserted since, following the
\* chunk_index of any entry gives the very chunk AddChunk was called with for it,
\* however chunks were inserted, whichever splitter of the tree added them and
\* however many attempts to build failed before.
EntriesResolve ==
    built /\ ~fixChunkOrder =>
        \A f \in DOMAIN fields :
            given[f] # None => LeadsTo(fields[f].idx, given[f].chunk)

\* Once Split has succeeded the root's chunk_index leads to the message itself, even
\* when chunks were inserted in front of it; and a message that became the base chunk
\* is never forgotten.
BaseResolves ==
    /\ rootIdx = None <=> Base \notin ToSet(chunks)
    /\ built /\ ~fixChunkOrder /\ rootIdx # None => LeadsTo(rootIdx, Base)

\* An entry's tag is the place of the chunk in the ROOT's message, through however
\* many parents the call to AddChunk went.
TagsAreAbsolute ==
    \A f \in DOMAIN fields : given[f] # None => fields[f].tag = given[f].tag

\* What Split returned is never rewritten: the entries already handed out keep their
\* tag and their index whatever the caller does afterwards.
ReturnedEntriesStable == [][built => IsPrefix(fields, fields')]_vars

\* Every chunk_index that a successful Split returns names a chunk (chunk.proto:50, "Index of the
\* ChunkInfo in ChunkMetadata.chunks").  The code breaks this: AddChunk adds the
\* chunked_field before it knows that its tag is valid, and leaves it there.
EveryIndexNamesAChunk ==
    built /\ ret = "OK" => \A f \in DOMAIN fields : fields[f].idx < Len(chunks)

\* A message that is written without its chunks (Write exports a plain .pb when there
\* is no entry) has none: nothing that was cut out of it is left behind.
NoChunkWithoutEntry == fields = <<>> => chunks \in {<<>>, <<Base>>}

------------------------------------------------------------------------------
(* The inductive invariant behind EntriesResolve, BaseResolves and TagsAreAbsolute. *)

\* add_chunk_order_ is the identity, and chunks_order_ a permutation of the keys
\* that tells, position by position, which chunk is there.
OrdersInv ==
    /\ Len(chunksOrder) = Len(chunks)
    /\ Len(addChunkOrder) = Len(chunks)
    /\ \A i \in 1..Len(chunks) : addChunkOrder[i] = i - 1
    /\ \A i \in 1..Len(chunks) : chunksOrder[i] \in 0..(Len(chunks) - 1)
    /\ \A i, j \in 1..Len(chunks) : chunksOrder[i] = chunksOrder[j] => i = j
    /\ \A k \in 0..(Len(chunks) - 1) :
          \E i \in 1..Len(chunks) : chunksOrder[i] = k

\* Without an insertion, every chunk is where it was added.
UnmovedInv ==
    ~built /\ ~fixChunkOrder => \A i \in 1..Len(chunks) : chunksOrder[i] = i - 1

\* The chunk with key k is c.
Keyed(k, c) == \E i \in 1..Len(chunks) : chunksOrder[i] = k /\ chunks[i] = c

\* Before Split has succeeded a chunk_index is a key.
KeysInv ==
    ~built =>
        /\ \A f \in DOMAIN fields :
              given[f] # None => Keyed(fields[f].idx, given[f].chunk)
        /\ rootIdx # None => Keyed(rootIdx, Base)

\* The call being passed up still means the place it meant, and its index is one
\* that chunks_.insert accepts.
PendingInv ==
    pending # None =>
        /\ Path[pending.at] \o pending.tag = pending.want
        /\ pending.index # None => pending.index \in 0..Len(chunks)

SplitterInv == /\ TypeOK
               /\ splitting => ~built
               /\ Len(given) = Len(fields)
               /\ OrdersInv
               /\ UnmovedInv
               /\ KeysInv
               /\ PendingInv
               /\ EntriesResolve
               /\ BaseResolves
               /\ TagsAreAbsolute

------------------------------------------------------------------------------
(***************************************************************************)
(* The mapping to ChunkStore.  Before Split has succeeded, a chunk_index   *)
(* is the number of chunks there were when the entry was added, and        *)
(* add_chunk_order_ with chunks_order_ say where that chunk is now;        *)
(* afterwards it is a position in chunks_.  FixChunks maps to a stutter.   *)
(* Entries whose tag could not be built are not promised anything.         *)
(***************************************************************************)
Resolve(idx) ==
    IF built
    THEN IF idx < Len(chunks) THEN chunks[idx + 1] ELSE None
    ELSE chunks[ChunkIndices(addChunkOrder[idx + 1]) + 1]

ResolvedEntries ==
    [f \in {k \in DOMAIN fields : given[k] # None} |->
        [tag |-> fields[f].tag, chunk |-> Resolve(fields[f].idx)]]

Store == INSTANCE ChunkStore WITH
            Tag      <- AbsTag,
            EntryId  <- 1..MaxFields,
            store    <- chunks,
            entries  <- ResolvedEntries,
            base     <- IF rootIdx = None THEN None ELSE Resolve(rootIdx),
            returned <- built

\* A chunk was inserted after Split: the indices that were returned are stale, and
\* no Split fixes them again.
Stale == built /\ fixChunkOrder

\* The splitter implements ChunkStore for as long as nobody inserts after Split:
\* however the builders insert, fail and are run again, each entry stays with its chunk.
ImplementsStore == Store!Init /\ [][~Stale' => [Store!Next]_Store!storeVars]_vars
=============================================================================
