# Proto splitter: TLA+ models, model checking and proofs

Proto splitter cuts a protocol buffer that is too large for one message (2 GiB)
into *chunks*, describes where each chunk belongs in a *ChunkedMessage*, keeps
both in a Riegeli file (`prefix.cpb`), and merges them again.  This directory
holds TLA+ modules translated from its C++ and Python code, TLC runs on small
instances, and TLAPS proofs, for every value of the constants, about both
splitters, the merger, the repeated fields, the field tags and the files.

Paths below are relative to `src/`.

## 1. Inventory

| part | source | state it keeps | operations | module |
|---|---|---|---|---|
| C++ `ComposableSplitter` | `cc/composable_splitter_base.{h,cc}` | the root's `chunks_`, `chunked_message_`, `add_chunk_order_`, `chunks_order_`, `fix_chunk_order_`, `built_` | `Split`, `AddChunk`, `SetMessageAsBaseChunk`, `FixChunks`, `Write*` | `CppSplitter` |
| Python `ComposableSplitter` | `split.py` | the same lists, with `id()`s for keys | `split`, `add_chunk`, `_fix_chunks`, `write` | `PySplitter` |
| what a splitter promises | `cc/composable_splitter_base.h`, `chunk.proto` | chunks in file order, entries | set base, add, return | `ChunkStore` (abstract) |
| `Merger` | `merge.{h,cc}` | the message being filled, one frame per running call | `Merge`, `Read`, `ReadPartial`, `ReadFields`, `ProcessField` | `Merger`, `ChunkFile` |
| `RepeatedFieldSplitters`, `SizeSplitter` | `cc/repeated_field_splitter.{h,cc}`, `cc/size_splitter.h` | the repeated field, split points, extracted elements | `BuildChunksReturnSize`, `Create` | `RepeatedField`, `SplitMerge` |
| chunked files | `cc/composable_splitter_base.cc:110-238`, `split.py:154-217`, `cc/util.cc:720-785` | `prefix.pb`, `prefix.cpb` | `Write`, `OnlyContainsPb`, `GetChunkMetadata`, `ReadChunk` | `ChunkFile` |
| field paths | `cc/util.cc`, `util.py` | none | `WalkFields`, `AddFieldTag`, `GetField`, `GetFieldTypes`, `GetMutableField`, `FindMapKey`, `AddMapEntry`, `get_field_tag` | `FieldTags` |
| maximum size | `cc/max_size.cc`, `constants.py` | one global | `GetMaxSize`, `DebugSetMaxSize` | a constant |
| formatting, versions, build files, data generators | | none | | not modelled (section 8) |

How they interact.  A user derives a splitter and supplies `BuildChunks`.
`Split` of the root runs it; it calls `AddChunk` on the root and on child
splitters, and every child passes the call up with its own place put in front
of the tag.  `Split` then repairs the chunk indices (`FixChunks`).  `Write`
calls `Split` and puts the chunks, then the metadata (the `ChunkedMessage` and
an offset for each chunk), into a file.  `Merger::Merge` takes the chunks from
memory, `Merger::Read` and `ReadPartial` from the file; `ProcessField` follows
each entry into the message, creates what is missing on the way, and calls
`Merge` or `ReadFields` again for an entry whose message is itself chunked.

What is hard:

* **Indices that move.**  Chunks may be inserted anywhere while others are
  appended.  Until `FixChunks` runs, a `chunk_index` is not a position but a
  key, translated through two lists; after it, it is a position.  What happens
  to it when a builder fails half-way and `Split` is called again, or when
  something is added after `Split`?
* **Partial failure.**  `AddChunk` changes the `ChunkedMessage` before it knows
  that the tag is valid.  `RepeatedFieldSplitters` takes the elements out of
  the message before it adds the chunks.  `WriteRecord`'s result is ignored.
* **Order.**  `Read` sorts the entries, `Merge` does not; both depend on an
  outer message coming before what is inside it, and element 0 before 1.
* **Numbers.**  Sizes go through `int`; indices run one past the end; a map key
  of any width becomes an `int` on its way, and three pieces of code convert it
  to the type of the map's keys.
* **Crashes and readers.**  The writer may die between two records; a reader
  follows offsets it read earlier.

There are no threads in this code.  The interleavings are between the calls of
a builder, a child, a user and a retry on one tree of splitters, and between
the processes that write and read the files.

What makes each part correct: for a splitter, that every entry that `Split`
returns leads to the chunk it was added for, at the place it was added for;
for the merger, that each chunk arrives exactly once and at its place, that no
chunk is missing from an `OK`, and that well-formed input does not end the
process; for the repeated field, that no element is lost, doubled or
reordered and how far a slice may exceed the maximum size; for field paths, that the path a caller gives
and the one the merge follows lead to the same field; for files, that a file
which looks complete is.

## 2. Modules and how they follow the code

**`ChunkStore`** is the abstract specification of a splitter: a list of chunks
to which chunks are added anywhere, and a list of entries, each of which names
its chunk *itself*.  There are no indices in it and nothing to repair.

**`CppSplitter`** has one variable for each member of the root that matters
(`chunks`, `fields`, `rootIdx`, `addChunkOrder`, `chunksOrder`,
`fixChunkOrder`, `built`), and the call that is being passed up the tree
(`pending`).  One action per operation, and one per way it can end:
`SplitBegin`, `SplitFinish` (which contains all of `FixChunks`), `SplitAgain`,
`SplitChild`, `BuildChunksFails`, `SetMessageAsBaseChunk` and its failure and
its call on a child, `AddChunkCall`, `AddChunkInParent`, `AddChunk`,
`AddChunkBadTag`.  A builder is any sequence of calls, and may run before or
after `Split` as `ChildSplitterTest` does.  The first failing call inside
`Split` ends `Split`; a second `Split` starts from what is there.
`add_chunk_order_[current_index]` past the end is undefined behaviour and
modelled as reading any word.  An index given to `AddChunk` lies within the
list: the code does not check it, so this is the caller's part, and nobody in
the repository gives another.  `given` is a history variable: what each entry
was added for.

**`CppSplitter_proofs`** and **`CppStore_proofs`** hold the theorems about it,
and **`PySplitter_proofs`**, **`Merger_proofs`**, **`RepeatedField_proofs`**,
**`FieldTags_proofs`** and **`ChunkFile_proofs`** those about the module each is
named after (section 6).
**`SequenceLemmas`** has what they share: insertion into a sequence, appending,
prefixes, last occurrences, flattening, and induction over a set of numbers.

**`PySplitter`** does the same for `split.py`, where it differs:
`list.insert` with negative and large positions, lookup by `id()` where the
last position of an object wins, no failure after a change, a root whose
`chunk_index` is not repaired, an initial chunk or none.

**`Merger`** models the message being merged as a map from the paths of its
nodes to the chunks merged into them, and the recursion of
`Merge`/`ReadFields`/`ProcessField` as a stack.  The `ChunkedMessage` is a tree,
too, and a message in it is named by the *way* to it: the positions of the
entries it is in.  An order of the entries is a sequence of their positions.
`Sorted` is the set of orders
that `std::sort` may leave with the comparator of `ReadFields`, which is
`Less`.  `crash` is an outcome of its own: an unchecked `StatusOr::value()`, a
reflection call on the wrong kind of field, an exception from `std::stoi`.
Records that are missing or garbled are inputs.

The chunks' contents (`brings`: how many elements of which repeated field) are
chosen at the start, so that an element may be there before a chunk for it or
not.

**`RepeatedField`** is `BuildChunksReturnSize`: the loop over the elements with
the factories' splitters (each of which may decline, fail or cut out any number
of bytes and report it as an `int`), then the loop that moves the slices out,
with `AddChunk` failing, and a second call after an error.  Sizes are
words of `2 * IntBits` bits and `int` has `IntBits`.  `EncodingBytes` is what the
encoding adds to an element, its key and its length; the code's estimate counts
`kExtraBytes` for it, in every element but the last of a slice.

**`SplitMerge`** composes the two: it extends `RepeatedField` and instantiates
`Merger` (`Back`).  When the splitter has returned `OK`, `HandOver` makes the
`ChunkedMessage` that `AddChunk` would have left (pieces in the order they were
cut, then slices, with the place of the splitter in front) and calls `Merge`
or `Read` with it.  The splitter may work on the repeated field of the root or
of a message in it, and the root may be the base chunk or not.

**`FieldTags`** follows one path from the caller to the merge.
`CallAddFieldTag` (C++) or `CallGetFieldTag` (Python) walks it, each with its
own callbacks, to a tag, and may stop half-way;
`ProcessField` turns the tag into field types, with the casts to `int`; one
action per kind of field then follows it into a message that has the element or
key, has others, or is empty: `FollowMessage`, `FollowKey`, `AddMapEntry`,
`FollowElement`, and the ways in which it can go wrong (`FollowNegative`,
`FollowScalars`, `FollowCrash`).  `WalkFields` takes the
name of its caller, which selects the callbacks; `GetField` is its third
caller.  A bad access of a null descriptor, `value()` of an error and a wrong
reflection call are all `crash`.

**`ChunkFile`** has the two files, a writer whose records reach the file some
time before `Close`, files that cannot be opened or closed, a full disk, a crash
at any step, and a reader that calls `Read`, or `GetChunkMetadata` and then
`ReadPartial`, step by step beside the writer.  In a `.cpb` without records
`GetChunkMetadata` makes a `StatusOr` of a status that is `OK`: an internal error
or, in a debug build, the end of the process (`NoMetadataStatus`).  `Flush`, `WriteFails` and `Crash` are the environment.
`WriteToString` (and `WriteToCord`) is an operator: the records it returns are
what a complete file is compared with.

`MC*` modules give the constants their values.  A definition whose comment
starts with "Mutant" is a faulty variant of the definition after it: no
specification uses it; it is there to see that the property named in
`PROJECT.json` does notice that fault.

## 3. Runs

| run | states | question |
|---|---|---|
| `CppSplitter_safety` | 429,072 | do the indices `Split` returns lead to the right chunks, in every order of calls? does the splitter implement `ChunkStore`? |
| `PySplitter_safety` | 9,832 | the same two questions for Python |
| `Merger_safety` | 75,845 | where does each chunk end up, when, and how does the call end? |
| `RepeatedField_safety` | 370,289 | are elements kept, in order, in slices that fit by the estimate, and how well do they really? are they merged back? |
| `FieldTags_safety` | 235,682 | does the merge get to the place for which a caller added a chunk? |
| `ChunkFile_safety` | 40,030 | is a file that looks complete complete; is one read of one version? |
| `CppSplitter_dangling` | | violated: finding 1 |
| `PySplitter_rootindex` | | violated: finding 2 |
| `Merger_emptytag`, `Merger_mapkeys` | | violated: findings 3 and 4 |
| `FieldTags_sound` | | violated: finding 5 |
| `ChunkFile_read` | | violated: finding 6 |

The properties, in the words of the code:

* *CppSplitter.*  `EntriesResolve`, `BaseResolves`, `TagsAreAbsolute`: entry,
  root and tag mean what the caller of `AddChunk` meant.
  `ReturnedEntriesStable`: what `Split` returned is not rewritten.
  `NoChunkWithoutEntry`: if `Write` exports a plain `.pb` because there is no
  entry, nothing was cut out of the message.  `SplitterInv`: the invariant that
  the proofs use.  `ImplementsStore`: refinement of `ChunkStore`.
* *PySplitter.*  `EntriesResolve`, `ReturnedEntriesStable`, `ImplementsStore`
  as above; `IdsResolve`: the assertion in `_fix_chunks` cannot fail.
  `PySplitterInv`: the invariant that the proofs use.
* *Merger.*  `EveryChunkOnce`: a chunk is merged at its place as often as the
  `ChunkedMessage` says and nowhere else.  `NoChunkMissingFromOK`.
  `OuterFirst`: a message is merged before what goes inside it.
  `SameFieldInOrder`: `Merge` takes the chunks of one field in the order of the
  list, as `chunk.proto` says; `EarlierChunksFirst`: `Read` takes them in the
  order of their indices, which is another one (section 4).
  `ComparatorIsStrictWeak`: the precondition of `std::sort`.
  `DenseReadSurvives`: entries for message fields, whose elements come without
  gaps, do not end the process that reads them, whichever records are missing
  or garbled; only a missing record of the outermost message does.
  `MergerInv`: the invariant that the proofs use (`MergingInv` and, on top of
  it, `DenseInv`).
  They speak of the messages at every depth of nested `ChunkedMessage`s, not
  only of the outermost one.
* *RepeatedField.*  `ElementsInOrder`, `AllOrNothing`: nothing lost, doubled or
  reordered, also after a failed nested splitter and a second call.
  `SlicesFit`: a slice of several elements, measured by its real bytes, exceeds
  the limit by no more than the key and the length of its last element, even
  where the `int` that reports a nested splitter's work wraps; its premise is that
  `kExtraBytes` is enough for the other elements (`Covered`).  That it exceeds the
  limit at all is reported in section 4.  `OnlyFirstEmpty`.  `Greedy`: by the estimate, no
  slice could have taken one element more.
  `RepeatedFieldInv`: the invariant that the proofs use.  `MergedBack` (in
  `SplitMerge`): merging gives back the elements, no more and no fewer, in their
  order, each with what was cut out of it, also after a build that failed and
  was repeated.
* *FieldTags.*  `LeadsBack`: the merge arrives at the field the caller named,
  whether by name, number, text or bool, and for each type of key;
  `MessageTagsSurvive`: a tag with all its indices and keys (`Complete`), whose
  indices are those of an element that is there or of the next one (`InOrder`),
  does not end the process, in whatever message it is followed; above all,
  `FindMapKey` finds what `AddMapEntry` has made.  It leaves out tags that go to
  an element of an array of scalars or to a map with scalar values, which do end
  the process (`SoundTagsSurvive`, finding 5).  `SameTag`: C++ and Python write
  the same tag for a path that both accept.  `FoundIsTagged`: what `GetField`
  finds, `AddFieldTag` can tag, and as the same place.  `FieldTagsInv`: the
  invariant that the proofs use; an index on the wire is a `uint64` (`TypeOK`,
  which is a part of it).
* *ChunkFile.*  `MetadataCommits`: a `.cpb` whose metadata can be read holds
  what `WriteToString` returns for one version, whole.  `WrittenIsThere`: so
  does the file after a `Write` that returned `OK`, for the version it was given.
  `OneVersionRead`: `ReadPartial` returns the chunks of one version, in order, if
  no writer opened a file since `GetChunkMetadata`.  `ChunkFileInv`: the
  invariant that the proofs use.

### Bounds, and why they are enough

* `CppSplitter`: three splitters in a chain, three chunks, `MaxFields = 3`
  entries, each at any index or none, by any splitter, with two valid tags and
  tags that the root does not have.  An insertion disturbs the entries behind
  it: with a base chunk and three chunks there are entries before, at and behind
  an insertion, and an insertion of an inserted chunk; two levels of children
  show that places are put together in the right order.
* `PySplitter`: two objects and three entries, so that one object is added
  twice; positions from -2 to one past the end.
* `Merger`: one recursive message type with seven fields, one of each kind;
  flat lists of up to three entries (plain tags in threes, odd ones in pairs) and
  chunk numbers in any order, and one level of nested chunking; at most one bad record.  The comparator looks at
  two or three entries at a time, so three show whether it is a strict weak
  order; the recursion of deeper messages repeats what one level does.
* `RepeatedField`: up to three elements of size 0, 2 or 5 with a limit of 4, and
  an `int` of 3 bits: an element over the limit, slices that are just full, a
  reported size that wraps; two calls.  The encoding adds one or two bytes to an
  element, where `ExtraBytes` is 1: so there are elements for which it is enough,
  and one for which it is not.  For `SplitMerge` twelve chunk numbers,
  more than three elements and two tries can use up.
* `FieldTags`: an `int` of four bits and an `int64` of six, so that -1 is 15 as
  a `uint32` and 63 as a `uint64`; each of the six key types that are handled
  and one that is not; paths of up to four elements, which is a list or map
  inside a list or map; values at and next to the limits of `int`; Python
  integers beyond them.  Repeated fields of none or two elements, maps with no
  key, the key meant, or another.
* `ChunkFile`: three writes of versions with 0, 2 and 3 chunks, one reader: a
  file replaced by a shorter and by a longer one, and the other file left
  behind.

Deadlock is checked for the splitters and the file.  It is not checked for
`Merger`, `RepeatedField` and `FieldTags`, whose calls end.

### Fairness

No module states fairness, as none makes a claim about progress.  Whether a
builder, a user or a writer calls again is their business.  That a merge comes
to its end needs no fairness to be seen: the calls recurse over the finite tree
of `ChunkedMessage`s, with a loop over a finite list at each.

## 4. Findings

1. `CppSplitter_dangling`: `AddChunk` adds the entry and its index before
   `AddFieldTag` can fail (`cc/composable_splitter_base.cc:265-268`) and does
   not take it back; if the caller goes on, or calls `Split` again, an entry is
   returned with `OK` whose `chunk_index` names no chunk (`chunk.proto:50`).
2. `PySplitter_rootindex`: `_fix_chunks` does not update the root's own
   `chunk_index` (`split.py:268`): with an initial chunk, and a chunk inserted
   at 0, it names the wrong chunk.  The C++ code updates it.
3. `Merger_emptytag`: an entry with an empty tag is "a portion of the parent"
   that "needs to be concatenated" (`merge.cc:270`), but what is concatenated is
   a string that was never assigned (`merge.cc:249`).  `RepeatedFieldSplitters`
   produces such entries for the slices of a repeated field of the root itself;
   a child's slices have the place of the child for a tag.
4. `Merger_mapkeys`: the comparator of `ReadFields` gives up at two map keys, so
   what is below one key may be merged before what is around it, against the
   comment at `merge.cc:195`.
5. `FieldTags_sound`: a complete tag that goes to an element of a repeated string,
   as `composable_splitter_test.cc:107` expects `Split` to write it, or to an
   entry of a map with scalar values, as `g3doc/in-depth-guide.md:383` adds them
   for a `map<string, float>`, ends the process that merges it: the reflection
   calls are those for messages (`merge.cc:299`, `merge.cc:308`, `merge.cc:314`).
6. `ChunkFile_read`: `Read` asks `OnlyContainsPb` only whether it failed
   (`merge.cc:83`) and reads `prefix.pb` in any case.

Met on the way, without a run.  Against a document:

* `Split` of a message that is not split returns no chunk at all, where
  `cc/composable_splitter_base.h:56` says the message itself; `split` on a
  child raises an error, where `README.md:86` calls it.
* `ReadFields` merges the chunks of one field in the order of their indices
  (`merge.cc:228`), where `chunk.proto:52-53` and `g3doc/in-depth-guide.md:133` say
  the order of the list.  A chunk that was inserted makes the two differ; `Merge`
  keeps to the list (`SameFieldInOrder`).  `EarlierChunksFirst`, which holds, says
  what `Read` does instead.
* `total_size + node_size` counts nothing for the key and the length of the element
  that is added last (`cc/repeated_field_splitter.cc:98`), so a slice may be longer
  than `GetMaxSize()`, which is the "max size allowed by each chunk"
  (`cc/max_size.h:22`).  With the values of `RepeatedField_safety`, a limit of 4,
  two elements of 0 and 3 bytes go into one slice of 6.  The default limit lies 500
  bytes below 2 GiB, which leaves room for that; a limit set by `DebugSetMaxSize`
  does not.  `SlicesFit` bounds the excess.

Where no document says anything, and the properties leave the case out by name:

* `Merge` (not `Read`) of a message whose repeated field was sliced and whose
  elements had pieces cut out: the pieces come first, so they make elements of
  their own, the slices are appended behind them, and the result is `OK` with
  too many elements, or a crash (`Mergeable`).
* When `AddChunk` fails for a slice, the elements have been extracted already and
  are lost (`cc/repeated_field_splitter.cc:127`): calling `Split` again returns
  `OK` without them (`Mergeable`, `ElementsInOrder`).
* `AddFieldTag` takes a negative list index.  As a `uint64` and back it is the
  same `int`, but -1 means "no index" to `ProcessField`, which then calls
  `MutableMessage` on a repeated field, and anything below -1 passes the check
  of the size and is raised to 0 (`FitsInt`).  On a repeated scalar, -1 goes
  the way of a tag without an index: `field_index` is read without having been
  assigned (`FollowScalars`).
* A map key whose type is not handled, or that does not convert, leaves an unset
  `map_key` in the entry; `ProcessField` calls `value()` on the error of
  `GetFieldTypes` (`merge.cc:283`), so merging such a message ends the process
  (`ProcessFieldBadTag`).
* `kExtraBytes` is 5, which is too few for an element with a field number of
  five bytes, or of many megabytes with one of two or more (`Covered`).
* A Python key or index beyond `int` loses its high bits in `static_cast<int>`
  (`cc/util.cc:230`, where a comment knows it).
* In `util.py` the branch for a field that is neither `int` nor `str` is not
  reached by a bool, as a bool is an `int`: `True` is field number 1; in C++ it
  is an error.
* `writer.LastPos()` is called after a `WriteRecord` that may have failed
  (`cc/composable_splitter_base.cc:140`).
* `RepeatedFieldSplitters::Create` accepts a repeated field of scalars, on which
  `BuildChunksReturnSize` then makes calls for messages.

## 5. Refinement

`CppSplitter` implements `ChunkStore` under this mapping: `store` is `chunks_`;
`returned` is `built_`; an entry's chunk is `chunks_[chunk_index]` once `Split`
has succeeded, and before that the chunk at
`chunk_indices[add_chunk_order_[chunk_index]]`; entries left behind by a failed
`AddChunk` are passed over.  `FixChunks` then maps to no change at all, which is
what it should do: it changes how a chunk is named and never which.  The
refinement (`ImplementsStore`) holds until somebody inserts a chunk after
`Split` has succeeded (`Stale`): then the indices are wrong until the next
`Split`, and the code has no way to represent which chunk they meant.

`PySplitter` implements the same specification when it starts without an
initial chunk; with one, finding 2 is in the way, so its `ImplementsStore` is
restricted to the behaviours without.

## 6. Proofs

### The C++ splitter

`CppSplitter_proofs` proves, for any tree of splitters, any set of chunks and
tags and any number of calls:

* `Invariance`: `Spec => []SplitterInv`, and from it
* `Typing` (`TypeOK`), `EntriesAlwaysResolve`, `BaseAlwaysResolves` and
  `TagsAlwaysAbsolute`;
* `ReturnedEntriesKept` (`ReturnedEntriesStable`), an action property, and
  `NoChunkIsLeftOut` (`NoChunkWithoutEntry`), both from the invariant and
  `StepsOfEntries`, which says what a step may do to the entries.

`CppStore_proofs` proves `SplitterImplementsStore`: `Spec => ImplementsStore`.
So all the properties of `CppSplitter_safety` are proved.

The assumptions are those named in `CppSplitter`: `ChunkAssumption` (the
message is none of its chunks, and None is no chunk, no number and no entry),
`TreeAssumption` (parents form a tree whose paths compose; the constructor
guarantees it), `TagAssumption` (a tag is a sequence of steps),
`BoundAssumption`.

`EntriesResolve` is not inductive: it speaks of the state after `Split` only.
What carries it there is

* `OrdersInv`: `add_chunk_order_` is the identity and `chunks_order_` is a
  permutation of the keys (so `chunk_indices` is its inverse);
* `KeysInv`: before `Split` has succeeded, an entry's index is a *key*: at the
  position where `chunks_order_` holds it, `chunks_` holds the entry's chunk;
* `UnmovedInv`: as long as `fix_chunk_order_` is false, keys are positions, so
  `FixChunks` may do nothing;
* `PendingInv`: a call on its way up still means the place it meant and an
  index within the list.

The argument: inserting the same way into `chunks_` and `chunks_order_` keeps
keys at their chunks (`InsertionKeepsOrders`, about three sequences and no
state); `FixChunks` replaces a key by its position (`ChunkIndicesFinds`,
`FixLeadsToKeyed`); after `Split` an append leaves positions alone, and an
insertion sets `fix_chunk_order_`, which takes the premise away.  There is
one lemma for each action that changes the bookkeeping, and `FrameInv` for the
others.

The refinement rests on the same invariant.  Until indices are stale,
`Resolve` gives back what the entry was added for, through keys before `Split`
(`ResolveKeyed`) and through positions after it: the mapped entries are
`Promised`, in which no index occurs (`ResolvedAsPromised`).  Each step is then
looked at for what it does to `Promised`: `AddChunk` adds one entry, with the
next number; `FixChunks`, and an `AddChunk` that fails, leave it alone.  What
is needed beside the invariant is `CallInv`: a call in progress means a place
in the root's message, and there is a number left for its entry.

### The Python splitter

`PySplitter_proofs` proves `Invariance` (`Spec => []PySplitterInv`) and from it
`Typing`, `IdsAlwaysResolve`, `EntriesAlwaysResolve`, `ReturnedEntriesKept` and
the refinement `SplitterImplementsStore`, for any objects, any number of calls
and any positions: all that `PySplitter_safety` checks.

Here nothing has to be said about keys.  `IdsResolve` is inductive together with
`OrdersInv`, which relates `add_chunk_order` to the list of chunks: they are of
one length, and equal while `fix_chunk_order` is false.  The step that needs an argument is
`SplitFinish`: `_fix_chunks` looks an id up in a dictionary in which the last
position of an object has won, so an entry may come to point at another position
than it was added at; `ChunkIndicesFinds` (on `LastOccurrence`) says that the
same object is there.  For the refinement, `ResolvedAsPromised` says that the
mapped entries are those that were asked for.

### The merger

`Merger_proofs` proves `Invariance` (`Spec => []MergerInv`), and `Typing`,
`AlwaysStrictWeak` (`ComparatorIsStrictWeak`), `OuterAlwaysFirst`
(`OuterFirst`), `EveryChunkMergedOnce` (`EveryChunkOnce`), `OKMissesNoChunk`
(`NoChunkMissingFromOK`), `SameFieldStaysInOrder` (`SameFieldInOrder`),
`EarlierChunksStayFirst` (`EarlierChunksFirst`) and
`DenseReadAlwaysSurvives` (`DenseReadSurvives`), for any message type, any tree
of `ChunkedMessage`s of any size and depth, any contents of the chunks and any
records in the file.  `MergerInv` has two layers: `MergingInv` is inductive by
itself and carries all of these but the last; `DenseInv` is inductive on top of
it and carries the last.

`MergerAssumption` says of what kind the constants are.  `InputAssumption` says
that an input is a `ChunkedMessage`: a finite tree in which every entry that is
counted is there, and whose tags are such as `AddFieldTag` writes, complete or
not (`FollowsDescriptor`: a field of a message, an index of a list, a key of a
map).

Of the properties only `ComparatorIsStrictWeak` follows from the input alone.
The comparator looks at the first depth at which two tags do not go on in the
same way, or else at their lengths: either they *diverge* at one depth
(`DivergeOnce`) or they *agree* up to the end of one of them
(`DivergeOrAgree`), and `LessTransitive` and `TiedTransitive` go through the
ways in which three tags may do so.  Tags that follow the descriptor have the
same kind of element at the depth where they first differ (`SameKind`): without
that the comparator is no weak order.

The others but `DenseReadSurvives` speak of the end of the call, or of what a
loop has left to do.  What carries them is, in `MergingInv`,

* `StackInv`: the frames lead from the outermost message to the one that is
  being filled; each loop has its entries in a permitted order, without
  repetition, and fills the node that is the *place* of its message; the entry
  a deeper frame came from is no longer on the list (`LeadTo`);
* `CountInv`: for every node and every chunk, what was merged there and what is
  still *ahead* make up what the `ChunkedMessage` asks for.  A message is ahead
  if the call about to start, or an entry that a running loop has not taken, is
  on the way to it;
* `RecordInv`: for what is not ahead, the records that were needed were there;
* `OrderInv`: what is not ahead was merged, and after what comes before it.

When the status is `OK` there is no frame and no call, so nothing is ahead
(`NothingAhead`), and the four properties about `OK` are what is left of the
invariant.  The two about the order of one field come from `OrderInv`, in which
`ComesBefore` is the order of the list or that of the indices (`ComesInTurn`).

The argument goes over what a step does to the set of messages that are ahead:
a call that starts takes one message out of it, and merges its chunk
(`AheadPushed`, `CountStarted`, `OrderStarted`); a loop that goes on to its
next entry hands what is behind that entry over to the call for it, or takes
away entries that are no messages (`AheadTaken`, `CalledInv`, `TakenInv`); a
call that returns changes nothing (`FramesPopped`).  That the call for an entry
fills the right node is `NavigateArrives`: `ProcessField` only adds empty nodes
on its way and arrives at `at \o GetFieldTypes(tag)`, which is the place of the
entry's message (`PlaceEntry`, `TakenEntry`).  That `ReadFields` may take any of
the orders that `std::sort` leaves is `SortedOrders`.

`Sorted`, `GetFieldTypes` and `Navigate` are recursive functions.  The provers
know nothing of them but their definitions: `LoopExists` shows once, for all
three, that there is such a function, and `LoopRounds` what its rounds are.

`DenseReadSurvives` is about the one way in which a well-formed input can make
`ProcessField` die: it reaches for an element of a list that is not there yet.
It holds because the order of `ReadFields` brings every element before anything
that goes through it, and the proof says how:

* `NoGaps`: the indices of every list begin at 0 and leave none out, so an
  element is there if one with a higher index is (`BelowSize`).  Nothing that
  `ProcessField` or `MergeChunk` adds can break that (`NodeNoGaps`,
  `ChunkNoGaps`, from `NoGapsGrow`);
* `BroughtIsThere`: the elements that a merged chunk brings are there;
* `GoneIsThere`: so are the messages that an entry goes through which a loop has
  left behind.

`DenseAt` says that element `i - 1` of a list that an entry reaches into is used
by another entry, or that some chunk of the message around the list brings `i`
elements (`DenseParts`).  Either way what is needed comes first: an entry that
goes through the element before, or that is for the message around, is less for
the comparator (`LowerElementLess`, `AroundLess`), and so is behind its loop
(`LessIsGone`).  In the first case `GoneIsThere` has the element; in the second
the chunk is merged, since by `CountInv` all that is not ahead is
(`BehindIsMerged`), and `BroughtIsThere` has it (`MergedBrings`).
`LowerIsThere` puts the two together, and by `NavigateSurvives` a tag whose
lower elements are all there is walked to its end, with each list growing by at
most one.  `DenseRead` asks for the record of the outermost message because
`merge.cc:189` takes the `StatusOr` for it apart unchecked; for a nested message
`ProcessField` has looked the same record up before (`OwnRecordThere`, from
`RecordInv`).

### Repeated fields

`RepeatedField_proofs` proves `Invariance` (`Spec => []RepeatedFieldInv`) and
from it `Typing`, `NoElementLost`, `AllMovedOrNone`, `SlicesWithinLimit`,
`LaterSlicesNotEmpty` and `SlicesAreGreedy`, for any number of elements and
factories, any sizes, limit and width of `int`: all that
`RepeatedField_safety` checks of this module.

`RepeatedFieldAssumption` keeps the sizes of two elements, with what the return
values of all factories can add, below the width of `size_t` (`ElementSize`):
elements are messages that are in memory.  It is needed, since `total_size` is
a `size_t` and the sum of two sizes is compared with the limit.
It says nothing about `int`: that the `int` which reports a nested splitter's
work may wrap is part of what is proved about.  `PowersOfTwo` spells out three
facts about `2^n`, which the provers do not know; TLC evaluates it.

The invariant has one part for each loop.

* `ScanInv`, while the split points are found: they are increasing and at most
  `i` (`SplitInv`, with that every closed slice fits by the estimate and that none
  could have taken one more element); `OpenInv`: the slice that is open holds no
  more than `total` bytes by the estimate, exactly that if no `int` has wrapped,
  and is within the limit by it unless it is one element; `NodeInv` and `TotalInv`: what was subtracted
  for nested splitters leaves a number that has not gone below zero.
* `MoveInv`, while the slices are moved: those that are moved and those still
  extracted are the slices of one sequence of elements, `Whole`.
* `FieldInv`: elements are in the field or extracted, never both.

The argument: an element never holds more than `node` after something was cut
out of it (`BytesCut`, `NodeStaysAbove`; an `int` that wraps reports fewer bytes
than were cut, so `node` and with it `total` err on the high side, and the
slice still fits by the estimate); closing a slice adds a split point and starts a
slice of one element (`SplitExtends`); moving a slice takes the front of what
is extracted (`SliceOfSlice`, `SlicesJoined`).  Sums are a recursive function
(`SumOf`) over lists of any length: `SetInduction`, which is induction over a
*set* of numbers and needs no operator for a parameter, carries the few facts
about it (`SumsExist`, `SumsBelow`, `SumsAgree`, `BytesAppend`).

What the invariant has is `SlicesEstimated`, the limit as the code measures it.
`SlicesFit`, on the real bytes, follows from it for each slice
(`EncodedWithinEstimate`): where `kExtraBytes` covers an element, its real bytes
are at most what the estimate counts, so the sums of all but the last compare in
the same way (`SumsBelow`), and for the last the estimate counts its size alone.

### Field tags

`FieldTags_proofs` proves `Invariance` (`Spec => []FieldTagsInv`) and from it,
or from `IInv`, which adds that the inputs are of the right kind, `Typing`,
`TagsLeadBack` (`LeadsBack`), `MessageTags` (`MessageTagsSurvive`), `OneTag`
(`SameTag`) and `FoundTagged` (`FoundIsTagged`), for any message type, any
messages, paths of any length and any widths with 1 < `IntBits` < `LongBits`:
all that `FieldTags_safety` checks.

`FieldTagsAssumption` says of what kind the constants are; above all, that an
int given to C++ is an `int` and one given to Python any integer.
`PowersOfTwo` spells out what the proofs need about `2^n`, and `PrintedTexts`
that `ToString` makes text of an `int`, a different text of a different one; the
provers know neither, and TLC evaluates both.

* *Widths.*  `Casts`: an `int` survives being an `int64`, a `uint32` or a
  `uint64` on its way back to `int`, and so does a `uint32`, once it is
  converted again.  `IndexCast`: for any integer, the cast to `uint64` and then
  to `int` is the cast to `int`.  Both come from `ModTimes`: whole words more or
  less do not change a remainder.
* *Walks.*  `WalkFieldsGood`, by induction over the path: however far a walk of
  `AddFieldTag` or `get_field_tag` got, its tag and its place belong together
  (`WalkFacts`).  Each step of the place has the form its field asks for, each
  key the type of the map's keys (`GoodKey`), and `GetFieldTypes` of the tag is
  the place with every int cast (`Cast`), unless `AddMapKey` left an element
  without a key in it, in which case the walk did not return `OK`.
* *Following.*  `Followed`: the steps followed and the steps to follow are, one by
  one, those of the written place; those to follow are cast, those followed are
  as they were written, if `FitsInt`.  `KeyBack` is why: the key a tag holds is
  found again under the `int` that `GetMapKeyFromFieldIndex` makes of it, and
  whatever the key, exactly one key is meant.  Hence `AddMapEntry` is followed by
  a look-up that succeeds, which is the part of `MessageTagsSurvive` that is
  about maps.  For lists, `AmongWhatIsThere`: as long as each step led to what was
  there, the merge is in the message as it was, and otherwise in what it has
  just made; so the list it finds is at least as long as `InOrder` reckons
  (`IndexHasRoom`).
* *Two walks.*  `SameWalks` and `FoundWalks` compare two callers' walks along one
  path round by round (`SameRound`, `FoundRound`), on `OneMeaning`: what C++
  takes for a name, number, text or bool is one key at most.

The loops of `WalkFields` and `GetFieldTypes` are recursive functions like those of
`Merger`, and treated in the same way.

### Files

`ChunkFile_proofs` proves `Invariance` (`Spec => []ChunkFileInv`) and from it
`Typing`, `MetadataAlwaysCommits`, `WrittenStays` and `OneVersionIsRead`, for
any number of versions of any number of chunks and any number of writes: all
that `ChunkFile_safety` checks.

`MetadataCommits` speaks of files whose last record can be read as metadata;
what is inductive is `FileInv`: whatever is in the `.cpb` is the *beginning* of
what `WriteToString` returns for one version.  Only the last of those records is
metadata (`MetadataIsLast`, `NothingFollowsMetadata`), so a file that ends in
one is whole (`EndsInMetadata`).  `WriterInv`: file and buffer together begin
the version being written, up to `next` unless a write failed, and the offsets
are the numbers of its chunks; `PutGoesOn` is the step of `WriteRecord`.
`ReaderInv`: a reader that nobody disturbed has the metadata of the file as it is
and the first of its chunks.

### Only model-checked

* `MergedBack` (`SplitMerge`): it is about two components, joined by a
  `ChunkedMessage` that is built by folds over the splitter's lists.  What each
  of the two promises by itself is proved (`NoElementLost`, and
  `EveryChunkMergedOnce` with `SameFieldStaysInOrder`); that the one
  `ChunkedMessage` between them says the same to both is what the run shows.
* The six runs that find a violation.

## 7. Plan

The modules of the plan are written.  Of both splitters, the merger, the
repeated fields, the field tags and the files every safety property that is
checked is also proved.  What is left:

1. `MergedBack`: lemmas that say what `HandOver` makes of the pieces and the
   slices (that its entries are dense, and their places the elements'), then the
   theorems of `Merger_proofs` for that one input.

## 8. Not modelled

* Formatting (`HumanReadableBytes`, `HumanReadableDuration`), logging, the text
  of errors, versions, build files, the generators of test data.
* `RepeatedFieldSplitters::Create`: a check without state.
* `DebugSetMaxSize`: for tests.  No splitter reads the size twice.
* What is inside a chunk.  `Merger` keeps which chunk was merged where, and how
  many elements of a repeated field a chunk brings.
* Tags that `AddFieldTag` cannot have written, so the errors for malformed tags
  in the comparator and in `GetFieldTypes`; a `chunk_index` outside the
  metadata's list of chunks.
* A torn record in a `.cpb`: Riegeli's own checksums are taken to tell.  A chunk
  that happens to parse as `ChunkMetadata` is taken not to exist.
* Map keys given as text for a number: a text is read as the number it prints
  as; other spellings that `SimpleAtoi` accepts are not told apart.
* The sizes and types in `ChunkInfo`, which no reader uses.

## 9. Running

    tlc -config CppSplitter_safety.cfg MCCppSplitter.tla
    tlapm CppSplitter_proofs.tla

and so on for the runs of section 3 and for `SequenceLemmas`, `CppStore_proofs`,
`PySplitter_proofs`, `Merger_proofs`, `RepeatedField_proofs`, `FieldTags_proofs`
and `ChunkFile_proofs`.

`PROJECT.json` lists the components, the runs, for every definition the lines it
models, the mutants, the hazards and the theorems.
