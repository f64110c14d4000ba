-------------------------- MODULE PySplitter_proofs --------------------------
(***************************************************************************)
(* Proofs about PySplitter, for every tree of splitters, every set of      *)
(* objects and tags, and any integers as insertion indices: the ids lead   *)
(* from an entry to its object before _fix_chunks runs, the positions do   *)
(* after it, and the splitter implements ChunkStore.                       *)
(***************************************************************************)
EXTENDS PySplitter, SequenceLemmas

(* The lists *)

\* list.insert puts an object into the list at any integer.
LEMMA InsertPositionInRange ==
    ASSUME chunks \in Seq(Chunk \union {Base}), NEW index \in Int
    PROVE  InsertPosition(index) \in 1..(Len(chunks) + 1)
BY LenProperties DEF InsertPosition

\* An entry and what it was added for go to the ends of their lists.
LEMMA EntryAppended ==
    ASSUME NEW S, NEW T, fields \in Seq(S), given \in Seq(T), Len(given) = Len(fields),
           NEW x \in S, NEW g \in T,
           fields' = Append(fields, x), given' = Append(given, g)
    PROVE  LET n == Len(fields) + 1
           IN  /\ n \in Nat /\ DOMAIN fields = 1..Len(fields)
               /\ fields' \in Seq(S) /\ given' \in Seq(T)
               /\ Len(fields') = n /\ Len(given') = n
               /\ DOMAIN fields' = DOMAIN fields \union {n} /\ n \notin DOMAIN fields
               /\ fields'[n] = x /\ given'[n] = g
               /\ \A f \in DOMAIN fields : fields'[f] = fields[f] /\ given'[f] = given[f]
<1> DEFINE n == Len(fields) + 1
<1>1. Len(fields) \in Nat /\ DOMAIN fields = 1..Len(fields)
  BY LenProperties
<1>2. /\ fields' \in Seq(S) /\ Len(fields') = n /\ fields'[n] = x
      /\ \A f \in 1..Len(fields) : fields'[f] = fields[f]
  BY AppendProperties
<1>3. /\ given' \in Seq(T) /\ Len(given') = n /\ given'[n] = g
      /\ \A f \in 1..Len(fields) : given'[f] = given[f]
  BY AppendProperties
<1>4. DOMAIN fields' = 1..n
  BY <1>2, LenProperties
<1>5. 1..n = 1..Len(fields) \union {n} /\ n \notin 1..Len(fields) /\ n \in Nat
  BY <1>1
<1> HIDE DEF n
<1>6. /\ n \in Nat /\ DOMAIN fields = 1..Len(fields)
      /\ fields' \in Seq(S) /\ given' \in Seq(T)
      /\ Len(fields') = n /\ Len(given') = n
      /\ DOMAIN fields' = DOMAIN fields \union {n} /\ n \notin DOMAIN fields
      /\ fields'[n] = x /\ given'[n] = g
      /\ \A f \in DOMAIN fields : fields'[f] = fields[f] /\ given'[f] = given[f]
  BY <1>1, <1>2, <1>3, <1>4, <1>5
<1> QED BY <1>6 DEF n

\* The position _fix_chunks finds for an object that was added leads to it.
LEMMA ChunkIndicesFinds ==
    ASSUME chunks \in Seq(Chunk \union {Base}), NEW c \in ToSet(chunks)
    PROVE  ChunkIndices(c) \in Nat /\ LeadsTo(ChunkIndices(c), c)
<1> DEFINE Final(i) == chunks[i] = c /\ \A j \in DOMAIN chunks : j > i => chunks[j] # c
           p == CHOOSE i \in DOMAIN chunks : Final(i)
<1>1. \E i \in DOMAIN chunks : Final(i)
  BY LastOccurrence
<1>2. p \in DOMAIN chunks /\ Final(p)
  BY <1>1
<1>3. p \in 1..Len(chunks) /\ Len(chunks) \in Nat /\ chunks[p] = c
  BY <1>2, LenProperties
<1>4. ChunkIndices(c) = p - 1
  BY DEF ChunkIndices
<1> HIDE DEF p
<1>5. p - 1 \in Nat /\ p - 1 < Len(chunks) /\ (p - 1) + 1 = p
  BY <1>3
<1> QED BY <1>3, <1>4, <1>5 DEF LeadsTo

------------------------------------------------------------------------------
(* The inductive invariant *)

\* No chunk and no entry yet.
LEMMA InitInv == Init => PySplitterInv
<1> SUFFICES ASSUME Init PROVE PySplitterInv
  OBVIOUS
<1> USE DEF Init
<1>1. /\ chunks \in Seq(Chunk \union {Base})
      /\ fields \in Seq([tag : ValidTag, idx : Nat])
      /\ given \in Seq(Chunk)
  <2>1. <<>> \in Seq(Chunk \union {Base}) /\ <<>> \in Seq(Chunk)
        /\ <<>> \in Seq([tag : ValidTag, idx : Nat])
    BY EmptySeq
  <2>2. <<Base>> \in Seq(Chunk \union {Base})
    OBVIOUS
  <2> QED BY <2>1, <2>2
<1>2. TypeOK
  BY <1>1 DEF TypeOK
<1>3. DOMAIN fields = {}
  OBVIOUS
<1>4. \A k \in DOMAIN addChunkOrder : addChunkOrder[k] \in ToSet(chunks)
  BY DEF ToSet
<1> QED BY <1>2, <1>3, <1>4 DEF PySplitterInv, OrdersInv, IdsResolve, EntriesResolve

\* The steps that leave the lists alone.
LEMMA FrameInv ==
    ASSUME PySplitterInv, UNCHANGED <<built, lists>>, splitting' \in BOOLEAN,
           splitting' => ~built, ret' \in {"None", "OK", "Error", "ValueError"}
    PROVE  PySplitterInv'
BY DEF PySplitterInv, TypeOK, OrdersInv, IdsResolve, EntriesResolve, LeadsTo, lists

\* An object goes into the list, its id behind the others, and its entry names the id.
LEMMA AddChunkInv ==
    ASSUME PySplitterInv,
           NEW s \in Splitter, NEW c \in Chunk, NEW t \in RelTag,
           NEW index \in {None} \union (-2)..(Len(chunks) + 1),
           AddChunk(s, c, t, index)
    PROVE  /\ PySplitterInv'
           /\ \E p \in 1..(Len(chunks) + 1) : chunks' = InsertAt(chunks, p, c)
<1> DEFINE S == Chunk \union {Base}
           n == Len(chunks)
           x == [tag |-> Path[s] \o t, idx |-> n]
<1>1. /\ chunks \in Seq(S) /\ addChunkOrder \in Seq(S) /\ c \in S
      /\ fields \in Seq([tag : ValidTag, idx : Nat]) /\ given \in Seq(Chunk)
      /\ Len(given) = Len(fields) /\ Len(addChunkOrder) = n
      /\ ~fixChunkOrder => addChunkOrder = chunks
  BY DEF PySplitterInv, TypeOK, OrdersInv
<1>2. n \in Nat /\ DOMAIN addChunkOrder = 1..n
  BY <1>1, LenProperties
<1>3. /\ fields' = Append(fields, x) /\ given' = Append(given, c)
      /\ addChunkOrder' = Append(addChunkOrder, c)
      /\ x \in [tag : ValidTag, idx : Nat] /\ x.idx = n
  BY <1>2 DEF AddChunk, Resolves
<1> HIDE DEF x
\* The ids
<1>4. /\ addChunkOrder' \in Seq(S)
      /\ Len(addChunkOrder') = n + 1
      /\ DOMAIN addChunkOrder' = 1..(n + 1)
      /\ addChunkOrder'[n + 1] = c
      /\ \A k \in 1..n : addChunkOrder'[k] = addChunkOrder[k]
  BY <1>1, <1>3, AppendProperties, LenProperties
\* The chunks
<1>5. PICK p \in 1..(n + 1) : chunks' = InsertAt(chunks, p, c)
  <2>1. CASE index = None /\ chunks' = Append(chunks, c)
    <3>1. chunks' = InsertAt(chunks, n + 1, c)
      BY <1>1, <2>1, AppendIsInsertAt
    <3> QED BY <1>2, <3>1
  <2>2. CASE index # None /\ chunks' = InsertAt(chunks, InsertPosition(index), c)
    <3>1. index \in Int
      BY <1>2, <2>2
    <3>2. InsertPosition(index) \in 1..(n + 1)
      BY <1>1, <3>1, InsertPositionInRange
    <3> QED BY <2>2, <3>2
  <2> QED BY <2>1, <2>2 DEF AddChunk, InsertChunk
<1>6. /\ chunks' \in Seq(S)
      /\ Len(chunks') = n + 1
      /\ Inserted(chunks', chunks, n, p, c)
  BY <1>1, <1>5, InsertAtInserts
<1>7. ToSet(chunks') = ToSet(chunks) \union {c}
  BY <1>1, <1>6, InsertedElements
\* The entries
<1>8. LET m == Len(fields) + 1
      IN  /\ fields' \in Seq([tag : ValidTag, idx : Nat]) /\ given' \in Seq(Chunk)
          /\ Len(fields') = m /\ Len(given') = m
          /\ DOMAIN fields' = DOMAIN fields \union {m}
          /\ fields'[m] = x /\ given'[m] = c
          /\ \A f \in DOMAIN fields : fields'[f] = fields[f] /\ given'[f] = given[f]
  <2> HIDE DEF n
  <2> QED BY <1>1, <1>3, EntryAppended
<1>9. fixChunkOrder' \in BOOLEAN
      /\ (~fixChunkOrder' => ~fixChunkOrder /\ chunks' = Append(chunks, c))
  <2>1. fixChunkOrder \in BOOLEAN
    BY DEF PySplitterInv, TypeOK
  <2>2. CASE UNCHANGED fixChunkOrder /\ chunks' = Append(chunks, c)
    BY <2>1, <2>2, Zenon
  <2>3. CASE fixChunkOrder' = TRUE
    BY <2>3, Zenon
  <2> QED BY <2>2, <2>3, Zenon DEF AddChunk, InsertChunk, FixNeeded
<1>10. TypeOK'
  BY <1>4, <1>6, <1>8, <1>9 DEF PySplitterInv, TypeOK, AddChunk
<1>11. OrdersInv'
  BY <1>1, <1>3, <1>4, <1>6, <1>9 DEF OrdersInv
<1>12. IdsResolve'
  <2>1. ASSUME NEW f \in DOMAIN fields'
        PROVE  /\ fields'[f].idx < Len(addChunkOrder')
               /\ addChunkOrder'[fields'[f].idx + 1] = given'[f]
    <3>1. CASE f \in DOMAIN fields
      <4>1. /\ fields'[f] = fields[f] /\ given'[f] = given[f]
        BY <1>8, <3>1
      <4>2. fields[f].idx \in Nat
        <5>1. fields[f] \in [tag : ValidTag, idx : Nat]
          BY <1>1, <3>1, LenProperties
        <5> QED BY <5>1
      <4>3. fields[f].idx < n /\ addChunkOrder[fields[f].idx + 1] = given[f]
        BY <1>1, <3>1 DEF PySplitterInv, IdsResolve
      <4>4. fields[f].idx + 1 \in 1..n
        BY <1>2, <4>2, <4>3
      <4>5. addChunkOrder'[fields[f].idx + 1] = given[f]
        BY <1>4, <4>3, <4>4
      <4>6. fields[f].idx < Len(addChunkOrder')
        BY <1>2, <1>4, <4>2, <4>3
      <4> QED BY <4>1, <4>5, <4>6, Zenon
    <3>2. CASE f = Len(fields) + 1
      BY <1>2, <1>3, <1>4, <1>8, <3>2
    <3> QED BY <1>8, <3>1, <3>2
  <2>2. ASSUME NEW k \in DOMAIN addChunkOrder'
        PROVE  addChunkOrder'[k] \in ToSet(chunks')
    <3>1. CASE k \in 1..n
      <4>1. addChunkOrder[k] \in ToSet(chunks)
        BY <1>2, <3>1 DEF PySplitterInv, IdsResolve
      <4> QED BY <1>4, <1>7, <3>1, <4>1
    <3>2. CASE k = n + 1
      BY <1>4, <1>7, <3>2
    <3> QED BY <1>2, <1>4, <3>1, <3>2
  <2> QED BY <2>1, <2>2 DEF IdsResolve
<1>13. EntriesResolve'
  BY <1>11, <1>12 DEF OrdersInv, IdsResolve, EntriesResolve, LeadsTo
<1>14. (splitting => ~built)'
  BY DEF AddChunk, PySplitterInv
<1> QED BY <1>5, <1>8, <1>10, <1>11, <1>12, <1>13, <1>14 DEF PySplitterInv

\* Fixing puts an object's position where its id was.
LEMMA SplitFinishInv ==
    ASSUME PySplitterInv, SplitFinish
    PROVE  /\ PySplitterInv'
           /\ ~built /\ built' = TRUE
           /\ UNCHANGED <<chunks, rootIdx, given>>
           /\ DOMAIN fields' = DOMAIN fields
           /\ \A f \in DOMAIN fields : fields'[f].tag = fields[f].tag
<1>1. /\ ~built /\ built' = TRUE /\ splitting' = FALSE /\ ret' = "OK"
      /\ UNCHANGED <<chunks, rootIdx, given>> /\ FixChunks
  BY DEF SplitFinish, PySplitterInv
<1>2. CASE ~fixChunkOrder
  <2>1. UNCHANGED <<fields, addChunkOrder, fixChunkOrder>>
    BY <1>1, <1>2 DEF FixChunks
  <2>2. PySplitterInv'
    BY <1>1, <1>2, <2>1
       DEF PySplitterInv, TypeOK, OrdersInv, IdsResolve, EntriesResolve, LeadsTo
  <2> QED BY <1>1, <2>1, <2>2
<1>3. CASE fixChunkOrder
  <2> DEFINE Fixed(e) == [e EXCEPT !.idx = ChunkIndices(ChunkAddr(@))]
  <2>1. /\ fields' = [f \in DOMAIN fields |-> Fixed(fields[f])]
        /\ addChunkOrder' = chunks /\ fixChunkOrder' = FALSE
    BY <1>1, <1>3 DEF FixChunks, OrderAfterFix
  <2>2. /\ fields \in Seq([tag : ValidTag, idx : Nat])
        /\ chunks \in Seq(Chunk \union {Base})
        /\ Len(addChunkOrder) = Len(chunks) /\ Len(given) = Len(fields)
        /\ Len(fields) \in Nat /\ DOMAIN fields = 1..Len(fields)
        /\ Len(chunks) \in Nat /\ DOMAIN addChunkOrder = 1..Len(chunks)
        /\ DOMAIN chunks = 1..Len(chunks)
    BY LenProperties DEF PySplitterInv, TypeOK, OrdersInv
  <2>3. ASSUME NEW f \in DOMAIN fields
        PROVE  /\ Fixed(fields[f]) \in [tag : ValidTag, idx : Nat]
               /\ Fixed(fields[f]).tag = fields[f].tag
               /\ LeadsTo(Fixed(fields[f]).idx, given[f])
    <3> DEFINE k == fields[f].idx
    <3>1. fields[f] \in [tag : ValidTag, idx : Nat]
      BY <2>2, ElementOfSeq
    <3>2. k \in Nat /\ k < Len(addChunkOrder) /\ addChunkOrder[k + 1] = given[f]
      BY <3>1 DEF PySplitterInv, IdsResolve
    <3>3. k + 1 \in DOMAIN addChunkOrder
      BY <2>2, <3>2
    <3>4. given[f] \in ToSet(chunks)
      BY <3>2, <3>3 DEF PySplitterInv, IdsResolve
    <3>5. ChunkAddr(k) = given[f]
      BY <3>2 DEF ChunkAddr
    <3>6. ChunkIndices(given[f]) \in Nat /\ LeadsTo(ChunkIndices(given[f]), given[f])
      BY <2>2, <3>4, ChunkIndicesFinds
    <3> DEFINE i == ChunkIndices(given[f])
    <3>7. Fixed(fields[f]) = [fields[f] EXCEPT !.idx = i]
      BY <3>5
    <3> HIDE DEF i, Fixed
    <3>8. /\ [fields[f] EXCEPT !.idx = i] \in [tag : ValidTag, idx : Nat]
          /\ [fields[f] EXCEPT !.idx = i].tag = fields[f].tag
          /\ [fields[f] EXCEPT !.idx = i].idx = i
      BY <3>1, <3>6 DEF i
    <3> QED BY <3>6, <3>7, <3>8 DEF i
  <2> HIDE DEF Fixed
  <2>4. fields' \in Seq([tag : ValidTag, idx : Nat])
    <3>1. fields' \in [1..Len(fields) -> [tag : ValidTag, idx : Nat]]
      BY <2>1, <2>2, <2>3
    <3> QED BY <2>2, <3>1, SeqDef
  <2>5. /\ DOMAIN fields' = DOMAIN fields /\ Len(fields') = Len(fields)
        /\ \A f \in DOMAIN fields : /\ fields'[f].tag = fields[f].tag
                                    /\ LeadsTo(fields'[f].idx, given[f])
    BY <2>1, <2>2, <2>3, <2>4, LenProperties
  <2>6. TypeOK'
    BY <1>1, <2>1, <2>2, <2>4 DEF PySplitterInv, TypeOK
  <2>7. OrdersInv'
    BY <1>1, <2>1 DEF OrdersInv
  <2>8. IdsResolve'
    <3>1. \A k \in DOMAIN chunks : chunks[k] \in ToSet(chunks)
      BY DEF ToSet
    <3> QED BY <1>1, <2>1, <2>5, <3>1 DEF IdsResolve, LeadsTo
  <2>9. EntriesResolve'
    BY <1>1, <2>5 DEF EntriesResolve, LeadsTo
  <2> QED BY <1>1, <2>2, <2>5, <2>6, <2>7, <2>8, <2>9 DEF PySplitterInv
<1> QED BY <1>2, <1>3

\* Every step keeps the invariant.
LEMMA StepInv == PySplitterInv /\ [Next]_vars => PySplitterInv'
<1> SUFFICES ASSUME PySplitterInv, [Next]_vars PROVE PySplitterInv'
  OBVIOUS
<1>1. built \in BOOLEAN /\ splitting \in BOOLEAN /\ (splitting => ~built)
      /\ ret \in {"None", "OK", "Error", "ValueError"}
  BY DEF PySplitterInv, TypeOK
<1>2. ASSUME NEW s \in Splitter, SplitChild(s) PROVE PySplitterInv'
  BY <1>1, <1>2, FrameInv DEF SplitChild
<1>3. CASE SplitBegin
  BY <1>1, <1>3, FrameInv DEF SplitBegin
<1>4. CASE SplitAgain
  BY <1>1, <1>4, FrameInv DEF SplitAgain, FieldsReturned, lists
<1>5. CASE BuildChunksRaises
  BY <1>1, <1>5, FrameInv DEF BuildChunksRaises
<1>6. CASE SplitFinish
  BY <1>6, SplitFinishInv
<1>7. ASSUME NEW s \in Splitter, NEW c \in Chunk, NEW t \in RelTag,
             NEW index \in {None} \union (-2)..(Len(chunks) + 1),
             AddChunk(s, c, t, index)
      PROVE  PySplitterInv'
  BY <1>7, AddChunkInv
<1>8. ASSUME NEW s \in Splitter, NEW t \in RelTag, AddChunkRaises(s, t)
      PROVE  PySplitterInv'
  BY <1>1, <1>8, FrameInv DEF AddChunkRaises
<1>9. CASE UNCHANGED vars
  BY <1>1, <1>9, FrameInv DEF vars
<1> QED BY <1>2, <1>3, <1>4, <1>5, <1>6, <1>7, <1>8, <1>9, Zenon DEF Next

\* The ids lead to the objects, the positions too unless something was inserted since,
\* and nothing is being split that has been split before.
THEOREM Invariance == Spec => []PySplitterInv
BY InitInv, StepInv, PTL DEF Spec

\* Every variable has its type: an entry has a tag that leads somewhere in the root's
\* message and an index that is no negative number, whatever the insertion indices are.
THEOREM Typing == Spec => []TypeOK
<1>1. PySplitterInv => TypeOK
  BY DEF PySplitterInv
<1> QED BY <1>1, Invariance, PTL

\* An entry's index finds its object through the ids at any time, and every id is that
\* of an object in the list: the assertion in _fix_chunks (split.py:276) cannot fail.
THEOREM IdsAlwaysResolve == Spec => []IdsResolve
<1>1. PySplitterInv => IdsResolve
  BY DEF PySplitterInv
<1> QED BY <1>1, Invariance, PTL

\* After split, and until something is inserted, every entry leads to the object it was
\* added for, for any insertion indices and although an object may be there twice.
THEOREM EntriesAlwaysResolve == Spec => []EntriesResolve
<1>1. PySplitterInv => EntriesResolve
  BY DEF PySplitterInv
<1> QED BY <1>1, Invariance, PTL

------------------------------------------------------------------------------
(* What the steps do to the entries. *)

\* What split has returned stays as it is: later calls add entries behind it, and
\* _fix_chunks never runs again.
THEOREM ReturnedEntriesKept == Spec => ReturnedEntriesStable
<1>1. PySplitterInv /\ [Next]_vars => [built => IsPrefix(fields, fields')]_vars
  <2> SUFFICES ASSUME PySplitterInv, Next, built
               PROVE  IsPrefix(fields, fields')
    BY Zenon DEF PySplitterInv
  <2> DEFINE Entry == [tag : ValidTag, idx : Nat]
  <2>1. fields \in Seq(Entry)
    BY DEF PySplitterInv, TypeOK
  <2>2. CASE fields' = fields
    <3>1. CASE fields = <<>>
      BY <2>2, <3>1 DEF IsPrefix
    <3>2. CASE fields # <<>>
      <4>1. PICK x \in Entry : TRUE
        BY <2>1, <3>2, HeadTailProperties
      <4> QED BY <2>1, <2>2, <4>1, AppendKeepsPrefix
    <3> QED BY <3>1, <3>2
  <2>3. ASSUME NEW s \in Splitter, NEW c \in Chunk, NEW t \in RelTag,
               NEW index \in {None} \union (-2)..(Len(chunks) + 1),
               AddChunk(s, c, t, index)
        PROVE  IsPrefix(fields, fields')
    <3> DEFINE x == [tag |-> Path[s] \o t, idx |-> Len(chunks)]
    <3>1. chunks \in Seq(Chunk \union {Base})
      BY DEF PySplitterInv, TypeOK
    <3>2. fields' = Append(fields, x) /\ x \in Entry
      BY <2>3, <3>1, LenProperties DEF AddChunk, Resolves
    <3> HIDE DEF x, Entry
    <3> QED BY <2>1, <3>2, AppendKeepsPrefix
  <2>4. ~SplitFinish /\ ~SplitBegin
    BY DEF SplitFinish, SplitBegin, PySplitterInv
  <2> QED BY <2>2, <2>3, <2>4 DEF Next, SplitChild, SplitAgain, FieldsReturned,
             BuildChunksRaises, AddChunkRaises, lists
<1> QED BY <1>1, Invariance, PTL DEF Spec, ReturnedEntriesStable

------------------------------------------------------------------------------
(* The splitter implements ChunkStore. *)

\* The entries as ChunkStore sees them, and as they were given.
Resolved == [f \in DOMAIN fields |->
                [tag |-> fields[f].tag, chunk |-> Resolve(fields[f].idx)]]

Promised == [f \in DOMAIN fields |-> [tag |-> fields[f].tag, chunk |-> given[f]]]

AsPromised == Resolved = Promised

ResolvedBase == IF rootIdx = None THEN None ELSE Resolve(rootIdx)

\* By its id or its position, an entry means the object it was added for.
LEMMA ResolvedAsPromised == PySplitterInv => AsPromised
<1> SUFFICES ASSUME PySplitterInv PROVE Resolved = Promised
  BY DEF AsPromised
<1>1. ASSUME NEW f \in DOMAIN fields
      PROVE  Resolve(fields[f].idx) = given[f]
  <2>1. CASE built /\ ~fixChunkOrder
    BY <2>1 DEF PySplitterInv, EntriesResolve, LeadsTo, Resolve, At
  <2>2. CASE ~(built /\ ~fixChunkOrder)
    BY <2>2 DEF PySplitterInv, IdsResolve, Resolve, At
  <2> QED BY <2>1, <2>2
<1> QED BY <1>1 DEF Resolved, Promised

\* The same of the next state.
LEMMA ResolvedAsPromisedNext == PySplitterInv' => AsPromised'
BY ResolvedAsPromised, PTL

\* A place that is named through a splitter is one of the root's message.
LEMMA PlaceIsAbsTag ==
    ASSUME NEW s \in Splitter, NEW t \in RelTag
    PROVE  Path[s] \o t \in AbsTag
<1> DEFINE Place(r, u) == Path[r] \o u
<1> HIDE DEF Splitter
<1>1. AbsTag = {Place(r, u) : r \in Splitter, u \in RelTag}
  BY DEF AbsTag
<1> HIDE DEF Place
<1>2. Place(s, t) \in AbsTag
  BY <1>1, SMT
<1> QED BY <1>2 DEF Place

\* add_chunk gives the entry the next number.
LEMMA AddChunkPromises ==
    ASSUME PySplitterInv, NEW s \in Splitter, NEW c \in Chunk, NEW t \in RelTag,
           NEW index \in {None} \union (-2)..(Len(chunks) + 1),
           AddChunk(s, c, t, index)
    PROVE  LET n == Len(fields) + 1
           IN  /\ n \in 1..MaxFields
               /\ \A k \in DOMAIN Promised : k < n
               /\ Promised' = [k \in DOMAIN Promised \union {n} |->
                                 IF k = n THEN [tag |-> Path[s] \o t, chunk |-> c]
                                 ELSE Promised[k]]
<1> DEFINE n == Len(fields) + 1
           x == [tag |-> Path[s] \o t, idx |-> Len(chunks)]
           g == [tag |-> Path[s] \o t, chunk |-> c]
<1>1. /\ fields \in Seq([tag : ValidTag, idx : Nat]) /\ given \in Seq(Chunk)
      /\ Len(given) = Len(fields) /\ Len(chunks) \in Nat /\ Len(fields) \in Nat
      /\ DOMAIN fields = 1..Len(fields)
  BY LenProperties DEF PySplitterInv, TypeOK
<1>2. /\ fields' = Append(fields, x) /\ given' = Append(given, c)
      /\ x \in [tag : ValidTag, idx : Nat]
      /\ Len(fields) < MaxFields
  BY <1>1 DEF AddChunk, Resolves
<1>3. x.tag = g.tag /\ g = [tag |-> x.tag, chunk |-> c]
  OBVIOUS
<1>4. n \in 1..MaxFields
  BY <1>1, <1>2, PyAssumption
<1> HIDE DEF x
<1>5. /\ DOMAIN fields' = DOMAIN fields \union {n} /\ n \notin DOMAIN fields
      /\ fields'[n] = x /\ given'[n] = c
      /\ \A f \in DOMAIN fields : fields'[f] = fields[f] /\ given'[f] = given[f]
  BY <1>1, <1>2, EntryAppended
<1>6. DOMAIN Promised = DOMAIN fields
  BY DEF Promised
<1>7. \A k \in DOMAIN Promised : k < n /\ k # n
  BY <1>1, <1>6
<1> HIDE DEF g, n
<1>8. Promised' = [k \in DOMAIN Promised \union {n} |-> IF k = n THEN g ELSE Promised[k]]
  <2>1. Promised' = [k \in DOMAIN Promised \union {n} |->
                       [tag |-> fields'[k].tag, chunk |-> given'[k]]]
    BY <1>5, <1>6 DEF Promised
  <2>2. \A k \in DOMAIN Promised :
           Promised[k] = [tag |-> fields'[k].tag, chunk |-> given'[k]]
    BY <1>5, <1>6 DEF Promised
  <2>3. g = [tag |-> fields'[n].tag, chunk |-> given'[n]]
    BY <1>3, <1>5
  <2> QED BY <1>7, <2>1, <2>2, <2>3
<1> QED BY <1>4, <1>7, <1>8 DEF g, n

\* Every step is a step of ChunkStore or none.
LEMMA NextRefines ==
    PySplitterInv /\ PySplitterInv' /\ [Next]_vars /\ rootIdx = None
        => [Store!Next]_Store!storeVars
<1> SUFFICES ASSUME PySplitterInv, PySplitterInv', [Next]_vars, rootIdx = None
             PROVE  Store!Next \/ UNCHANGED Store!storeVars
  BY Zenon
<1>1. Resolved = Promised /\ Resolved' = Promised'
  BY ResolvedAsPromised, ResolvedAsPromisedNext DEF AsPromised
<1>2. ResolvedBase = None /\ (rootIdx' = rootIdx => ResolvedBase' = None)
  BY DEF ResolvedBase
<1>3. ASSUME UNCHANGED <<built, chunks, fields, given, rootIdx>>
      PROVE  UNCHANGED Store!storeVars
  <2>1. Promised' = Promised
    BY <1>3 DEF Promised
  <2>2. UNCHANGED <<chunks, Resolved, ResolvedBase, built>>
    BY <1>1, <1>2, <1>3, <2>1
  <2> QED BY <2>2, Zenon DEF Store!storeVars, Resolved, ResolvedBase
<1>4. ASSUME NEW s \in Splitter, NEW c \in Chunk, NEW t \in RelTag,
             NEW index \in {None} \union (-2)..(Len(chunks) + 1),
             AddChunk(s, c, t, index)
      PROVE  Store!Next
  <2>1. \E n \in 1..MaxFields :
           /\ \A k \in DOMAIN Resolved : k < n
           /\ Resolved' = [k \in DOMAIN Resolved \union {n} |->
                             IF k = n THEN [tag |-> Path[s] \o t, chunk |-> c]
                             ELSE Resolved[k]]
    <3> DEFINE n == Len(fields) + 1
    <3>1. /\ n \in 1..MaxFields
          /\ \A k \in DOMAIN Promised : k < n
          /\ Promised' = [k \in DOMAIN Promised \union {n} |->
                            IF k = n THEN [tag |-> Path[s] \o t, chunk |-> c]
                            ELSE Promised[k]]
      BY <1>4, AddChunkPromises
    <3> HIDE DEF n
    <3> QED BY <1>1, <3>1, Zenon
  <2>2. \E p \in 1..(Len(chunks) + 1) : chunks' = InsertAt(chunks, p, c)
    BY <1>4, AddChunkInv, Zenon
  <2>3. UNCHANGED <<ResolvedBase, built>>
    BY <1>2, <1>4 DEF AddChunk
  <2>4. \A i, d : Store!InsertAt(chunks, i, d) = InsertAt(chunks, i, d)
    BY Zenon DEF InsertAt, Store!InsertAt
  <2>5. Path[s] \o t \in AbsTag
    BY PlaceIsAbsTag
  <2>6. Store!Add(Path[s] \o t, c)
    BY <2>1, <2>2, <2>3, <2>4, Zenon DEF Store!Add, Resolved, ResolvedBase
  <2> QED BY <2>5, <2>6, Zenon DEF Store!Next
<1>5. CASE SplitFinish
  <2>1. /\ ~built /\ built' = TRUE
        /\ UNCHANGED <<chunks, rootIdx, given>>
        /\ DOMAIN fields' = DOMAIN fields
        /\ \A f \in DOMAIN fields : fields'[f].tag = fields[f].tag
    BY <1>5, SplitFinishInv
  <2>2. Promised' = Promised
    BY <2>1 DEF Promised
  <2>3. UNCHANGED <<chunks, Resolved, ResolvedBase>>
    BY <1>1, <1>2, <2>1, <2>2
  <2> QED BY <2>1, <2>3, Zenon DEF Store!Next, Store!Return, Resolved, ResolvedBase
<1> QED BY <1>3, <1>4, <1>5 DEF Next, vars, lists, SplitChild, SplitBegin, SplitAgain,
           FieldsReturned, BuildChunksRaises, AddChunkRaises

\* Without an initial chunk the Python splitter keeps what a splitter promises
\* (ChunkStore): every entry names its object from the add_chunk that made it on, by an
\* id before split and by a position after it (split.py:255-290).
THEOREM SplitterImplementsStore == Spec => ImplementsStore
<1>1. Init => (rootIdx = None => Store!Init)
  <2> SUFFICES ASSUME Init, rootIdx = None PROVE Store!Init
    OBVIOUS
  <2>1. 0 # None
    BY PyAssumption
  <2>2. chunks = <<>> /\ fields = <<>> /\ built = FALSE
    BY <2>1 DEF Init
  <2>3. Resolved = <<>>
    BY <2>2 DEF Resolved
  <2>4. ResolvedBase = None
    BY DEF ResolvedBase
  <2> QED BY <2>2, <2>3, <2>4 DEF Store!Init, Resolved, ResolvedBase
<1>2. PySplitterInv /\ PySplitterInv' /\ [Next]_vars
         => [rootIdx = None => [Store!Next]_Store!storeVars]_vars
  BY NextRefines
<1> QED BY <1>1, <1>2, Invariance, PTL DEF Spec, ImplementsStore
=============================================================================
