--------------------------- MODULE CppStore_proofs ---------------------------
(***************************************************************************)
(* The C++ splitter implements ChunkStore, for every tree of splitters,    *)
(* every set of chunks and tags, and every number of AddChunk calls: until *)
(* somebody inserts a chunk after Split, each of its steps is a step of    *)
(* ChunkStore, or none.                                                    *)
(***************************************************************************)
EXTENDS CppSplitter_proofs

\* What the entries were added for: what ResolvedEntries is, without an index.
Promised ==
    [f \in {k \in DOMAIN fields : given[k] # None} |->
        [tag |-> given[f].tag, chunk |-> given[f].chunk]]

PromisedBase == IF rootIdx = None THEN None ELSE Base

ResolvedBase == IF rootIdx = None THEN None ELSE Resolve(rootIdx)

AsPromised == ResolvedEntries = Promised /\ ResolvedBase = PromisedBase

\* The chunk that has a key is found by Resolve.
LEMMA ResolveKeyed ==
    ASSUME TypeOK, OrdersInv, ~built, NEW k, NEW c, Keyed(k, c)
    PROVE  Resolve(k) = c
<1>1. PICK i \in 1..Len(chunks) : chunksOrder[i] = k /\ chunks[i] = c
  BY DEF Keyed
<1>2. Len(chunks) \in Nat /\ k \in 0..(Len(chunks) - 1)
  BY <1>1, LenProperties DEF TypeOK, OrdersInv
<1>3. addChunkOrder[k + 1] = k
  <2>1. k + 1 \in 1..Len(chunks) /\ (k + 1) - 1 = k
    BY <1>2
  <2>2. addChunkOrder[k + 1] = (k + 1) - 1
    BY <2>1 DEF OrdersInv
  <2> QED BY <2>1, <2>2
<1>4. ChunkIndices(k) = i - 1
  BY <1>1, ChunkIndicesFinds
<1>5. Resolve(k) = chunks[(i - 1) + 1]
  BY <1>3, <1>4 DEF Resolve
<1>6. (i - 1) + 1 = i
  BY <1>2
<1> QED BY <1>1, <1>5, <1>6

\* Keys before Split, positions after it: both lead to what was promised.
LEMMA ResolvedAsPromised == SplitterInv /\ ~Stale => AsPromised
<1> SUFFICES ASSUME SplitterInv, ~Stale PROVE AsPromised
  OBVIOUS
<1>1. TypeOK /\ OrdersInv /\ KeysInv /\ EntriesResolve /\ BaseResolves /\ TagsAreAbsolute
  BY DEF SplitterInv
<1>2. built \in BOOLEAN /\ (built => ~fixChunkOrder)
  BY <1>1 DEF TypeOK, Stale
<1>3. \A k, c : LeadsTo(k, c) /\ built => Resolve(k) = c
  BY DEF LeadsTo, Resolve
<1>4. \A f \in DOMAIN fields :
         given[f] # None => Resolve(fields[f].idx) = given[f].chunk
  <2>1. CASE built
    BY <1>1, <1>2, <1>3, <2>1 DEF EntriesResolve
  <2>2. CASE ~built
    BY <1>1, <2>2, ResolveKeyed DEF KeysInv
  <2> QED BY <2>1, <2>2
<1>5. rootIdx # None => Resolve(rootIdx) = Base
  <2>1. CASE built
    BY <1>1, <1>2, <1>3, <2>1 DEF BaseResolves
  <2>2. CASE ~built
    BY <1>1, <2>2, ResolveKeyed DEF KeysInv
  <2> QED BY <2>1, <2>2
<1>6. \A f \in DOMAIN fields : given[f] # None => fields[f].tag = given[f].tag
  BY <1>1 DEF TagsAreAbsolute
<1>7. ResolvedEntries = Promised
  <2> HIDE DEF Resolve
  <2> QED BY <1>4, <1>6 DEF ResolvedEntries, Promised
<1>8. ResolvedBase = PromisedBase
  BY <1>5 DEF ResolvedBase, PromisedBase
<1> QED BY <1>7, <1>8 DEF AsPromised

\* The same of the next state.
LEMMA ResolvedAsPromisedNext == SplitterInv' /\ ~Stale' => AsPromised'
BY ResolvedAsPromised, PTL

------------------------------------------------------------------------------
(* The call in progress. *)

\* What the caller meant is a place in the root's message, and there is a number left
\* for its entry.
CallInv == pending # None => pending.want \in AbsTag /\ Len(fields) < MaxFields

\* A place that is named through a splitter is one of the root's message.
LEMMA PlaceIsAbsTag ==
    ASSUME NEW s \in Splitter, NEW t \in RelTag
    PROVE  Path[s] \o t \in AbsTag
<1> DEFINE Place(r, u) == Path[r] \o u
<1> HIDE DEF Splitter
<1>1. AbsTag = {Place(r, u) : r \in Splitter, u \in RelTag}
  BY DEF AbsTag
<1> HIDE DEF Place
<1>2. Place(s, t) \in AbsTag
  BY <1>1, SMT
<1> QED BY <1>2 DEF Place

\* Only AddChunkCall, which checks both, begins a call, and passing it on changes neither.
LEMMA CallKept == TypeOK /\ CallInv /\ [Next]_vars => CallInv'
<1> SUFFICES ASSUME TypeOK, CallInv, [Next]_vars, pending' # None
             PROVE  pending'.want \in AbsTag /\ Len(fields') < MaxFields
  BY DEF CallInv
<1>1. CASE pending' = pending
  <2>1. pending # None
    BY <1>1
  <2>2. fields' = fields
    BY <2>1, <1>1 DEF Next, vars, bookkeeping, Idle, SplitChild, SplitBegin, SplitAgain,
       BuildChunksFails, SplitFinish, SetMessageAsBaseChunk, SetMessageAsBaseChunkFails,
       ChildSetMessageAsBaseChunk, AddChunkCall, AddChunkInParent, AddChunkBadTag, AddChunk
  <2> QED BY <1>1, <2>1, <2>2 DEF CallInv
<1>2. ASSUME NEW s \in Splitter, NEW c \in Chunk, NEW t \in RelTag,
             NEW index \in {None} \union 0..Len(chunks),
             AddChunkCall(s, c, t, index)
      PROVE  pending'.want \in AbsTag /\ Len(fields') < MaxFields
  <2>1. pending'.want = Path[s] \o t /\ fields' = fields /\ Len(fields) < MaxFields
    BY <1>2 DEF AddChunkCall, bookkeeping
  <2>2. Path[s] \o t \in AbsTag
    BY PlaceIsAbsTag
  <2>3. pending'.want \in AbsTag
    BY <2>1, <2>2, Zenon
  <2> QED BY <2>1, <2>3
<1>3. CASE AddChunkInParent
  <2>1. pending # None /\ fields' = fields
    BY <1>3 DEF AddChunkInParent, bookkeeping
  <2>2. pending \in CallType
    BY <2>1 DEF TypeOK
  <2>3. pending'.want = pending.want
    BY <1>3, <2>2 DEF AddChunkInParent, CallType
  <2> QED BY <2>1, <2>3 DEF CallInv
<1>4. \/ pending' = pending \/ AddChunkInParent
      \/ \E s \in Splitter, c \in Chunk, t \in RelTag,
            index \in {None} \union 0..Len(chunks) : AddChunkCall(s, c, t, index)
  BY DEF Next, vars, SplitChild, SplitBegin, SplitAgain, BuildChunksFails, SplitFinish,
         SetMessageAsBaseChunk, SetMessageAsBaseChunkFails, ChildSetMessageAsBaseChunk,
         AddChunkBadTag, AddChunk
<1> QED BY <1>1, <1>2, <1>3, <1>4

------------------------------------------------------------------------------
(* What the steps do to what was promised. *)

\* Stale indices stay stale.
LEMMA StaleStays == SplitterInv /\ [Next]_vars /\ Stale => Stale'
<1> SUFFICES ASSUME SplitterInv, [Next]_vars, Stale PROVE Stale'
  OBVIOUS
<1>1. built /\ fixChunkOrder /\ ~splitting
  BY DEF Stale, SplitterInv
<1>2. ~SplitFinish
  BY <1>1 DEF SplitFinish
<1>3. built' /\ fixChunkOrder'
  BY <1>1, <1>2 DEF Next, vars, bookkeeping, SplitChild, SplitBegin, SplitAgain,
     BuildChunksFails, SetMessageAsBaseChunk, SetMessageAsBaseChunkFails,
     ChildSetMessageAsBaseChunk, AddChunkCall, AddChunkInParent, AddChunkBadTag, AddChunk
<1> QED BY <1>3 DEF Stale

\* An AddChunk that succeeds gives the entry the next number.
LEMMA AddChunkPromises ==
    ASSUME SplitterInv, CallInv, AddChunk
    PROVE  /\ pending.want \in AbsTag /\ pending.chunk \in Chunk
           /\ \E i \in 1..(Len(chunks) + 1) : chunks' = InsertAt(chunks, i, pending.chunk)
           /\ LET n == Len(fields) + 1
              IN  /\ n \in 1..MaxFields
                  /\ \A k \in DOMAIN Promised : k < n
                  /\ Promised' = [k \in DOMAIN Promised \union {n} |->
                                    IF k = n THEN [tag |-> pending.want, chunk |-> pending.chunk]
                                    ELSE Promised[k]]
           /\ UNCHANGED <<PromisedBase, built>>
<1> DEFINE n == Len(fields) + 1
           g == [tag |-> pending.want, chunk |-> pending.chunk]
<1>1. /\ pending # None /\ pending \in CallType
      /\ chunks \in Seq(Chunk \union {Base})
      /\ fields \in Seq(FieldType) /\ given \in Seq(GivenType)
      /\ Len(given) = Len(fields)
  BY DEF AddChunk, SplitterInv, TypeOK
<1>2. pending.want \in AbsTag /\ pending.chunk \in Chunk /\ Len(fields) < MaxFields
  BY <1>1 DEF CallInv, CallType
<1>3. \E i \in 1..(Len(chunks) + 1) : chunks' = InsertAt(chunks, i, pending.chunk)
  <2>1. Len(chunks) \in Nat
    BY <1>1, LenProperties
  <2>2. CASE pending.index = None
    <3>1. chunks' = Append(chunks, pending.chunk)
      BY <2>2 DEF AddChunk
    <3>2. pending.chunk \in Chunk \union {Base}
      BY <1>2
    <3>3. chunks' = InsertAt(chunks, Len(chunks) + 1, pending.chunk)
      BY <1>1, <3>1, <3>2, AppendIsInsertAt, Zenon
    <3> QED BY <2>1, <3>3
  <2>3. CASE pending.index # None
    <3>1. pending.index \in 0..Len(chunks)
      BY <1>1, <2>3 DEF SplitterInv, PendingInv
    <3>2. pending.index + 1 \in 1..(Len(chunks) + 1)
      BY <2>1, <3>1
    <3>3. chunks' = InsertAt(chunks, pending.index + 1, pending.chunk)
      BY <2>3 DEF AddChunk
    <3> QED BY <3>2, <3>3
  <2> QED BY <2>2, <2>3
<1>4. n \in 1..MaxFields /\ DOMAIN fields = 1..Len(fields) /\ Len(fields) \in Nat
  BY <1>1, <1>2, LenProperties, BoundAssumption
<1>5. g # None
  <2>1. g \in [tag : Seq(STRING), chunk : Chunk]
    BY <1>1 DEF CallType
  <2> QED BY ChunkAssumption, <2>1
<1>6. /\ DOMAIN fields' = DOMAIN fields \union {n}
      /\ \A f \in DOMAIN fields : given'[f] = given[f]
      /\ given'[n] = g
  <2>1. given' = Append(given, g) /\ g \in GivenType
    BY <1>1 DEF AddChunk, CallType, GivenType
  <2>2. [tag |-> pending.tag, idx |-> Len(chunks)] \in FieldType
    BY <1>1, LenProperties DEF CallType, FieldType
  <2>3. Len(fields') = n /\ DOMAIN fields' = 1..n
    BY <1>1, <1>4, <2>2, AppendProperties, LenProperties DEF AddChunk
  <2> HIDE DEF g
  <2> QED BY <1>1, <1>4, <2>1, <2>3, AppendProperties
<1>7. DOMAIN Promised = {k \in DOMAIN fields : given[k] # None}
  BY DEF Promised
<1>8. {k \in DOMAIN fields' : given'[k] # None} = DOMAIN Promised \union {n}
  <2> HIDE DEF g, n
  <2> QED BY <1>5, <1>6, <1>7
<1>9. \A k \in DOMAIN Promised : k < n
  BY <1>4, <1>7
<1>10. Promised' = [k \in DOMAIN Promised \union {n} |->
                      IF k = n THEN g ELSE Promised[k]]
  <2>1. Promised' = [k \in DOMAIN Promised \union {n} |->
                       [tag |-> given'[k].tag, chunk |-> given'[k].chunk]]
    BY <1>8 DEF Promised
  <2>2. \A k \in DOMAIN Promised :
           /\ k # n
           /\ Promised[k] = [tag |-> given'[k].tag, chunk |-> given'[k].chunk]
    <3>1. \A k \in DOMAIN Promised :
             Promised[k] = [tag |-> given[k].tag, chunk |-> given[k].chunk]
      BY DEF Promised
    <3> QED BY <1>4, <1>6, <1>7, <1>9, <3>1
  <2>3. g = [tag |-> given'[n].tag, chunk |-> given'[n].chunk]
    BY <1>6
  <2> HIDE DEF g, n
  <2> QED BY <2>1, <2>2, <2>3
<1>11. UNCHANGED <<PromisedBase, built>>
  BY DEF AddChunk, PromisedBase
<1> QED BY <1>2, <1>3, <1>4, <1>9, <1>10, <1>11

\* The message becomes the base chunk while nothing has been promised.
LEMMA SetMessageAsBaseChunkPromises ==
    ASSUME SplitterInv, ~Stale, SetMessageAsBaseChunk
    PROVE  /\ chunks = <<>> /\ chunks' = <<Base>>
           /\ PromisedBase' = Base
           /\ UNCHANGED <<Promised, built>>
<1>1. UNCHANGED <<fields, given, built>> /\ chunks = <<>> /\ chunks' = <<Base>> /\ rootIdx' = 0
  BY DEF SetMessageAsBaseChunk
<1>2. 0 # None
  BY ChunkAssumption
<1> QED BY <1>1, <1>2 DEF Promised, PromisedBase

\* FixChunks changes how chunks are named and never which.
LEMMA SplitFinishPromises ==
    ASSUME SplitterInv, SplitFinish
    PROVE  /\ ~built /\ built'
           /\ UNCHANGED <<chunks, Promised, PromisedBase>>
<1>1. ~built /\ built' /\ UNCHANGED <<chunks, given>>
  BY DEF SplitFinish, SplitterInv
<1>2. DOMAIN fields' = DOMAIN fields
  BY DEF SplitFinish, FixChunks, FixedRootIdx
<1>3. rootIdx' = None <=> rootIdx = None
  <2>1. TypeOK /\ BookInv
    BY DEF SplitterInv, BookInv
  <2>2. BaseResolves' /\ BaseResolves
    BY <1>1, <2>1, SplitFinishKeeps DEF BookInv
  <2> QED BY <1>1, <2>2 DEF BaseResolves
<1>4. Promised' = Promised
  BY <1>1, <1>2 DEF Promised
<1> QED BY <1>1, <1>3, <1>4 DEF PromisedBase

\* The other steps promise nothing; an entry left behind by an AddChunk that failed
\* has no number among the promised ones.
LEMMA OthersPromiseNothing ==
    ASSUME SplitterInv, [Next]_vars, ~AddChunk, ~SetMessageAsBaseChunk, ~SplitFinish
    PROVE  UNCHANGED <<chunks, Promised, PromisedBase, built>>
<1>1. CASE UNCHANGED <<built, bookkeeping>>
  BY <1>1 DEF bookkeeping, Promised, PromisedBase
<1>2. CASE AddChunkBadTag
  <2> DEFINE n == Len(fields) + 1
             x == [tag |-> None, idx |-> Len(chunks)]
  <2>1. /\ fields \in Seq(FieldType) /\ given \in Seq(GivenType)
        /\ Len(given) = Len(fields) /\ Len(fields) \in Nat
        /\ DOMAIN fields = 1..Len(fields)
    BY LenProperties DEF SplitterInv, TypeOK
  <2>2. x \in FieldType /\ None \in GivenType
    BY LenProperties DEF SplitterInv, TypeOK, FieldType, GivenType
  <2>3. fields' = Append(fields, x) /\ given' = Append(given, None)
    BY <1>2 DEF AddChunkBadTag, FieldsLeft
  <2>4. DOMAIN fields' = 1..n
    <3> HIDE DEF x
    <3> QED BY <2>1, <2>2, <2>3, AppendProperties, LenProperties
  <2>5. given'[n] = None /\ \A f \in DOMAIN fields : given'[f] = given[f]
    BY <2>1, <2>2, <2>3, AppendProperties
  <2>6. {k \in DOMAIN fields' : given'[k] # None} = {k \in DOMAIN fields : given[k] # None}
    BY <2>1, <2>4, <2>5
  <2>7. Promised' = Promised
    BY <2>5, <2>6 DEF Promised
  <2> QED BY <1>2, <2>7 DEF AddChunkBadTag, PromisedBase
<1>3. UNCHANGED <<built, bookkeeping>> \/ AddChunkBadTag
  BY DEF Next, vars, SplitChild, SplitBegin, SplitAgain, BuildChunksFails,
         SetMessageAsBaseChunkFails, ChildSetMessageAsBaseChunk, AddChunkCall,
         AddChunkInParent
<1> QED BY <1>1, <1>2, <1>3

------------------------------------------------------------------------------
(* Refinement *)

\* The initial states are initial states of ChunkStore.
LEMMA InitRefines == Init => Store!Init
<1> SUFFICES ASSUME Init PROVE Store!Init
  OBVIOUS
<1>1. chunks = <<>> /\ fields = <<>> /\ rootIdx = None /\ built = FALSE
  BY DEF Init
<1>2. ResolvedEntries = <<>>
  BY <1>1 DEF ResolvedEntries
<1> QED BY <1>1, <1>2 DEF Store!Init

\* Every step that does not leave stale indices behind is a step of ChunkStore or none.
LEMMA NextRefines ==
    SplitterInv /\ SplitterInv' /\ CallInv /\ [Next]_vars /\ ~Stale'
        => [Store!Next]_Store!storeVars
<1> SUFFICES ASSUME SplitterInv, SplitterInv', CallInv, [Next]_vars, ~Stale'
             PROVE  Store!Next \/ UNCHANGED Store!storeVars
  BY Zenon
<1>1. ~Stale
  BY StaleStays
<1>2. /\ ResolvedEntries = Promised /\ ResolvedEntries' = Promised'
      /\ ResolvedBase = PromisedBase /\ ResolvedBase' = PromisedBase'
  BY <1>1, ResolvedAsPromised, ResolvedAsPromisedNext DEF AsPromised
<1>3. CASE AddChunk
  <2>1. \E n \in 1..MaxFields :
           /\ \A k \in DOMAIN ResolvedEntries : k < n
           /\ ResolvedEntries' = [k \in DOMAIN ResolvedEntries \union {n} |->
                 IF k = n THEN [tag |-> pending.want, chunk |-> pending.chunk]
                 ELSE ResolvedEntries[k]]
    BY <1>2, <1>3, AddChunkPromises, Zenon
  <2>2. /\ \E i \in 1..(Len(chunks) + 1) : chunks' = InsertAt(chunks, i, pending.chunk)
        /\ UNCHANGED <<ResolvedBase, built>>
        /\ pending.want \in AbsTag /\ pending.chunk \in Chunk
    BY <1>2, <1>3, AddChunkPromises, Zenon
  <2>3. \A i, c : Store!InsertAt(chunks, i, c) = InsertAt(chunks, i, c)
    BY Zenon DEF InsertAt, Store!InsertAt
  <2>4. Store!Add(pending.want, pending.chunk)
    BY <2>1, <2>2, <2>3, Zenon DEF Store!Add, ResolvedBase
  <2> QED BY <2>2, <2>4, Zenon DEF Store!Next
<1>4. CASE SetMessageAsBaseChunk
  <2>1. /\ chunks = <<>> /\ chunks' = <<Base>> /\ ResolvedBase' = Base
        /\ UNCHANGED <<ResolvedEntries, built>>
    BY <1>1, <1>2, <1>4, SetMessageAsBaseChunkPromises, Zenon
  <2> QED BY <2>1, Zenon DEF Store!Next, Store!SetBase, ResolvedBase
<1>5. CASE SplitFinish
  <2>1. built \in BOOLEAN /\ built' \in BOOLEAN
    BY DEF SplitterInv, TypeOK
  <2>2. ~built /\ built' = TRUE /\ UNCHANGED <<chunks, ResolvedEntries, ResolvedBase>>
    BY <1>2, <1>5, <2>1, SplitFinishPromises, Zenon
  <2> QED BY <2>2, Zenon DEF Store!Next, Store!Return, ResolvedBase
<1>6. CASE ~AddChunk /\ ~SetMessageAsBaseChunk /\ ~SplitFinish
  <2>1. UNCHANGED <<chunks, ResolvedEntries, ResolvedBase, built>>
    BY <1>2, <1>6, OthersPromiseNothing, Zenon
  <2> QED BY <2>1, Zenon DEF Store!storeVars, ResolvedBase
<1> QED BY <1>3, <1>4, <1>5, <1>6

\* The C++ splitter keeps what a splitter promises (ChunkStore): as long as nobody
\* inserts a chunk after Split, every entry names its chunk from the AddChunk that made
\* it on, through insertions, failed builders and FixChunks
\* (cc/composable_splitter_base.cc:86-108, 241-312).
THEOREM SplitterImplementsStore == Spec => ImplementsStore
<1>1. Init => Store!Init
  BY InitRefines
<1>2. Init => CallInv
  BY DEF Init, CallInv
<1>3. SplitterInv /\ CallInv /\ [Next]_vars => CallInv'
  BY CallKept DEF SplitterInv
<1>4. SplitterInv /\ SplitterInv' /\ CallInv /\ [Next]_vars
         => [~Stale' => [Store!Next]_Store!storeVars]_vars
  BY NextRefines
<1> QED BY <1>1, <1>2, <1>3, <1>4, Invariance, PTL DEF Spec, ImplementsStore
=============================================================================
