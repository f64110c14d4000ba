------------------------- MODULE CppSplitter_proofs -------------------------
(***************************************************************************)
(* Proofs about CppSplitter, for every tree of splitters, every set of     *)
(* chunks and tags, and every number of AddChunk calls: the entries a      *)
(* successful Split returns lead to the chunks they were added for.        *)
(***************************************************************************)
EXTENDS CppSplitter, SequenceLemmas

------------------------------------------------------------------------------
(* OrdersInv and Keyed, for any sequences of n elements. *)

Orders(n, co, ao) ==
    /\ \A i \in 1..n : ao[i] = i - 1
    /\ \A i \in 1..n : co[i] \in 0..(n - 1)
    /\ \A i, j \in 1..n : co[i] = co[j] => i = j
    /\ \A k \in 0..(n - 1) : \E i \in 1..n : co[i] = k

HasKey(n, cs, co, k, c) == \E i \in 1..n : co[i] = k /\ cs[i] = c

\* Putting a new chunk in at any position, with the next key, keeps the orders in
\* step and every chunk under its key.
LEMMA InsertionKeepsOrders ==
    ASSUME NEW n \in Nat, NEW p \in 1..(n + 1), NEW c,
           NEW cs, NEW co, NEW ao, NEW cs2, NEW co2, NEW ao2,
           Orders(n, co, ao),
           Inserted(cs2, cs, n, p, c),
           Inserted(co2, co, n, p, n),
           Inserted(ao2, ao, n, n + 1, n)
    PROVE  /\ Orders(n + 1, co2, ao2)
           /\ \A k, d : HasKey(n, cs, co, k, d) => HasKey(n + 1, cs2, co2, k, d)
           /\ HasKey(n + 1, cs2, co2, n, c)
<1>1. \A i \in 1..(n + 1) :
         /\ i < p => cs2[i] = cs[i] /\ co2[i] = co[i]
         /\ i = p => cs2[i] = c /\ co2[i] = n
         /\ i > p => cs2[i] = cs[i - 1] /\ co2[i] = co[i - 1]
  BY Zenon DEF Inserted
<1>2. \A i \in 1..(n + 1) : ao2[i] = i - 1
  <2>1. \A i \in 1..(n + 1) :
           /\ i < n + 1 => ao2[i] = ao[i]
           /\ i = n + 1 => ao2[i] = n
    BY Zenon DEF Inserted
  <2>2. \A i \in 1..n : ao[i] = i - 1
    BY DEF Orders
  <2> TAKE i \in 1..(n + 1)
  <2>3. CASE i = n + 1
    BY <2>1, <2>3
  <2>4. CASE i # n + 1
    <3>1. i \in 1..n /\ i < n + 1
      BY <2>4
    <3> QED BY <2>1, <2>2, <3>1
  <2> QED BY <2>3, <2>4
<1>3. \A i \in 1..n : co[i] \in 0..(n - 1)
  BY DEF Orders
<1>4. \A i \in 1..(n + 1) : co2[i] \in 0..n
  <2> TAKE i \in 1..(n + 1)
  <2>1. CASE i < p
    BY <1>1, <1>3, <2>1
  <2>2. CASE i = p
    BY <1>1, <2>2
  <2>3. CASE i > p
    <3>1. i - 1 \in 1..n
      BY <2>3
    <3> QED BY <1>1, <1>3, <2>3, <3>1
  <2> QED BY <2>1, <2>2, <2>3
<1>5. ASSUME NEW i \in 1..(n + 1), NEW j \in 1..(n + 1), co2[i] = co2[j]
      PROVE  i = j
  <2>1. \A m \in 1..(n + 1) : co2[m] = n => m = p
    BY <1>1, <1>3
  <2>2. CASE i = p \/ j = p
    BY <1>1, <1>5, <2>1, <2>2
  <2>3. CASE i # p /\ j # p
    <3> DEFINE Old(m) == IF m < p THEN m ELSE m - 1
    <3>1. /\ Old(i) \in 1..n /\ co2[i] = co[Old(i)]
          /\ Old(j) \in 1..n /\ co2[j] = co[Old(j)]
      BY <1>1, <2>3
    <3>2. \A a, b \in 1..n : co[a] = co[b] => a = b
      BY Zenon DEF Orders
    <3>3. co[Old(i)] = co[Old(j)]
      BY <1>5, <3>1, Zenon
    <3>4. Old(i) = Old(j)
      <4> HIDE DEF Old
      <4> QED BY <3>1, <3>2, <3>3, Zenon
    <3> QED BY <2>3, <3>4
  <2> QED BY <2>2, <2>3
<1>6. ASSUME NEW k, NEW d, HasKey(n, cs, co, k, d)
      PROVE  HasKey(n + 1, cs2, co2, k, d)
  <2>1. PICK i \in 1..n : co[i] = k /\ cs[i] = d
    BY <1>6 DEF HasKey
  <2>2. CASE i < p
    <3>1. i \in 1..(n + 1) /\ co2[i] = k /\ cs2[i] = d
      BY <1>1, <2>1, <2>2
    <3> QED BY <3>1 DEF HasKey
  <2>3. CASE i >= p
    <3>1. i + 1 \in 1..(n + 1) /\ co2[i + 1] = k /\ cs2[i + 1] = d
      BY <1>1, <2>1, <2>3
    <3> QED BY <3>1 DEF HasKey
  <2> QED BY <2>2, <2>3
<1>7. HasKey(n + 1, cs2, co2, n, c)
  <2>1. p \in 1..(n + 1) /\ co2[p] = n /\ cs2[p] = c
    BY <1>1
  <2> QED BY <2>1 DEF HasKey
<1>8. ASSUME NEW k \in 0..n
      PROVE  \E i \in 1..(n + 1) : co2[i] = k
  <2>1. CASE k = n
    BY <1>1, <2>1
  <2>2. CASE k # n
    <3>1. PICK i \in 1..n : co[i] = k
      BY <2>2 DEF Orders
    <3>2. CASE i < p
      BY <1>1, <3>1, <3>2
    <3>3. CASE i >= p
      <4>1. i + 1 \in 1..(n + 1) /\ co2[i + 1] = k
        BY <1>1, <3>1, <3>3
      <4> QED BY <4>1
    <3> QED BY <3>2, <3>3
  <2> QED BY <2>1, <2>2
<1>9. Orders(n + 1, co2, ao2)
  BY <1>2, <1>4, <1>5, <1>8 DEF Orders
<1> QED BY <1>6, <1>7, <1>9

------------------------------------------------------------------------------
(* The invariant, without the types and the call in progress. *)

BookInv == /\ Len(given) = Len(fields)
           /\ OrdersInv
           /\ UnmovedInv
           /\ KeysInv
           /\ EntriesResolve
           /\ BaseResolves
           /\ TagsAreAbsolute

\* chunk_indices[key] is the position of the one chunk that has the key.
LEMMA ChunkIndicesFinds ==
    ASSUME TypeOK, OrdersInv,
           NEW i \in 1..Len(chunks)
    PROVE  ChunkIndices(chunksOrder[i]) = i - 1
<1> DEFINE key == chunksOrder[i]
           Holds(j) == /\ chunksOrder[j] = key
                       /\ \A m \in DOMAIN chunksOrder : m > j => chunksOrder[m] # key
<1>1. DOMAIN chunksOrder = 1..Len(chunks) /\ Len(chunks) \in Nat
  BY LenProperties DEF TypeOK, OrdersInv
<1>2. \A m \in 1..Len(chunks) : chunksOrder[m] = key => m = i
  BY DEF OrdersInv
<1>3. i \in DOMAIN chunksOrder /\ Holds(i)
  BY <1>1, <1>2
<1>4. \A j \in DOMAIN chunksOrder : Holds(j) => j = i
  BY <1>1, <1>2
<1>5. (CHOOSE j \in DOMAIN chunksOrder : Holds(j)) = i
  BY <1>3, <1>4
<1>6. key \in ToSet(chunksOrder)
  BY <1>1 DEF ToSet
<1>7. ChunkIndices(key) = (CHOOSE j \in DOMAIN chunksOrder : Holds(j)) - 1
  BY <1>6 DEF ChunkIndices
<1> QED BY <1>5, <1>7

\* FixChunks turns a key into the index of the chunk that has it.
LEMMA FixLeadsToKeyed ==
    ASSUME TypeOK, OrdersInv, NEW k, NEW c, NEW wild, Keyed(k, c)
    PROVE  /\ LeadsTo(NewChunkIndex(k, wild), c)
           /\ k \in 0..(Len(chunks) - 1)
<1>1. PICK i \in 1..Len(chunks) : chunksOrder[i] = k /\ chunks[i] = c
  BY DEF Keyed
<1>2. Len(chunks) \in Nat /\ Len(addChunkOrder) = Len(chunks)
  BY LenProperties DEF TypeOK, OrdersInv
<1>3. k \in 0..(Len(chunks) - 1)
  BY <1>1 DEF OrdersInv
<1>4. addChunkOrder[k + 1] = k
  <2>1. k + 1 \in 1..Len(chunks) /\ (k + 1) - 1 = k
    BY <1>2, <1>3
  <2>2. addChunkOrder[k + 1] = (k + 1) - 1
    BY <2>1 DEF OrdersInv
  <2> QED BY <2>1, <2>2
<1>5. NewChunkIndex(k, wild) = i - 1
  BY <1>1, <1>2, <1>3, <1>4, ChunkIndicesFinds DEF NewChunkIndex
<1> QED BY <1>1, <1>2, <1>3, <1>5 DEF LeadsTo

\* An index computed by FixChunks is a number.
LEMMA FixType ==
    ASSUME TypeOK, OrdersInv, NEW k \in Nat, NEW wild \in Nat
    PROVE  NewChunkIndex(k, wild) \in Nat
<1>1. Len(chunks) \in Nat /\ Len(addChunkOrder) = Len(chunks)
  BY LenProperties DEF TypeOK, OrdersInv
<1>2. CASE k < Len(addChunkOrder)
  <2>1. addChunkOrder[k + 1] = k /\ k \in 0..(Len(chunks) - 1)
    <3>1. /\ k + 1 \in 1..Len(chunks) /\ (k + 1) - 1 = k
          /\ k \in 0..(Len(chunks) - 1)
      BY <1>1, <1>2
    <3>2. addChunkOrder[k + 1] = (k + 1) - 1
      BY <3>1 DEF OrdersInv
    <3> QED BY <3>1, <3>2
  <2>2. PICK i \in 1..Len(chunks) : chunksOrder[i] = k
    BY <2>1 DEF OrdersInv
  <2>3. NewChunkIndex(k, wild) = i - 1
    BY <1>2, <2>1, <2>2, ChunkIndicesFinds DEF NewChunkIndex
  <2> QED BY <1>1, <2>3
<1>3. CASE ~(k < Len(addChunkOrder))
  BY <1>3 DEF NewChunkIndex
<1> QED BY <1>2, <1>3

\* A splitter starts in the invariant.
LEMMA InitInv == Init => SplitterInv
<1> SUFFICES ASSUME Init PROVE SplitterInv
  OBVIOUS
<1> USE DEF Init
<1>1. TypeOK
  <2>1. \A S : <<>> \in Seq(S)
    BY EmptySeq
  <2>2. ret \in Status /\ childBase \subseteq Child
    BY DEF Status
  <2> QED BY <2>1, <2>2, Zenon DEF TypeOK
<1>2. OrdersInv /\ UnmovedInv /\ KeysInv /\ PendingInv
  BY DEF OrdersInv, UnmovedInv, KeysInv, PendingInv
<1>3. EntriesResolve /\ BaseResolves /\ TagsAreAbsolute
  BY DEF EntriesResolve, BaseResolves, TagsAreAbsolute, ToSet
<1> QED BY <1>1, <1>2, <1>3 DEF SplitterInv

\* A step that leaves the lists alone keeps what the invariant says of them.
LEMMA FrameInv ==
    ASSUME BookInv, UNCHANGED <<built, bookkeeping>>
    PROVE  BookInv'
BY DEF BookInv, bookkeeping, OrdersInv, UnmovedInv, KeysInv, Keyed, EntriesResolve,
       BaseResolves, TagsAreAbsolute, LeadsTo

\* What AddChunk does to the three parallel lists, with or without an index.
LEMMA AddChunkInserts ==
    ASSUME TypeOK, PendingInv, Len(chunksOrder) = Len(chunks),
           Len(addChunkOrder) = Len(chunks), AddChunk
    PROVE  \E p \in 1..(Len(chunks) + 1) :
              /\ ~fixChunkOrder' => ~fixChunkOrder /\ p = Len(chunks) + 1
              /\ Inserted(chunks', chunks, Len(chunks), p, pending.chunk)
              /\ Inserted(chunksOrder', chunksOrder, Len(chunks), p, Len(chunks))
              /\ Inserted(addChunkOrder', addChunkOrder, Len(chunks),
                          Len(chunks) + 1, Len(chunks))
              /\ chunks' \in Seq(Chunk \union {Base})
              /\ chunksOrder' \in Seq(Nat)
              /\ addChunkOrder' \in Seq(Nat)
              /\ Len(chunks') = Len(chunks) + 1
              /\ Len(chunksOrder') = Len(chunks) + 1
              /\ Len(addChunkOrder') = Len(chunks) + 1
<1> DEFINE n == Len(chunks)
<1>1. /\ n \in Nat
      /\ chunks \in Seq(Chunk \union {Base})
      /\ chunksOrder \in Seq(Nat)
      /\ addChunkOrder \in Seq(Nat)
  BY LenProperties DEF TypeOK
<1>2. pending.chunk \in Chunk \union {Base}
  BY DEF AddChunk, TypeOK, CallType
<1>3. /\ addChunkOrder' \in Seq(Nat)
      /\ Len(addChunkOrder') = n + 1
      /\ Inserted(addChunkOrder', addChunkOrder, n, n + 1, n)
  <2>1. addChunkOrder' = Append(addChunkOrder, n)
    BY DEF AddChunk
  <2> QED BY <1>1, <2>1, AppendInserts
<1>4. CASE pending.index = None
  <2>1. /\ chunks' = Append(chunks, pending.chunk)
        /\ chunksOrder' = Append(chunksOrder, n)
        /\ fixChunkOrder' = fixChunkOrder
    BY <1>4 DEF AddChunk
  <2>2. /\ chunks' \in Seq(Chunk \union {Base})
        /\ Len(chunks') = n + 1
        /\ Inserted(chunks', chunks, n, n + 1, pending.chunk)
    BY <1>1, <1>2, <2>1, AppendInserts
  <2>3. /\ chunksOrder' \in Seq(Nat)
        /\ Len(chunksOrder') = n + 1
        /\ Inserted(chunksOrder', chunksOrder, n, n + 1, n)
    BY <1>1, <2>1, AppendInserts
  <2>4. n + 1 \in 1..(n + 1)
    BY <1>1
  <2> QED BY <1>3, <2>1, <2>2, <2>3, <2>4, Zenon
<1>5. CASE pending.index # None
  <2> DEFINE p == pending.index + 1
  <2>1. /\ chunks' = InsertAt(chunks, p, pending.chunk)
        /\ chunksOrder' = InsertAt(chunksOrder, p, n)
        /\ fixChunkOrder'
    BY <1>5 DEF AddChunk
  <2>2. p \in 1..(n + 1)
    <3>1. pending.index \in 0..n
      BY <1>5 DEF AddChunk, PendingInv
    <3> QED BY <1>1, <3>1
  <2> HIDE DEF p
  <2>3. /\ chunks' \in Seq(Chunk \union {Base})
        /\ Len(chunks') = n + 1
        /\ Inserted(chunks', chunks, n, p, pending.chunk)
    BY <1>1, <1>2, <2>1, <2>2, InsertAtInserts
  <2>4. /\ chunksOrder' \in Seq(Nat)
        /\ Len(chunksOrder') = n + 1
        /\ Inserted(chunksOrder', chunksOrder, n, p, n)
    <3>1. Len(chunksOrder) = n /\ p \in 1..(Len(chunksOrder) + 1)
      BY <2>2
    <3>2. /\ InsertAt(chunksOrder, p, n) \in Seq(Nat)
          /\ Len(InsertAt(chunksOrder, p, n)) = Len(chunksOrder) + 1
          /\ Inserted(InsertAt(chunksOrder, p, n), chunksOrder,
                      Len(chunksOrder), p, n)
      BY <1>1, <3>1, InsertAtInserts
    <3> QED BY <2>1, <3>1, <3>2, Zenon
  <2> QED BY <1>3, <2>1, <2>2, <2>3, <2>4, Zenon
<1> QED BY <1>4, <1>5

\* OrdersInv and Keyed are Orders and HasKey of the splitter's own lists.
LEMMA OwnOrders ==
    /\ OrdersInv <=> /\ Len(chunksOrder) = Len(chunks)
                     /\ Len(addChunkOrder) = Len(chunks)
                     /\ Orders(Len(chunks), chunksOrder, addChunkOrder)
    /\ \A k, c : Keyed(k, c) <=> HasKey(Len(chunks), chunks, chunksOrder, k, c)
BY Zenon DEF OrdersInv, Orders, Keyed, HasKey

\* A new chunk keeps the orders, adds itself to the elements, and is found at its key.
LEMMA AddChunkOrders ==
    ASSUME TypeOK, PendingInv, OrdersInv, AddChunk
    PROVE  /\ OrdersInv'
           /\ \A k, c : Keyed(k, c) => Keyed(k, c)'
           /\ HasKey(Len(chunks'), chunks', chunksOrder', Len(chunks), pending.chunk)
           /\ ToSet(chunks') = ToSet(chunks) \union {pending.chunk}
           /\ Len(chunks') = Len(chunks) + 1
           /\ chunks' \in Seq(Chunk \union {Base})
           /\ chunksOrder' \in Seq(Nat)
           /\ addChunkOrder' \in Seq(Nat)
           /\ ~fixChunkOrder' =>
                 /\ ~fixChunkOrder
                 /\ chunks'[Len(chunks) + 1] = pending.chunk
                 /\ chunksOrder'[Len(chunks) + 1] = Len(chunks)
                 /\ \A i \in 1..Len(chunks) : /\ chunks'[i] = chunks[i]
                                             /\ chunksOrder'[i] = chunksOrder[i]
<1> DEFINE n == Len(chunks)
<1>1. /\ n \in Nat
      /\ chunks \in Seq(Chunk \union {Base})
  BY LenProperties DEF TypeOK
<1>2. /\ Len(chunksOrder) = n
      /\ Len(addChunkOrder) = n
      /\ Orders(n, chunksOrder, addChunkOrder)
  BY OwnOrders
<1>3. PICK p \in 1..(n + 1) :
         /\ ~fixChunkOrder' => ~fixChunkOrder /\ p = n + 1
         /\ Inserted(chunks', chunks, n, p, pending.chunk)
         /\ Inserted(chunksOrder', chunksOrder, n, p, n)
         /\ Inserted(addChunkOrder', addChunkOrder, n, n + 1, n)
         /\ chunks' \in Seq(Chunk \union {Base})
         /\ chunksOrder' \in Seq(Nat)
         /\ addChunkOrder' \in Seq(Nat)
         /\ Len(chunks') = n + 1
         /\ Len(chunksOrder') = n + 1
         /\ Len(addChunkOrder') = n + 1
  BY <1>2, AddChunkInserts
<1>4. /\ Orders(n + 1, chunksOrder', addChunkOrder')
      /\ \A k, d : HasKey(n, chunks, chunksOrder, k, d)
                      => HasKey(n + 1, chunks', chunksOrder', k, d)
      /\ HasKey(n + 1, chunks', chunksOrder', n, pending.chunk)
  BY <1>1, <1>2, <1>3, InsertionKeepsOrders
<1>5. OrdersInv'
  BY <1>3, <1>4, Zenon DEF OrdersInv, Orders
<1>6. \A k, c : Keyed(k, c) => Keyed(k, c)'
  <2>1. \A k, c : Keyed(k, c) => HasKey(Len(chunks'), chunks', chunksOrder', k, c)
    BY <1>3, <1>4, OwnOrders, Zenon
  <2> QED BY <2>1, Zenon DEF Keyed, HasKey
<1>7. HasKey(Len(chunks'), chunks', chunksOrder', n, pending.chunk)
  BY <1>3, <1>4, Zenon
<1>8. ToSet(chunks') = ToSet(chunks) \union {pending.chunk}
  BY <1>1, <1>3, InsertedElements
<1>9. ~fixChunkOrder' =>
         /\ ~fixChunkOrder
         /\ chunks'[n + 1] = pending.chunk
         /\ chunksOrder'[n + 1] = n
         /\ \A i \in 1..n : /\ chunks'[i] = chunks[i]
                           /\ chunksOrder'[i] = chunksOrder[i]
  <2> HAVE ~fixChunkOrder'
  <2>1. /\ \A j \in 1..(n + 1) :
              /\ j < n + 1 => chunks'[j] = chunks[j] /\ chunksOrder'[j] = chunksOrder[j]
              /\ j = n + 1 => chunks'[j] = pending.chunk /\ chunksOrder'[j] = n
        /\ ~fixChunkOrder
    BY <1>3, Zenon DEF Inserted
  <2> HIDE DEF n
  <2>2. /\ n + 1 \in 1..(n + 1)
        /\ \A i \in 1..n : i \in 1..(n + 1) /\ i < n + 1
    BY <1>1
  <2> QED BY <2>1, <2>2, Zenon
<1> QED BY <1>3, <1>5, <1>6, <1>7, <1>8, <1>9, Zenon

\* Both AddChunk and a failed AddChunk append one entry to `fields` and to `given`.
LEMMA EntryAppended ==
    ASSUME TypeOK, Len(given) = Len(fields),
           NEW x \in FieldType, NEW g \in GivenType,
           fields' = Append(fields, x), given' = Append(given, g)
    PROVE  /\ fields' \in Seq(FieldType)
           /\ given' \in Seq(GivenType)
           /\ Len(given') = Len(fields')
           /\ \A f \in DOMAIN fields' :
                 \/ f \in DOMAIN fields /\ fields'[f] = fields[f] /\ given'[f] = given[f]
                 \/ fields'[f] = x /\ given'[f] = g
<1>1. fields \in Seq(FieldType) /\ given \in Seq(GivenType)
  BY DEF TypeOK
<1>2. /\ Len(fields) \in Nat
      /\ DOMAIN fields = 1..Len(fields)
      /\ DOMAIN fields' = 1..Len(fields')
      /\ Len(fields') = Len(fields) + 1
      /\ fields' \in Seq(FieldType)
      /\ \A i \in 1..Len(fields) : fields'[i] = fields[i]
      /\ fields'[Len(fields) + 1] = x
  BY <1>1, LenProperties, AppendProperties
<1>3. /\ Len(given') = Len(given) + 1
      /\ given' \in Seq(GivenType)
      /\ \A i \in 1..Len(given) : given'[i] = given[i]
      /\ given'[Len(given) + 1] = g
  BY <1>1, AppendProperties
<1>4. \A f \in 1..(Len(fields) + 1) : f \in 1..Len(fields) \/ f = Len(fields) + 1
  BY <1>2
<1> QED BY <1>2, <1>3, <1>4, Zenon

\* AddChunk keeps the bookkeeping right.
LEMMA AddChunkKeeps ==
    ASSUME TypeOK, PendingInv, BookInv, AddChunk
    PROVE  TypeOK' /\ BookInv'
<1> DEFINE n == Len(chunks)
           x == [tag |-> pending.tag, idx |-> n]
           g == [tag |-> pending.want, chunk |-> pending.chunk]
<1>1. /\ n \in Nat
      /\ chunks \in Seq(Chunk \union {Base})
      /\ DOMAIN chunks = 1..n
  BY LenProperties DEF TypeOK
<1>2. pending \in CallType /\ pending.at = Root
  BY DEF AddChunk, TypeOK
<1>3. x \in FieldType /\ g \in GivenType
  BY <1>1, <1>2 DEF CallType, FieldType, GivenType
<1>4. x.tag = g.tag
  <2>1. Path[Root] \o pending.tag = pending.want
    BY <1>2 DEF AddChunk, PendingInv
  <2>2. pending.tag \in Seq(STRING) /\ Path[Root] = <<>>
    BY <1>2, TreeAssumption DEF CallType
  <2>3. <<>> \o pending.tag = pending.tag
    BY <2>2, ConcatEmptySeq
  <2> QED BY <2>1, <2>2, <2>3
<1>5. /\ Len(given) = Len(fields)
      /\ OrdersInv
  BY DEF BookInv
<1>6. /\ fields' \in Seq(FieldType)
      /\ given' \in Seq(GivenType)
      /\ Len(given') = Len(fields')
      /\ \A f \in DOMAIN fields' :
            \/ f \in DOMAIN fields /\ fields'[f] = fields[f] /\ given'[f] = given[f]
            \/ fields'[f] = x /\ given'[f] = g
  <2>1. fields' = Append(fields, x) /\ given' = Append(given, g)
    BY DEF AddChunk
  <2> HIDE DEF x, g
  <2> QED BY <1>3, <1>5, <2>1, EntryAppended
<1>7. /\ OrdersInv'
      /\ \A k, c : Keyed(k, c) => Keyed(k, c)'
      /\ HasKey(Len(chunks'), chunks', chunksOrder', n, pending.chunk)
      /\ ToSet(chunks') = ToSet(chunks) \union {pending.chunk}
      /\ Len(chunks') = n + 1
      /\ chunks' \in Seq(Chunk \union {Base})
      /\ chunksOrder' \in Seq(Nat)
      /\ addChunkOrder' \in Seq(Nat)
      /\ ~fixChunkOrder' =>
            /\ ~fixChunkOrder
            /\ chunks'[n + 1] = pending.chunk
            /\ chunksOrder'[n + 1] = n
            /\ \A i \in 1..n : /\ chunks'[i] = chunks[i]
                              /\ chunksOrder'[i] = chunksOrder[i]
  BY <1>5, AddChunkOrders
<1>8. /\ UNCHANGED <<built, splitting, rootIdx, childBase, ret>>
      /\ pending' = None
      /\ fixChunkOrder' \in BOOLEAN
  BY DEF AddChunk, TypeOK
<1>9. TypeOK'
  BY <1>6, <1>7, <1>8, Zenon DEF TypeOK
<1>10. UnmovedInv'
  <2> SUFFICES ASSUME ~built', ~fixChunkOrder', NEW i \in 1..Len(chunks')
               PROVE  chunksOrder'[i] = i - 1
    BY DEF UnmovedInv
  <2>1. CASE i = n + 1
    BY <1>1, <1>7, <2>1
  <2>2. CASE i # n + 1
    <3>1. i \in 1..n
      BY <1>1, <1>7, <2>2
    <3>2. chunksOrder[i] = i - 1
      BY <1>7, <1>8, <3>1 DEF BookInv, UnmovedInv
    <3> QED BY <1>7, <3>1, <3>2
  <2> QED BY <2>1, <2>2
<1>11. KeysInv'
  <2> SUFFICES ASSUME ~built'
               PROVE  /\ \A f \in DOMAIN fields' :
                            given'[f] # None => HasKey(Len(chunks'), chunks', chunksOrder',
                                                       fields'[f].idx, given'[f].chunk)
                      /\ rootIdx' # None => HasKey(Len(chunks'), chunks', chunksOrder',
                                                   rootIdx', Base)
    BY Zenon DEF KeysInv, Keyed, HasKey
  <2>1. \A k, c : Keyed(k, c) => HasKey(Len(chunks'), chunks', chunksOrder', k, c)
    BY <1>7, Zenon DEF Keyed, HasKey
  <2>2. /\ \A f \in DOMAIN fields : given[f] # None => Keyed(fields[f].idx, given[f].chunk)
        /\ rootIdx # None => Keyed(rootIdx, Base)
    BY <1>8 DEF BookInv, KeysInv
  <2>3. x.idx = n /\ g.chunk = pending.chunk
    OBVIOUS
  <2> HIDE DEF x, g
  <2> QED BY <1>6, <1>7, <1>8, <2>1, <2>2, <2>3, Zenon
<1>12. \A k, c : LeadsTo(k, c) /\ k \in Nat /\ ~fixChunkOrder'
                    => k < Len(chunks') /\ chunks'[k + 1] = c
  <2> TAKE k, c
  <2> HAVE LeadsTo(k, c) /\ k \in Nat /\ ~fixChunkOrder'
  <2>1. k + 1 \in 1..n /\ k < n /\ chunks[k + 1] = c
    BY <1>1 DEF LeadsTo
  <2>2. chunks'[k + 1] = chunks[k + 1]
    BY <1>7, <2>1
  <2> QED BY <1>1, <1>7, <2>1, <2>2
<1>13. EntriesResolve'
  <2> SUFFICES ASSUME built', ~fixChunkOrder', NEW f \in DOMAIN fields', given'[f] # None
               PROVE  /\ fields'[f].idx < Len(chunks')
                      /\ chunks'[fields'[f].idx + 1] = given'[f].chunk
    BY DEF EntriesResolve, LeadsTo
  <2>1. CASE f \in DOMAIN fields /\ fields'[f] = fields[f] /\ given'[f] = given[f]
    <3>1. LeadsTo(fields[f].idx, given[f].chunk)
      BY <1>7, <1>8, <2>1 DEF BookInv, EntriesResolve
    <3>2. fields[f].idx \in Nat
      <4>1. fields[f] \in FieldType
        BY <2>1, ElementOfSeq, LenProperties DEF TypeOK
      <4> QED BY <4>1 DEF FieldType
    <3> QED BY <1>12, <2>1, <3>1, <3>2
  <2>2. CASE fields'[f] = x /\ given'[f] = g
    BY <1>1, <1>7, <2>2
  <2> QED BY <1>6, <2>1, <2>2
<1>14. BaseResolves'
  <2>1. rootIdx' = None <=> Base \notin ToSet(chunks')
    <3>1. pending.chunk # Base
      BY <1>2, ChunkAssumption DEF CallType
    <3> QED BY <1>7, <1>8, <3>1 DEF BookInv, BaseResolves
  <2>2. ASSUME built', ~fixChunkOrder', rootIdx' # None
        PROVE  rootIdx' < Len(chunks') /\ chunks'[rootIdx' + 1] = Base
    <3>1. LeadsTo(rootIdx, Base) /\ rootIdx \in Nat
      BY <1>7, <1>8, <2>2 DEF BookInv, BaseResolves, TypeOK
    <3> QED BY <1>8, <1>12, <2>2, <3>1
  <2> QED BY <2>1, <2>2 DEF BaseResolves, LeadsTo
<1>15. TagsAreAbsolute'
  <2> HIDE DEF x, g
  <2> QED BY <1>4, <1>6, Zenon DEF BookInv, TagsAreAbsolute
<1> QED BY <1>6, <1>7, <1>9, <1>10, <1>11, <1>13, <1>14, <1>15 DEF BookInv

\* A failed AddChunk leaves an entry behind that nothing is promised about.
LEMMA AddChunkBadTagKeeps ==
    ASSUME TypeOK, BookInv, AddChunkBadTag
    PROVE  TypeOK' /\ BookInv'
<1> DEFINE x == [tag |-> None, idx |-> Len(chunks)]
<1>1. x \in FieldType /\ None \in GivenType
  BY LenProperties DEF TypeOK, FieldType, GivenType
<1>2. /\ fields' \in Seq(FieldType)
      /\ given' \in Seq(GivenType)
      /\ Len(given') = Len(fields')
      /\ \A f \in DOMAIN fields' :
            \/ f \in DOMAIN fields /\ fields'[f] = fields[f] /\ given'[f] = given[f]
            \/ fields'[f] = x /\ given'[f] = None
  <2>1. fields' = Append(fields, x) /\ given' = Append(given, None)
    BY DEF AddChunkBadTag, FieldsLeft
  <2> HIDE DEF x
  <2> QED BY <1>1, <2>1, EntryAppended DEF BookInv
<1> HIDE DEF x
<1>3. /\ UNCHANGED <<built, chunks, rootIdx, addChunkOrder, chunksOrder,
                     fixChunkOrder, childBase>>
      /\ pending' = None
      /\ splitting' \in BOOLEAN
      /\ ret' \in Status
  BY DEF AddChunkBadTag, Fail, Status
<1>4. TypeOK'
  BY <1>2, <1>3, Zenon DEF TypeOK
<1>5. OrdersInv' /\ UnmovedInv' /\ (\A k, c : Keyed(k, c) => Keyed(k, c)')
  BY <1>3 DEF BookInv, OrdersInv, UnmovedInv, Keyed
<1>6. KeysInv'
  BY <1>2, <1>3, Zenon DEF BookInv, KeysInv, Keyed
<1>7. EntriesResolve'
  BY <1>2, <1>3, Zenon DEF BookInv, EntriesResolve, LeadsTo
<1>8. BaseResolves' /\ TagsAreAbsolute'
  BY <1>2, <1>3, Zenon DEF BookInv, BaseResolves, LeadsTo, TagsAreAbsolute
<1> QED BY <1>2, <1>4, <1>5, <1>6, <1>7, <1>8 DEF BookInv

\* The base chunk is the first chunk: no entry can mean a chunk yet.
LEMMA SetMessageAsBaseChunkKeeps ==
    ASSUME TypeOK, BookInv, SetMessageAsBaseChunk
    PROVE  TypeOK' /\ BookInv'
<1>1. /\ chunks = <<>> /\ chunksOrder = <<>> /\ addChunkOrder = <<>>
  <2>1. chunks = <<>> /\ Len(chunks) = 0
    BY DEF SetMessageAsBaseChunk
  <2>2. Len(chunksOrder) = 0 /\ Len(addChunkOrder) = 0
    BY <2>1 DEF BookInv, OrdersInv
  <2> QED BY <2>1, <2>2, EmptySeq DEF TypeOK
<1>2. /\ chunks' = <<Base>> /\ chunksOrder' = <<0>> /\ addChunkOrder' = <<0>>
      /\ rootIdx' = 0
      /\ UNCHANGED <<built, splitting, pending, fields, fixChunkOrder, childBase,
                     ret, given>>
  BY <1>1 DEF SetMessageAsBaseChunk
<1>3. /\ chunks' \in Seq(Chunk \union {Base})
      /\ chunksOrder' \in Seq(Nat)
      /\ addChunkOrder' \in Seq(Nat)
      /\ Len(chunks') = 1 /\ Len(chunksOrder') = 1 /\ Len(addChunkOrder') = 1
      /\ chunks'[1] = Base /\ chunksOrder'[1] = 0 /\ addChunkOrder'[1] = 0
  BY <1>2
<1>4. TypeOK'
  <2>1. rootIdx' \in Nat \union {None}
    BY <1>2
  <2> QED BY <1>2, <1>3, <2>1, Zenon DEF TypeOK
<1>5. OrdersInv' /\ UnmovedInv'
  BY <1>3 DEF OrdersInv, UnmovedInv
<1>6. /\ ~built => \A f \in DOMAIN fields : given[f] = None
      /\ built /\ ~fixChunkOrder => \A f \in DOMAIN fields : given[f] = None
  <2>1. \A k, c : ~Keyed(k, c)
    BY <1>1 DEF Keyed
  <2>2. \A k \in Nat : \A c : ~LeadsTo(k, c)
    BY <1>1 DEF LeadsTo
  <2>3. \A f \in DOMAIN fields : fields[f].idx \in Nat
    <3>1. \A f \in DOMAIN fields : fields[f] \in FieldType
      BY ElementOfSeq, LenProperties DEF TypeOK
    <3> QED BY <3>1 DEF FieldType
  <2> QED BY <2>1, <2>2, <2>3, Zenon DEF BookInv, KeysInv, EntriesResolve
<1>7. KeysInv'
  <2>1. Keyed(0, Base)'
    BY <1>3 DEF Keyed
  <2> QED BY <1>2, <1>6, <2>1, Zenon DEF KeysInv, Keyed
<1>8. EntriesResolve'
  BY <1>2, <1>6, Zenon DEF EntriesResolve, LeadsTo
<1>9. BaseResolves'
  <2>1. ToSet(chunks') = {Base}
    BY <1>2 DEF ToSet
  <2>2. 0 # None
    BY ChunkAssumption
  <2> QED BY <1>2, <1>3, <2>1, <2>2 DEF BaseResolves, LeadsTo
<1>10. TagsAreAbsolute' /\ Len(given') = Len(fields')
  BY <1>2 DEF BookInv, TagsAreAbsolute
<1> QED BY <1>4, <1>5, <1>7, <1>8, <1>9, <1>10 DEF BookInv

\* FixChunks is right: after it, every chunk_index is a position.
LEMMA SplitFinishKeeps ==
    ASSUME TypeOK, BookInv, SplitFinish, ~built
    PROVE  TypeOK' /\ BookInv'
<1>1. /\ UNCHANGED <<pending, chunks, addChunkOrder, chunksOrder, childBase, given>>
      /\ built' = TRUE /\ splitting' = FALSE /\ ret' \in Status
  BY DEF SplitFinish, Status
<1>2. /\ OrdersInv
      /\ Len(chunks) \in Nat
      /\ Len(chunksOrder) = Len(chunks) /\ Len(addChunkOrder) = Len(chunks)
  BY LenProperties DEF TypeOK, BookInv, OrdersInv
<1>3. /\ \A f \in DOMAIN fields : given[f] # None => Keyed(fields[f].idx, given[f].chunk)
      /\ rootIdx # None => Keyed(rootIdx, Base)
  BY DEF BookInv, KeysInv
<1>4. \A f \in DOMAIN fields : fields[f] \in FieldType /\ fields[f].idx \in Nat
  <2>1. \A f \in DOMAIN fields : fields[f] \in FieldType
    BY ElementOfSeq, LenProperties DEF TypeOK
  <2> QED BY <2>1 DEF FieldType
<1>5. /\ fields' \in Seq(FieldType)
      /\ Len(fields') = Len(fields)
      /\ DOMAIN fields' = DOMAIN fields
      /\ rootIdx' \in Nat \union {None}
      /\ rootIdx' = None <=> rootIdx = None
      /\ fixChunkOrder' = FALSE
      /\ \A f \in DOMAIN fields : fields'[f].tag = fields[f].tag
      /\ \A f \in DOMAIN fields :
            given[f] # None => LeadsTo(fields'[f].idx, given[f].chunk)
      /\ rootIdx # None => LeadsTo(rootIdx', Base)
  <2>1. CASE ~fixChunkOrder
    <3>1. UNCHANGED <<fields, rootIdx, fixChunkOrder>>
      BY <2>1 DEF SplitFinish, FixChunks, FixedRootIdx
    <3>2. \A k, c : Keyed(k, c) => LeadsTo(k, c)
      <4> TAKE k, c
      <4> HAVE Keyed(k, c)
      <4>1. PICK i \in 1..Len(chunks) : chunksOrder[i] = k /\ chunks[i] = c
        BY DEF Keyed
      <4>2. k = i - 1
        BY <2>1, <4>1 DEF BookInv, UnmovedInv
      <4> QED BY <1>2, <4>1, <4>2 DEF LeadsTo
    <3> QED BY <1>3, <2>1, <3>1, <3>2 DEF TypeOK
  <2>2. CASE fixChunkOrder
    <3>1. PICK wild \in [Dangling -> 0..Len(chunks)] :
             fields' = [f \in DOMAIN fields |->
                 [fields[f] EXCEPT !.idx =
                     NewChunkIndex(@, IF f \in Dangling THEN wild[f] ELSE 0)]]
      BY <2>2 DEF SplitFinish, FixChunks, FixedRootIdx
    <3> DEFINE W(f) == IF f \in Dangling THEN wild[f] ELSE 0
    <3>2. /\ rootIdx' = IF rootIdx = None THEN None ELSE NewChunkIndex(rootIdx, 0)
          /\ fixChunkOrder' = FALSE
      BY <2>2 DEF SplitFinish, FixChunks, FixedRootIdx
    <3>3. \A f \in DOMAIN fields : W(f) \in Nat
      BY <1>2
    <3>4. \A f \in DOMAIN fields :
             /\ fields'[f] \in FieldType
             /\ fields'[f].tag = fields[f].tag
             /\ fields'[f].idx = NewChunkIndex(fields[f].idx, W(f))
      <4> TAKE f \in DOMAIN fields
      <4> HIDE DEF W
      <4>1. fields'[f] = [fields[f] EXCEPT !.idx = NewChunkIndex(fields[f].idx, W(f))]
        BY <3>1 DEF W
      <4>2. NewChunkIndex(fields[f].idx, W(f)) \in Nat
        BY <1>2, <1>4, <3>3, FixType
      <4> QED BY <1>4, <4>1, <4>2 DEF FieldType
    <3>5. /\ fields' \in Seq(FieldType)
          /\ Len(fields') = Len(fields)
          /\ DOMAIN fields' = DOMAIN fields
      <4>1. /\ Len(fields) \in Nat
            /\ DOMAIN fields = 1..Len(fields)
        BY LenProperties DEF TypeOK
      <4>2. fields' \in [1..Len(fields) -> FieldType]
        BY <3>1, <3>4, <4>1
      <4> QED BY <4>1, <4>2, LenProperties
    <3>6. rootIdx' \in Nat \union {None} /\ (rootIdx' = None <=> rootIdx = None)
      <4>1. CASE rootIdx = None
        BY <3>2, <4>1
      <4>2. CASE rootIdx # None
        <5>1. rootIdx \in Nat
          BY <4>2 DEF TypeOK
        <5>2. NewChunkIndex(rootIdx, 0) \in Nat
          BY <1>2, <5>1, FixType
        <5> QED BY <3>2, <4>2, <5>2, ChunkAssumption
      <4> QED BY <4>1, <4>2
    <3>7. \A f \in DOMAIN fields :
             given[f] # None => LeadsTo(fields'[f].idx, given[f].chunk)
      <4> HIDE DEF W
      <4> QED BY <1>2, <1>3, <3>4, FixLeadsToKeyed
    <3>8. rootIdx # None => LeadsTo(rootIdx', Base)
      BY <1>2, <1>3, <3>2, FixLeadsToKeyed
    <3> QED BY <3>2, <3>4, <3>5, <3>6, <3>7, <3>8
  <2> QED BY <2>1, <2>2
<1>6. TypeOK'
  BY <1>1, <1>5, Zenon DEF TypeOK
<1>7. OrdersInv' /\ UnmovedInv' /\ KeysInv'
  BY <1>1, <1>2 DEF OrdersInv, UnmovedInv, KeysInv
<1>8. EntriesResolve'
  BY <1>1, <1>5, Zenon DEF EntriesResolve, LeadsTo
<1>9. BaseResolves'
  BY <1>1, <1>5, Zenon DEF BookInv, BaseResolves, LeadsTo
<1>10. TagsAreAbsolute' /\ Len(given') = Len(fields')
  BY <1>1, <1>5, Zenon DEF BookInv, TagsAreAbsolute
<1> QED BY <1>6, <1>7, <1>8, <1>9, <1>10 DEF BookInv

\* Passing the call on to the parent does not change the place it means.
LEMMA PendingKept ==
    ASSUME TypeOK, PendingInv, [Next]_vars
    PROVE  PendingInv' /\ (AddChunkInParent => pending' \in CallType)
<1>1. ASSUME NEW s \in Splitter, NEW c \in Chunk, NEW t \in RelTag,
             NEW index \in {None} \union 0..Len(chunks),
             AddChunkCall(s, c, t, index)
      PROVE  PendingInv'
  <2>1. /\ pending' = [at |-> s, tag |-> t, chunk |-> c, index |-> index,
                       want |-> Path[s] \o t]
        /\ chunks' = chunks
    BY <1>1 DEF AddChunkCall, bookkeeping
  <2> QED BY <2>1 DEF PendingInv
<1>2. ASSUME AddChunkInParent
      PROVE  PendingInv' /\ pending' \in CallType
  <2> DEFINE c == pending.at
  <2>1. /\ pending \in CallType /\ c \in Child
        /\ Path[c] \o pending.tag = pending.want
        /\ pending.index # None => pending.index \in 0..Len(chunks)
        /\ chunks' = chunks
    BY <1>2 DEF AddChunkInParent, FieldsPassedOn, TypeOK, PendingInv, CallType, Splitter, bookkeeping
  <2>2. pending' = [pending EXCEPT !.at = Parent[c],
                                   !.tag = FieldsInParent[c] \o pending.tag]
    BY <1>2 DEF AddChunkInParent, FieldsPassedOn
  <2>3. /\ Parent[c] \in Splitter
        /\ FieldsInParent[c] \in Seq(STRING)
        /\ Path[Parent[c]] \in Seq(STRING)
        /\ pending.tag \in Seq(STRING)
        /\ Path[c] = Path[Parent[c]] \o FieldsInParent[c]
    BY <2>1, TreeAssumption DEF CallType
  <2>4. FieldsInParent[c] \o pending.tag \in Seq(STRING)
    BY <2>3, ConcatProperties
  <2>5. Path[Parent[c]] \o (FieldsInParent[c] \o pending.tag) = pending.want
    <3>1. (Path[Parent[c]] \o FieldsInParent[c]) \o pending.tag
             = Path[Parent[c]] \o (FieldsInParent[c] \o pending.tag)
      <4>1. \A a, b, d \in Seq(STRING) : (a \o b) \o d = a \o (b \o d)
        BY ConcatAssociative
      <4> QED BY <2>3, <4>1, Zenon
    <3> QED BY <2>1, <2>3, <3>1, Zenon
  <2> HIDE DEF c
  <2>6. /\ pending' \in CallType
        /\ pending'.at = Parent[c]
        /\ pending'.tag = FieldsInParent[c] \o pending.tag
        /\ pending'.want = pending.want
        /\ pending'.index = pending.index
    BY <2>1, <2>2, <2>3, <2>4 DEF CallType
  <2> QED BY <2>1, <2>5, <2>6 DEF PendingInv
<1>3. ASSUME pending' = None
      PROVE  PendingInv'
  BY <1>3 DEF PendingInv
<1>4. ASSUME UNCHANGED <<pending, chunks>>
      PROVE  PendingInv'
  BY <1>4 DEF PendingInv
<1>5. ASSUME ~AddChunkInParent,
             ~\E s \in Splitter, c \in Chunk, t \in RelTag,
                 index \in {None} \union 0..Len(chunks) : AddChunkCall(s, c, t, index)
      PROVE  pending' = None \/ UNCHANGED <<pending, chunks>>
  BY <1>5, Zenon DEF Next, vars, bookkeeping, SplitChild, SplitBegin, SplitAgain,
       BuildChunksFails, SplitFinish, SetMessageAsBaseChunk, Idle,
       SetMessageAsBaseChunkFails, ChildSetMessageAsBaseChunk, AddChunkBadTag, AddChunk
<1> QED BY <1>1, <1>2, <1>3, <1>4, <1>5

\* Every step keeps the invariant.
LEMMA NextInv == SplitterInv /\ [Next]_vars => SplitterInv'
<1> SUFFICES ASSUME SplitterInv, [Next]_vars PROVE SplitterInv'
  OBVIOUS
<1>1. TypeOK /\ PendingInv /\ BookInv /\ (splitting => ~built)
  BY DEF SplitterInv, BookInv
<1>2. PendingInv' /\ (AddChunkInParent => pending' \in CallType)
  BY <1>1, PendingKept
<1>3. SUFFICES TypeOK' /\ BookInv' /\ (splitting' => ~built')
  BY <1>2, <1>3 DEF SplitterInv, BookInv
\* The steps that leave the lists alone.
<1>4. ASSUME UNCHANGED <<built, bookkeeping>>,
             splitting' \in BOOLEAN, splitting' => ~built,
             pending' \in CallType \union {None},
             childBase' \subseteq Child, ret' \in Status
      PROVE  TypeOK' /\ BookInv' /\ (splitting' => ~built')
  <2>1. BookInv'
    BY <1>1, <1>4, FrameInv
  <2>2. TypeOK'
    BY <1>1, <1>4, Zenon DEF TypeOK, bookkeeping
  <2> QED BY <1>4, <2>1, <2>2
<1> USE <1>1
<1>5. ASSUME NEW c \in Child, SplitChild(c)
      PROVE  TypeOK' /\ BookInv' /\ (splitting' => ~built')
  BY <1>4, <1>5, Zenon DEF SplitChild, TypeOK, Status
<1>6. CASE SplitBegin
  BY <1>4, <1>6, Zenon DEF SplitBegin, TypeOK
<1>7. CASE SplitAgain
  BY <1>4, <1>7, Zenon DEF SplitAgain, TypeOK, Status
<1>8. CASE BuildChunksFails
  BY <1>4, <1>8, Zenon DEF BuildChunksFails, Fail, TypeOK, Status
<1>9. CASE SplitFinish
  <2>1. ~built /\ ~splitting'
    BY <1>9 DEF SplitFinish
  <2> QED BY <1>9, <2>1, SplitFinishKeeps
<1>10. CASE SetMessageAsBaseChunk
  <2>1. UNCHANGED <<splitting, built>>
    BY <1>10 DEF SetMessageAsBaseChunk
  <2> QED BY <1>10, <2>1, SetMessageAsBaseChunkKeeps
<1>11. CASE SetMessageAsBaseChunkFails
  BY <1>4, <1>11, Zenon DEF SetMessageAsBaseChunkFails, Fail, TypeOK, Status
<1>12. ASSUME NEW c \in Child, ChildSetMessageAsBaseChunk(c)
       PROVE  TypeOK' /\ BookInv' /\ (splitting' => ~built')
  <2>1. /\ UNCHANGED <<built, pending, bookkeeping>>
        /\ splitting' \in BOOLEAN /\ (splitting' => ~built)
        /\ childBase' \subseteq Child /\ ret' \in Status
    BY <1>12 DEF ChildSetMessageAsBaseChunk, Fail, TypeOK, Status
  <2> QED BY <1>4, <2>1, Zenon DEF TypeOK
<1>13. ASSUME NEW s \in Splitter, NEW c \in Chunk, NEW t \in RelTag,
              NEW index \in {None} \union 0..Len(chunks),
              AddChunkCall(s, c, t, index)
       PROVE  TypeOK' /\ BookInv' /\ (splitting' => ~built')
  <2>1. /\ Path[s] \in Seq(STRING) /\ t \in Seq(STRING)
        /\ index \in {None} \union Nat
    BY TreeAssumption, TagAssumption, LenProperties DEF TypeOK
  <2>2. Path[s] \o t \in Seq(STRING)
    BY <2>1, ConcatProperties
  <2>3. [at |-> s, tag |-> t, chunk |-> c, index |-> index, want |-> Path[s] \o t]
           \in CallType
    BY <2>1, <2>2 DEF CallType
  <2>4. pending' = [at |-> s, tag |-> t, chunk |-> c, index |-> index,
                    want |-> Path[s] \o t]
    BY <1>13 DEF AddChunkCall
  <2>5. UNCHANGED <<built, splitting, bookkeeping, childBase, ret>>
    BY <1>13 DEF AddChunkCall
  <2>6. pending' \in CallType
    BY <2>3, <2>4
  <2> QED BY <1>4, <2>5, <2>6, Zenon DEF TypeOK
<1>14. CASE AddChunkInParent
  <2>1. UNCHANGED <<built, splitting, bookkeeping, childBase, ret>>
    BY <1>14 DEF AddChunkInParent
  <2> QED BY <1>2, <1>4, <1>14, <2>1, Zenon DEF TypeOK
<1>15. CASE AddChunkBadTag
  <2>1. ~splitting'
    BY <1>15 DEF AddChunkBadTag, Fail
  <2> QED BY <1>15, <2>1, AddChunkBadTagKeeps
<1>16. CASE AddChunk
  <2>1. UNCHANGED <<splitting, built>>
    BY <1>16 DEF AddChunk
  <2> QED BY <1>16, <2>1, AddChunkKeeps
<1>17. CASE UNCHANGED vars
  BY <1>4, <1>17, Zenon DEF vars, TypeOK
<1> QED BY <1>5, <1>6, <1>7, <1>8, <1>9, <1>10, <1>11, <1>12, <1>13, <1>14, <1>15,
           <1>16, <1>17, Zenon DEF Next

\* The invariant holds in every reachable state.
THEOREM Invariance == Spec => []SplitterInv
<1>1. Init => SplitterInv
  BY InitInv
<1>2. SplitterInv /\ [Next]_vars => SplitterInv'
  BY NextInv
<1> QED BY <1>1, <1>2, PTL DEF Spec

\* Every variable of the splitter keeps its type (the fields of
\* cc/composable_splitter_base.h:108-122).
THEOREM Typing == Spec => []TypeOK
<1>1. SplitterInv => TypeOK
  BY DEF SplitterInv
<1> QED BY <1>1, Invariance, PTL

\* Once Split has succeeded, and unless a chunk was inserted since, the chunk_index of
\* every entry leads to the chunk that AddChunk was given for it: FixChunks repairs
\* what insertions moved, for any number of chunks, insertions and failed attempts.
THEOREM EntriesAlwaysResolve == Spec => []EntriesResolve
<1>1. SplitterInv => EntriesResolve
  BY DEF SplitterInv
<1> QED BY <1>1, Invariance, PTL

\* Likewise the root's chunk_index leads to the message itself.
THEOREM BaseAlwaysResolves == Spec => []BaseResolves
<1>1. SplitterInv => BaseResolves
  BY DEF SplitterInv
<1> QED BY <1>1, Invariance, PTL

\* Whatever the depth of the tree, an entry's tag is its place in the root's message.
THEOREM TagsAlwaysAbsolute == Spec => []TagsAreAbsolute
<1>1. SplitterInv => TagsAreAbsolute
  BY DEF SplitterInv
<1> QED BY <1>1, Invariance, PTL

------------------------------------------------------------------------------
(* What the steps do to the entries. *)

\* Any step leaves the entries as they are, adds one at the end, or fixes them in a
\* Split that has not succeeded yet; the chunks change with an entry, or become the
\* message alone.
LEMMA StepsOfEntries ==
    ASSUME SplitterInv, [Next]_vars
    PROVE  \/ fields' = fields /\ chunks' = chunks
           \/ fields' = fields /\ chunks' = <<Base>>
           \/ \E x \in FieldType : fields' = Append(fields, x)
           \/ ~built /\ DOMAIN fields' = DOMAIN fields /\ chunks' = chunks
<1>1. CASE UNCHANGED <<fields, chunks>>
  BY <1>1
<1>2. CASE SetMessageAsBaseChunk
  BY <1>2 DEF SetMessageAsBaseChunk
<1>3. CASE AddChunk
  <2>1. pending \in CallType /\ chunks \in Seq(Chunk \union {Base})
    BY <1>3 DEF AddChunk, SplitterInv, TypeOK
  <2>2. [tag |-> pending.tag, idx |-> Len(chunks)] \in FieldType
    BY <2>1, LenProperties DEF CallType, FieldType
  <2> QED BY <1>3, <2>2 DEF AddChunk
<1>4. CASE AddChunkBadTag
  <2>1. [tag |-> None, idx |-> Len(chunks)] \in FieldType
    BY LenProperties DEF SplitterInv, TypeOK, FieldType
  <2> QED BY <1>4, <2>1 DEF AddChunkBadTag, FieldsLeft
<1>5. CASE SplitFinish
  <2>1. ~built /\ chunks' = chunks
    BY <1>5 DEF SplitFinish, SplitterInv
  <2>2. DOMAIN fields' = DOMAIN fields
    BY <1>5 DEF SplitFinish, FixChunks, FixedRootIdx
  <2> QED BY <2>1, <2>2
<1>6. \/ UNCHANGED <<fields, chunks>>
      \/ SetMessageAsBaseChunk \/ AddChunk \/ AddChunkBadTag \/ SplitFinish
  BY DEF Next, vars, bookkeeping, SplitChild, SplitBegin, SplitAgain, BuildChunksFails,
         SetMessageAsBaseChunkFails, ChildSetMessageAsBaseChunk, AddChunkCall,
         AddChunkInParent
<1> QED BY <1>1, <1>2, <1>3, <1>4, <1>5, <1>6

\* What Split returned is never rewritten: whatever a caller does with the splitter
\* afterwards, the entries it was handed keep their tags and their indices.
THEOREM ReturnedEntriesKept == Spec => ReturnedEntriesStable
<1>1. SplitterInv /\ [Next]_vars => [built => IsPrefix(fields, fields')]_vars
  <2> SUFFICES ASSUME SplitterInv, [Next]_vars, built
               PROVE  IsPrefix(fields, fields')
    OBVIOUS
  <2>1. fields \in Seq(FieldType)
    BY DEF SplitterInv, TypeOK
  <2>2. fields' = fields \/ \E x \in FieldType : fields' = Append(fields, x)
    BY StepsOfEntries
  <2>3. CASE fields' = fields
    <3>1. IsPrefix(fields, fields)
      BY <2>1, LenProperties DEF IsPrefix
    <3> QED BY <2>3, <3>1
  <2>4. CASE \E x \in FieldType : fields' = Append(fields, x)
    BY <2>1, <2>4, AppendKeepsPrefix
  <2> QED BY <2>2, <2>3, <2>4
<1> QED BY <1>1, Invariance, PTL DEF Spec, ReturnedEntriesStable

\* When there is no entry, so that Write exports the message as a plain .pb, no chunk
\* was cut out of it.
THEOREM NoChunkIsLeftOut == Spec => []NoChunkWithoutEntry
<1>1. Init => NoChunkWithoutEntry
  BY DEF Init, NoChunkWithoutEntry
<1>2. SplitterInv /\ NoChunkWithoutEntry /\ [Next]_vars => NoChunkWithoutEntry'
  <2> SUFFICES ASSUME SplitterInv, NoChunkWithoutEntry, [Next]_vars, fields' = <<>>
               PROVE  chunks' \in {<<>>, <<Base>>}
    BY DEF NoChunkWithoutEntry
  <2>1. fields \in Seq(FieldType)
    BY DEF SplitterInv, TypeOK
  <2>2. \A x \in FieldType : Append(fields, x) # <<>>
    <3> TAKE x \in FieldType
    <3>1. Len(Append(fields, x)) = Len(fields) + 1 /\ Len(fields) \in Nat
      BY <2>1, AppendProperties, LenProperties
    <3> QED BY <3>1, Len(<<>>) = 0
  <2>3. DOMAIN fields' = DOMAIN fields => fields = <<>>
    BY <2>1, EmptySeq, LenProperties
  <2> QED BY <2>2, <2>3, StepsOfEntries DEF NoChunkWithoutEntry
<1> QED BY <1>1, <1>2, Invariance, PTL DEF Spec

=============================================================================
