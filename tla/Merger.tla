------------------------------- MODULE Merger -------------------------------
(***************************************************************************)
(* merge.cc: Merge, ReadFields and ProcessField, which put chunks back     *)
(* into a message by following a ChunkedMessage.                           *)
(*                                                                         *)
(* The merged message is a tree.  A node of it is named by its path, the   *)
(* sequence of its steps: <<f>> for the message in the singular field f,   *)
(* <<f, i>> for element i of a repeated field, <<f, k>> for the value under *)
(* key k of a map.  What is kept of a node is the sequence of the chunks   *)
(* that were merged into it.  A chunk is its chunk_index.                  *)
(*                                                                         *)
(* A ChunkedMessage is a tree, too: every entry of its chunked_fields has a *)
(* ChunkedMessage of its own.  A message in it is named by the way to it,  *)
(* the positions of the entries it is in: <<>> is the outermost one, and   *)
(* Append(w, i) that of entry i of the one at w.                           *)
(*                                                                         *)
(* Merge and ReadFields call ProcessField, which calls them again for a    *)
(* chunk that belongs to a message field: the stack holds the calls that   *)
(* are running.  "crash" stands for the ways the process may die: an       *)
(* unchecked value() of a StatusOr, a reflection call on a field of the    *)
(* wrong kind, an exception nobody catches.                                *)
(*                                                                         *)
(* Tags are those AddFieldTag writes, which follow the descriptor, and     *)
(* their prefixes, which a failed AddChunk leaves behind (FieldTags has    *)
(* the unset map key it may leave).  So the two errors about malformed     *)
(* tags (a mismatch found while sorting, an index without a field in       *)
(* GetFieldTypes) cannot come up.                                          *)
(***************************************************************************)
EXTENDS Integers, Sequences, SequencesExt, FiniteSets, FiniteSetsExt

CONSTANTS
    None,
    Field,      \* field numbers of the one, recursive, message type
    Kind,       \* what each field is
    Key,        \* the keys of maps
    Chunk,      \* chunk indices, 0 among them
    Contents,   \* what chunks may bring
    Inputs,     \* the ChunkedMessages that may be given to Merge and Read
    Records     \* what the reader may find at each chunk's offset

MessageKinds == {"message", "repeated", "map"}

\* "string" is a string or a bool, "strings" and "stringMap" hold no messages.
Kinds == MessageKinds \union {"string", "number", "strings", "stringMap"}

\* Ways in a ChunkedMessage, and paths in the merged message.
Way == Seq(Nat)
Path == Seq(Seq(Nat \union Key))

Calls == [way : Way, at : Path]
Frames == [way : Way, at : Path, todo : Seq(Nat)]

ASSUME MergerAssumption ==
    /\ Field \subseteq Nat
    /\ Kind \in [Field -> Kinds]
    /\ Chunk \subseteq Nat /\ 0 \in Chunk
    /\ None \notin Chunk /\ None \notin Calls
    /\ Contents \subseteq [Chunk -> [Field -> Nat]]
    /\ Records \subseteq [Chunk -> {"good", "missing", "garbled"}]

FieldIndex == ({"field"} \X Field) \union ({"index"} \X Nat) \union ({"key"} \X Key)

\* The field that position d of a tag is, or belongs to.
FieldAt(tag, d) == IF tag[d][1] = "field" THEN tag[d][2] ELSE tag[d - 1][2]

\* AddFieldTag goes from a message to a field of it, from a list to an index and from a
\* map to a key.  It may stop anywhere.
FollowsDescriptor(tag) ==
    /\ tag # <<>> => tag[1][1] = "field"
    /\ \A d \in 2..Len(tag) :
          LET before  == Kind[FieldAt(tag, d - 1)]
              isField == tag[d - 1][1] = "field"
          IN  CASE tag[d][1] = "field" -> IF isField THEN before = "message"
                                                     ELSE before \in {"repeated", "map"}
                [] tag[d][1] = "index" -> isField /\ before \in {"repeated", "strings"}
                [] tag[d][1] = "key"   -> isField /\ before \in {"map", "stringMap"}

\* A ChunkedMessage: at each way, the tag of the entry (none for the outermost one),
\* chunk_index and the number of chunked_fields.
IsChunkedMessage(t) ==
    /\ IsFiniteSet(DOMAIN t) /\ DOMAIN t \subseteq Seq(Nat) /\ <<>> \in DOMAIN t
    /\ \A w \in DOMAIN t :
          /\ t[w] \in [tag : Seq(FieldIndex), idx : Chunk \union {None}, size : Nat]
          /\ FollowsDescriptor(t[w].tag)
          /\ \A i \in 1..t[w].size : Append(w, i) \in DOMAIN t
          /\ w # <<>> => Front(w) \in DOMAIN t /\ Last(w) \in 1..t[Front(w)].size

ASSUME InputAssumption == \A t \in Inputs : IsChunkedMessage(t)

VARIABLES
    input,      \* chunked_message of the outermost call, a tree
    brings,     \* how many elements of each repeated field a chunk contains
    op,         \* MERGE or READ
    record,     \* READ: the record at each chunk's offset
    nodes,      \* merged_message: path of a node |-> chunks merged into it
    emptied,    \* scalar fields that were set, all from an empty string
    call,       \* the Merge or ReadFields call about to start, or None
    stack,      \* the running calls, innermost last
    status      \* "running", "OK", an error, or "crash"

given == <<input, brings, op, record>>
vars == <<given, nodes, emptied, call, stack, status>>

\* A call of Merge or ReadFields: fill the node `at` from the chunked message at `way`.
Call(way, at) == [way |-> way, at |-> at]

Init == /\ input \in Inputs
        /\ brings \in Contents
        /\ op \in {"MERGE", "READ"}
        /\ record \in IF op = "READ" THEN Records ELSE {[c \in Chunk |-> "good"]}
        /\ nodes = [p \in {<<>>} |-> <<>>]
        /\ emptied = {}
        /\ call = Call(<<>>, <<>>)
        /\ stack = <<>>
        /\ status = "running"

------------------------------------------------------------------------------
(* The merged message, through protobuf reflection *)

\* The messages that are there in the repeated field f of the message at `at`.
Elements(ns, at, f) ==
    {p \in DOMAIN ns : Len(p) = Len(at) + 1 /\ Front(p) = at /\ Last(p)[1] = f}

SizeOf(ns, at, f) ==
    IF Kind[f] = "repeated"
    THEN Cardinality(Elements(ns, at, f))
    ELSE FoldLeft(LAMBDA n, c : n + brings[c][f], 0, ns[at])

\* The messages that are there, and new ones.
WithNodes(ns, new) == [p \in DOMAIN ns \union new |-> IF p \in DOMAIN ns THEN ns[p] ELSE <<>>]

\* MergeFrom and MergeFromString: the chunk's own elements are appended.
MergeChunk(ns, at, c) ==
    LET new == UNION {{Append(at, <<f, SizeOf(ns, at, f) + i>>) : i \in 0..(brings[c][f] - 1)} :
                         f \in {g \in Field : Kind[g] = "repeated"}}
    IN  WithNodes([ns EXCEPT ![at] = Append(@, c)], new)

------------------------------------------------------------------------------
(* The order in which ReadFields takes the entries *)

\* Equal fields or equal indices: the comparison goes on to the next depth.
SameStep(t1, t2, d) == t1[d] = t2[d] /\ t1[d][1] # "key"

Decisive(t1, t2) == {d \in DOMAIN t1 \intersect DOMAIN t2 : ~SameStep(t1, t2, d)}

\* An unset chunk_index reads as 0.
ChunkIndex(e) == IF e.idx = None THEN 0 ELSE e.idx

LessByTag(t1, t2) ==
    LET d == Min(Decisive(t1, t2))
    IN  t1[d][1] = t2[d][1] /\ t1[d][1] # "key" /\ t1[d][2] < t2[d][2]

\* Mutants: entries of one field each before the other, the longer tag first, and
\* entries of one field in no order.
LessByLengthOrEqual(e1, e2) == Len(e1.tag) <= Len(e2.tag)
LessByLengthReversed(e1, e2) == Len(e1.tag) > Len(e2.tag)
LessByLengthOnly(e1, e2) == Len(e1.tag) < Len(e2.tag)

\* One tag is a prefix of the other.
LessByLength(e1, e2) ==
    IF Len(e1.tag) = Len(e2.tag)
    THEN ChunkIndex(e1) < ChunkIndex(e2)
    ELSE Len(e1.tag) < Len(e2.tag)

\* The comparator given to std::sort.
Less(e1, e2) ==
    \/ Decisive(e1.tag, e2.tag) # {} /\ LessByTag(e1.tag, e2.tag)
    \/ Decisive(e1.tag, e2.tag) = {} /\ LessByLength(e1, e2)

\* The chunked_fields of the message at way w, by their positions.
Entries(w) == 1..input[w].size

Entry(w, i) == input[Append(w, i)]

\* Those of the entries left that may come next.
Least(w, left) == {i \in left : \A j \in left \ {i} : ~Less(Entry(w, j), Entry(w, i))}

\* The orders, by one entry longer.
Extended(w, orders) ==
    UNION {{Append(o, i) : i \in Least(w, Entries(w) \ Range(o))} : o \in orders}

\* The orders in which std::sort may leave them: it is not stable.
Sorted(w) ==
    LET orders[n \in 0..input[w].size] ==
            IF n = 0 THEN {<<>>} ELSE Extended(w, orders[n - 1])
    IN  orders[input[w].size]

------------------------------------------------------------------------------
(* Merge and ReadFields up to their loops, and after them *)

Start(ns, order) ==
    /\ nodes' = ns
    /\ stack' = Append(stack, [way |-> call.way, at |-> call.at, todo |-> order])
    /\ call' = None
    /\ UNCHANGED <<given, emptied, status>>

Stop(s) == /\ status' = s
           /\ UNCHANGED <<given, nodes, emptied, call, stack>>

Running == status = "running"

OwnIndex == input[call.way].idx

\* Mutant: has_chunk_index is not asked.
MergeOwnChunkAlways == MergeChunk(nodes, call.at, ChunkIndex(input[call.way]))

MergeOwnChunk == IF OwnIndex = None THEN nodes ELSE MergeChunk(nodes, call.at, OwnIndex)

\* Mutant: the list is gone through from its end.
AsListedReversed(w) == [i \in Entries(w) |-> input[w].size + 1 - i]

\* The order in which Merge takes the entries.
AsListed(w) == [i \in Entries(w) |-> i]

Merge == /\ Running /\ call # None /\ op = "MERGE"
         /\ Start(MergeOwnChunk, AsListed(call.way))

\* How ReadFields finds its own chunk.
OwnRecord == IF OwnIndex = None THEN "good" ELSE record[OwnIndex]

ReadFields == /\ Running /\ call # None /\ op = "READ"
              /\ OwnRecord = "good"
              /\ \E order \in Sorted(call.way) : Start(MergeOwnChunk, order)

\* chunk_or.value() is not checked here.
ReadFieldsNoChunk == /\ Running /\ call # None /\ op = "READ"
                     /\ OwnRecord = "missing"
                     /\ Stop("crash")

ReadFieldsGarbled == /\ Running /\ call # None /\ op = "READ"
                     /\ OwnRecord = "garbled"
                     /\ Stop("FailedPrecondition")

InLoop == Running /\ call = None /\ stack # <<>>

Outermost == Len(stack) = 1

\* The loop is over: back to the ProcessField that made the call, which returns OK.
Return == /\ InLoop
          /\ Last(stack).todo = <<>>
          /\ stack' = Front(stack)
          /\ status' = IF Outermost THEN "OK" ELSE status
          /\ UNCHANGED <<given, nodes, emptied, call>>

------------------------------------------------------------------------------
(* ProcessField *)

\* A field, or the index or the map key of the last one.
AddFieldIndex(fields, t) ==
    IF t[1] = "field" THEN Append(fields, <<t[2]>>)
    ELSE [fields EXCEPT ![Len(fields)] = Append(@, t[2])]

GetFieldTypes(tag) ==
    LET fields[n \in 0..Len(tag)] ==
            IF n = 0 THEN <<>> ELSE AddFieldIndex(fields[n - 1], tag[n])
    IN  fields[Len(tag)]

\* Mutant: a missing element is not added.
HasElementOnly(ns, at, step) == step[2] < SizeOf(ns, at, step[1])

\* One missing element is added.
HasElement(ns, at, step) == step[2] <= SizeOf(ns, at, step[1])

\* Reflection dies on a repeated or map field without index or key, on an element
\* or a value that is no message, and on an index two past the end of the field,
\* where value() is called on the error that remains.
Reachable(ns, at, step) ==
    \/ Kind[step[1]] = "message"
    \/ Kind[step[1]] = "map" /\ Len(step) = 2
    \/ Kind[step[1]] = "repeated" /\ Len(step) = 2 /\ HasElement(ns, at, step)
    \/ Kind[step[1]] \in {"string", "number", "strings"} /\ Len(step) = 1

\* Mutant: what is missing is not created.
WithoutNode(ns, p) == ns

WithNode(ns, p) == WithNodes(ns, {p})

\* One step down, creating what is missing.  Scalars are the business of the leaf.
NavigateStep(n, step) ==
    IF ~n.alive \/ ~Reachable(n.nodes, n.at, step) THEN [n EXCEPT !.alive = FALSE]
    ELSE IF Kind[step[1]] \notin MessageKinds THEN n
    ELSE LET p == Append(n.at, step)
         IN  [alive |-> TRUE, at |-> p, nodes |-> WithNode(n.nodes, p)]

Navigate(ns, at, steps) ==
    LET walk[n \in 0..Len(steps)] ==
            IF n = 0 THEN [alive |-> TRUE, at |-> at, nodes |-> ns]
            ELSE NavigateStep(walk[n - 1], steps[n])
    IN  walk[Len(steps)]

\* The loop goes on to the next entry.
Advance == stack' = [stack EXCEPT ![Len(stack)].todo = Tail(@)]

AtEntry == InLoop /\ Last(stack).todo # <<>>

\* The entry the loop is at.
CurrentWay == Append(Last(stack).way, Head(Last(stack).todo))

Current == input[CurrentWay]

\* Mutant: ReadChunk is not asked whether it succeeded.
ChunkAssumedThere == TRUE

ChunkThere == op = "READ" => record[ChunkIndex(Current)] # "missing"

\* Where the entry leads, from the message the loop is filling.
Target == Navigate(nodes, Last(stack).at, GetFieldTypes(Current.tag))

LeafKind(tag) == Kind[Last(GetFieldTypes(tag))[1]]

ProcessFieldNoChunk == AtEntry /\ ~ChunkThere /\ Stop("NotFound")

\* A part of the parent itself: MergeFromString(chunk), where `chunk` is still empty.
ProcessFieldOfParent ==
    /\ AtEntry /\ ChunkThere
    /\ Current.tag = <<>>
    /\ Advance
    /\ UNCHANGED <<given, nodes, emptied, call, status>>

ProcessFieldCrash ==
    /\ AtEntry /\ ChunkThere
    /\ Current.tag # <<>>
    /\ ~Target.alive \/ LeafKind(Current.tag) = "number"       \* std::stoi("") throws
    /\ Stop("crash")

\* A message: message_callback calls Merge or ReadFields for it.
ProcessFieldMessage ==
    /\ AtEntry /\ ChunkThere
    /\ Current.tag # <<>>
    /\ LeafKind(Current.tag) \in MessageKinds
    /\ Target.alive
    /\ nodes' = Target.nodes
    /\ call' = Call(CurrentWay, Target.at)
    /\ Advance
    /\ UNCHANGED <<given, emptied, status>>

\* SetFieldElement, or SetRepeatedFieldElement at a field_index that was not
\* assigned for this field: garbage, or the index of an element higher up.
ProcessFieldScalar ==
    /\ AtEntry /\ ChunkThere
    /\ Current.tag # <<>>
    /\ LeafKind(Current.tag) \in {"string", "strings"}
    /\ Target.alive
    /\ LeafKind(Current.tag) = "strings" =>
          SizeOf(Target.nodes, Target.at, Last(Current.tag)[2]) > 0
    /\ nodes' = Target.nodes
    /\ emptied' = emptied \union {Append(Target.at, <<Last(Current.tag)[2]>>)}
    /\ Advance
    /\ UNCHANGED <<given, call, status>>

ProcessFieldOutOfRange ==
    /\ AtEntry /\ ChunkThere
    /\ Current.tag # <<>>
    /\ LeafKind(Current.tag) = "strings"
    /\ Target.alive
    /\ Stop("OutOfRange")

------------------------------------------------------------------------------
Next == \/ Merge
        \/ ReadFields
        \/ ReadFieldsNoChunk
        \/ ReadFieldsGarbled
        \/ Return
        \/ ProcessFieldNoChunk
        \/ ProcessFieldOfParent
        \/ ProcessFieldCrash
        \/ ProcessFieldMessage
        \/ ProcessFieldScalar
        \/ ProcessFieldOutOfRange

Spec == Init /\ [][Next]_vars

------------------------------------------------------------------------------
(* What the ChunkedMessage asks for *)

\* An entry whose message goes into a message field.
OfMessage(e) == e.tag # <<>> /\ LeafKind(e.tag) \in MessageKinds

\* The messages in the tree that are merged: no scalar and no empty tag is above them.
Asked == {w \in DOMAIN input : \A n \in DOMAIN w : OfMessage(input[SubSeq(w, 1, n)])}

\* Where they belong.
Place(w) == FlattenSeq([n \in DOMAIN w |-> GetFieldTypes(input[SubSeq(w, 1, n)].tag)])

HasChunk(w) == input[w].idx # None

\* Those that want chunk c merged into p.
Placements(p, c) == {w \in Asked : Place(w) = p /\ input[w].idx = c}

\* An index is used only if the one before it is, too, or a chunk of the parent
\* brings that many elements.
DenseAt(w) ==
    LET own    == {i \in Entries(w) : OfMessage(Entry(w, i))}
        steps  == {GetFieldTypes(Entry(w, i).tag) : i \in Entries(w)}
        places == UNION {{SubSeq(s, 1, n) : n \in DOMAIN s} : s \in steps}
        bring(q, f) == {brings[Entry(w, i).idx][f] :
                           i \in {j \in own : /\ GetFieldTypes(Entry(w, j).tag) = q
                                              /\ HasChunk(Append(w, j))}}
                       \union (IF q = <<>> /\ HasChunk(w) THEN {brings[input[w].idx][f]} ELSE {})
    IN  \A p \in places :
            LET f == Last(p)[1]
                i == Last(p)[2]
            IN  Kind[f] = "repeated" /\ Len(Last(p)) = 2 /\ i > 0 =>
                   \/ Append(Front(p), <<f, i - 1>>) \in places
                   \/ \E b \in bring(Front(p), f) : b >= i

Dense == \A w \in Asked : DenseAt(w)

NoKeys(tag) == \A d \in DOMAIN tag : tag[d][1] # "key"

\* Scalars only where ProcessField can set them.
Settable(tag) ==
    \A d \in DOMAIN tag :
        tag[d][1] = "field" =>
            CASE Kind[tag[d][2]] \in {"message", "string"} -> TRUE
              [] Kind[tag[d][2]] = "repeated" -> d < Len(tag) /\ tag[d + 1][1] = "index"
              [] OTHER -> FALSE

Plain == \A w \in DOMAIN input : NoKeys(input[w].tag) /\ Settable(input[w].tag)

------------------------------------------------------------------------------
(* Properties *)

TypeOK == /\ op \in {"MERGE", "READ"}
          /\ <<>> \in DOMAIN nodes
          /\ \A p \in DOMAIN nodes : nodes[p] \in Seq(Chunk)
          /\ stack \in Seq(Frames)
          /\ \A k \in DOMAIN stack : stack[k].at \in DOMAIN nodes
          /\ call \in Calls \union {None}
          /\ call # None => call.at \in DOMAIN nodes
          /\ status \in {"running", "OK", "NotFound", "FailedPrecondition",
                         "OutOfRange", "crash"}

\* Where chunk c is among those merged into p.
Merged(p, c) == IF p \in DOMAIN nodes THEN {k \in DOMAIN nodes[p] : nodes[p][k] = c} ELSE {}

\* When Merge or Read returns OK, every chunk that belongs to a message field, at any
\* depth of nested ChunkedMessages and whatever order the entries came in, has been
\* merged into its own place as often as the ChunkedMessage asks, and nowhere else.
EveryChunkOnce ==
    status = "OK" =>
        \A p \in DOMAIN nodes \union {Place(w) : w \in Asked}, c \in Chunk :
            Cardinality(Merged(p, c)) = Cardinality(Placements(p, c))

\* Read never returns OK when a chunk it had to look up is not in the file, or one
\* that it merged could not be parsed.
NoChunkMissingFromOK ==
    status = "OK" /\ op = "READ" =>
        \A w \in Asked :
            /\ HasChunk(w) => record[input[w].idx] = "good"
            /\ \A i \in Entries(w) : record[ChunkIndex(Entry(w, i))] # "missing"

StrictPrefix(t1, t2) == Len(t1) < Len(t2) /\ IsPrefix(t1, t2)

TodoTag(k, n) == Entry(stack[k].way, stack[k].todo[n]).tag

\* ReadFields has merged a message before anything that goes inside it: no entry left
\* to process is for a message around one that is processed before it (unless it is
\* around it by a map key).
OuterFirst ==
    op = "READ" =>
        \A k \in DOMAIN stack : \A m, n \in DOMAIN stack[k].todo :
            m < n /\ NoKeys(TodoTag(k, n)) => ~StrictPrefix(TodoTag(k, n), TodoTag(k, m))

\* Entries i and j of the message at w bring a chunk for the same message field.
SameField(w, i, j) ==
    /\ Entry(w, i).tag = Entry(w, j).tag
    /\ OfMessage(Entry(w, i))
    /\ HasChunk(Append(w, i)) /\ HasChunk(Append(w, j))

\* Chunk c was merged into p before chunk d.
MergedBefore(p, c, d) ==
    p \in DOMAIN nodes /\ \E m, n \in DOMAIN nodes[p] : m < n /\ nodes[p][m] = c /\ nodes[p][n] = d

\* The chunk of entry i has been merged before that of entry j.
InTurn(w, i, j) == MergedBefore(Place(Append(w, i)), Entry(w, i).idx, Entry(w, j).idx)

\* Merge has merged the chunks of one field "in the order that they appear"
\* (chunk.proto:52-53).  Read merges them in another order:
\* see EarlierChunksFirst.
SameFieldInOrder ==
    status = "OK" /\ op = "MERGE" =>
        \A w \in Asked : \A i, j \in Entries(w) :
            SameField(w, i, j) /\ i < j => InTurn(w, i, j)

\* Read has merged the chunks of one field in the order of their indices, whatever their
\* order in the list: "merge the earlier chunks first" (merge.cc:227).  Entries with the
\* same map key stay in any order.
EarlierChunksFirst ==
    status = "OK" /\ op = "READ" =>
        \A w \in Asked : \A i, j \in Entries(w) :
            SameField(w, i, j) /\ Entry(w, i).idx < Entry(w, j).idx /\ NoKeys(Entry(w, i).tag) =>
                InTurn(w, i, j)

\* A Read of what uses its indices without a gap, from a file that has the record of the
\* outermost message (which merge.cc:189 takes for granted).
DenseRead ==
    /\ op = "READ"
    /\ HasChunk(<<>>) => record[input[<<>>].idx] # "missing"
    /\ Plain
    /\ Dense

\* Read puts together anything dense, in whatever order the splitters added the chunks,
\* and whatever records are missing or garbled: the process does not die on it.
DenseReadSurvives == DenseRead => status # "crash"

\* std::sort is given a strict weak ordering: else its behaviour is undefined.
ComparatorIsStrictWeak ==
    LET Tied(a, b) == ~Less(a, b) /\ ~Less(b, a)
    IN  \A w \in DOMAIN input :
          LET F == {Entry(w, i) : i \in Entries(w)}
          IN  \A a, b, c \in F : /\ ~Less(a, a)
                                 /\ Less(a, b) /\ Less(b, c) => Less(a, c)
                                 /\ Tied(a, b) /\ Tied(b, c) => Tied(a, c)

(***************************************************************************)
(* The inductive invariant the proofs in Merger_proofs use.                *)
(***************************************************************************)

\* The entries of a running call that its loop has left behind.
Gone(k) == Entries(stack[k].way) \ Range(stack[k].todo)

\* The loop takes each entry once, in the order of the list or in one of Sorted.
LoopInv(k) ==
    LET w    == stack[k].way
        todo == stack[k].todo
    IN  /\ w \in Asked /\ stack[k].at = Place(w)
        /\ todo \in Seq(Entries(w)) /\ IsInjective(todo)
        /\ \A m, n \in DOMAIN todo :
              m < n => IF op = "MERGE" THEN todo[m] < todo[n]
                       ELSE ~Less(Entry(w, todo[n]), Entry(w, todo[m]))
        /\ \A i \in Gone(k), m \in DOMAIN todo :
              IF op = "MERGE" THEN i < todo[m] ELSE ~Less(Entry(w, todo[m]), Entry(w, i))

\* The running calls lead to w: each loop has come to the entry that w goes through.
LeadTo(w) == \A k \in DOMAIN w : /\ k \in DOMAIN stack
                                 /\ stack[k].way = SubSeq(w, 1, k - 1)
                                 /\ w[k] \notin Range(stack[k].todo)

StackInv == /\ \A k \in DOMAIN stack : /\ LoopInv(k)
                                       /\ Len(stack[k].way) = k - 1
                                       /\ LeadTo(stack[k].way)
            /\ call # None => /\ call.way \in Asked /\ call.at = Place(call.way)
                              /\ Len(call.way) = Len(stack)
                              /\ LeadTo(call.way)
            /\ status = "OK" => call = None /\ stack = <<>>

\* The call about to start, or a loop that runs, will get to w.
Ahead(w) == \/ call # None /\ IsPrefix(call.way, w)
            \/ \E k \in DOMAIN stack : /\ Len(w) >= k
                                       /\ SubSeq(w, 1, k - 1) = stack[k].way
                                       /\ w[k] \in Range(stack[k].todo)

\* What is merged and what is ahead make up what was asked for.
CountInv ==
    \A p \in DOMAIN nodes \union {Place(w) : w \in Asked}, c \in Chunk :
        Cardinality(Merged(p, c)) + Cardinality({w \in Placements(p, c) : Ahead(w)})
            = Cardinality(Placements(p, c))

\* What is not ahead was found, and so was the entry that has made the next call.
RecordInv ==
    op = "READ" =>
        \A w \in Asked :
            /\ ~Ahead(w) /\ HasChunk(w) => record[input[w].idx] = "good"
            /\ \A i \in Entries(w) :
                  LET v == Append(w, i)
                  IN  ~Ahead(v) \/ (call # None /\ call.way = v) =>
                         record[ChunkIndex(input[v])] # "missing"

\* The chunks of one field, one to be merged before the other.
ComesBefore(w, i, j) ==
    /\ SameField(w, i, j)
    /\ IF op = "MERGE" THEN i < j
       ELSE Entry(w, i).idx < Entry(w, j).idx /\ NoKeys(Entry(w, i).tag)

\* What is not ahead was merged, and after what comes before it.
OrderInv ==
    \A w \in Asked : \A i, j \in Entries(w) :
        ComesBefore(w, i, j) =>
            LET p == Place(Append(w, i))
            IN  /\ ~Ahead(Append(w, i)) => Merged(p, Entry(w, i).idx) # {}
                /\ ~Ahead(Append(w, j)) => MergedBefore(p, Entry(w, i).idx, Entry(w, j).idx)

MergingInv == /\ TypeOK
              /\ input \in Inputs /\ brings \in Contents
              /\ op = "READ" => record \in Records
              /\ StackInv
              /\ CountInv
              /\ RecordInv
              /\ OrderInv

ListFields == {f \in Field : Kind[f] = "repeated"}

\* Every message is in one that is there, and no list leaves out an index.
NoGaps(ns) ==
    \A p \in DOMAIN ns :
        /\ p # <<>> => Front(p) \in DOMAIN ns
        /\ \A f \in ListFields :
              /\ SizeOf(ns, p, f) \in Nat
              /\ Elements(ns, p, f) = {Append(p, <<f, i>>) : i \in 0..(SizeOf(ns, p, f) - 1)}

\* The elements that a merged chunk brings are there.
BroughtIsThere ==
    \A p \in DOMAIN nodes : \A c \in Range(nodes[p]), f \in ListFields :
        \A i \in 0..(brings[c][f] - 1) : Append(p, <<f, i>>) \in DOMAIN nodes

\* So are the messages on the way to what a loop has left behind.
GoneIsThere(k) ==
    \A i \in Gone(k) :
        LET s == GetFieldTypes(Entry(stack[k].way, i).tag)
        IN  \A n \in DOMAIN s :
                Kind[s[n][1]] \in MessageKinds =>
                    stack[k].at \o SubSeq(s, 1, n) \in DOMAIN nodes

\* Why the next entry of something dense can be reached.
DenseInv == DenseRead => /\ status # "crash"
                         /\ NoGaps(nodes)
                         /\ BroughtIsThere
                         /\ \A k \in DOMAIN stack : GoneIsThere(k)

MergerInv == MergingInv /\ DenseInv

(***************************************************************************)
(* What the documentation says and the code does not do.                   *)
(***************************************************************************)

\* "Chunk is not a field within the parent, but instead a portion of the parent
\* itself. Needs to be concatenated." (merge.cc:270-271)
PortionsAreConcatenated ==
    status = "OK" =>
        \A i \in Entries(<<>>) :
            Entry(<<>>, i).tag = <<>> => ChunkIndex(Entry(<<>>, i)) \in Range(nodes[<<>>])

\* "Sort the chunked_fields by depth and index. For example, this ensures that
\* GraphDef.library is merged before GraphDef.library.function[0]" (merge.cc:195-198)
SortedByDepth ==
    op = "READ" =>
        \A k \in DOMAIN stack : \A m, n \in DOMAIN stack[k].todo :
            m < n => ~StrictPrefix(TodoTag(k, n), TodoTag(k, m))
=============================================================================
