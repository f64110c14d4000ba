------------------------------ MODULE SplitMerge ------------------------------
(***************************************************************************)
(* RepeatedFieldSplitters and Merger put together: a message is split by   *)
(* RepeatedField, and the chunks go to Merge, or through a file to Read.   *)
(*                                                                         *)
(* The message has a singular field `s` and a repeated field `rf`.  The    *)
(* splitter works on the rf of the root, with which Split was called, or   *)
(* it is a child of the root's splitter, with fields_in_parent = {s}, and  *)
(* works on the rf of s.  The root may have been made the base chunk       *)
(* first.  A piece has the tag of its element, a slice that of the message *)
(* the splitter works on (AddChunk with empty_fields).  All pieces are     *)
(* added before the first slice.                                           *)
(***************************************************************************)
EXTENDS RepeatedField, TLC

CONSTANT Chunk      \* chunk indices: 0 up to a bound that no split reaches

VARIABLES
    sent,       \* what was split, how, and who merges it; None before
    cm,         \* the chunked_message of the merge
    brings, record, nodes, emptied, call, stack, result   \* as in Merger

mergeVars == <<cm, brings, record, nodes, emptied, call, stack, result>>

s == 1
rf == 2

Back == INSTANCE Merger WITH
    Field <- {s, rf}, Kind <- <<"message", "repeated">>, Key <- {},
    Contents <- {}, Inputs <- {}, Records <- {},
    input <- cm, op <- sent.op, status <- result

AllGood == [c \in Chunk |-> "good"]

BringsNothing == [c \in Chunk |-> [f \in {s, rf} |-> 0]]

SplitMergeInit ==
    /\ Init
    /\ sent = None
    /\ cm = None /\ brings = BringsNothing /\ record = AllGood
    /\ nodes = (<<>> :> <<>>) /\ emptied = {}
    /\ call = None /\ stack = <<>> /\ result = "running"

Splitting == sent = None /\ Next /\ UNCHANGED <<sent, mergeVars>>

------------------------------------------------------------------------------
(* What AddChunk has made of it *)

\* Chunks come in the order they were added: the base chunk, pieces, slices.
FirstIndex(base) == IF base THEN 1 ELSE 0

\* The path of the message whose rf was split, and its tag.
SplitMessage(child) == IF child THEN <<<<s>>>> ELSE <<>>
PlaceInParent(child) == IF child THEN <<<<"field", s>>>> ELSE <<>>

\* Mutant: the splitter's own place is not put in front.
TagOfPieceInRoot(child, element) == <<<<"field", rf>>, <<"index", element>>>>

TagOfPiece(child, element) ==
    PlaceInParent(child) \o <<<<"field", rf>>, <<"index", element>>>>

Tags(child) ==
    [k \in DOMAIN pieces |-> TagOfPiece(child, pieces[k][1])]
    \o [k \in DOMAIN slices |-> PlaceInParent(child)]

ChunkedMessage(base, child) ==
    LET tags == Tags(child)
    IN  (<<>> :> [tag |-> <<>>, idx |-> IF base THEN 0 ELSE None, size |-> Len(tags)])
        @@ [w \in {<<k>> : k \in DOMAIN tags} |->
               [tag |-> tags[w[1]], idx |-> FirstIndex(base) + w[1] - 1, size |-> 0]]

\* The base chunk is the message as it is in the end, a slice its elements.
Contents(base) ==
    [c \in Chunk |-> [f \in {s, rf} |->
        LET k == c - FirstIndex(base) + 1 - Len(pieces)
        IN  IF f = rf /\ base /\ c = 0 THEN Len(field)
            ELSE IF f = rf /\ k \in DOMAIN slices THEN Len(slices[k]) ELSE 0]]

\* Split has returned OK, and its result is given to Merge, or written and Read.  What
\* is left in the rf of s when there is no slice is like what is left in the root's.
HandOver(base, child, op) ==
    /\ sent = None /\ status = "OK"
    /\ child => slices # <<>>
    /\ sent' = [op |-> op, base |-> base, child |-> child, size |-> Len(input),
                pieces |-> [k \in DOMAIN pieces |-> pieces[k][1]],
                slices |-> Len(slices), lost |-> addFailed]
    /\ cm' = ChunkedMessage(base, child)
    /\ brings' = Contents(base)
    /\ call' = Back!Call(<<>>, <<>>)
    /\ UNCHANGED <<record, nodes, emptied, stack, result>>
    \* The splitter is gone.
    /\ input' = <<>> /\ field' = <<>> /\ slices' = <<>> /\ pieces' = <<>>
    /\ extracted' = None /\ status' = "OK" /\ tries' = 1 /\ addFailed' = FALSE
    /\ StartScan

Merging == sent # None /\ UNCHANGED <<sent, vars>> /\ Back!Next

SplitMergeNext ==
    \/ Splitting
    \/ \E base, child \in BOOLEAN, op \in {"MERGE", "READ"} : HandOver(base, child, op)
    \/ Merging

SplitMergeSpec == SplitMergeInit /\ [][SplitMergeNext]_<<vars, sent, mergeVars>>

------------------------------------------------------------------------------
(* Properties *)

\* What can be merged: pieces of elements that stay in the base chunk, or slices for the
\* message in s.  Slices for the root are dropped (Merger!PortionsAreConcatenated);
\* Merge takes the pieces first, which make elements of their own; and elements that
\* were extracted when AddChunk failed are in no chunk.
Mergeable ==
    /\ sent # None /\ ~sent.lost
    /\ \/ sent.slices = 0 /\ sent.base
       \/ sent.slices > 0 /\ sent.child /\ (sent.op = "READ" \/ sent.pieces = <<>>)

PlaceOfElement(k) == Append(SplitMessage(sent.child), <<rf, k>>)

\* The chunks that were cut out of element k.
ChunksOf(k) ==
    LET cut == SelectSeq([n \in DOMAIN sent.pieces |-> n], LAMBDA n : sent.pieces[n] = k)
    IN  [n \in DOMAIN cut |-> cut[n] + FirstIndex(sent.base) - 1]

\* Splitting and merging give the message back: its elements, no more and no fewer, in
\* their order, each with what was cut out of it, after builds that failed half-way too.
MergedBack ==
    Mergeable /\ result # "running" =>
        LET at == SplitMessage(sent.child)
        IN  /\ result = "OK"
            /\ DOMAIN nodes = {<<>>, at} \union {PlaceOfElement(k) : k \in 0..(sent.size - 1)}
            /\ \A k \in 0..(sent.size - 1) : nodes[PlaceOfElement(k)] = ChunksOf(k)
            /\ sent.child =>
                  nodes[at] = [n \in 1..sent.slices |->
                                  FirstIndex(sent.base) + Len(sent.pieces) + n - 1]
=============================================================================
