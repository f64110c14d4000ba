---------------------------- MODULE RepeatedField ----------------------------
(***************************************************************************)
(* cc/repeated_field_splitter.cc: BuildChunksReturnSize, which lets the    *)
(* splitters of the factories cut pieces out of the elements of a repeated *)
(* field, packs the elements greedily into slices of at most GetMaxSize()  *)
(* bytes, and moves each slice into a chunk of its own.                    *)
(*                                                                         *)
(* An element is its first index and its size; what it holds is not        *)
(* looked at.  A splitter made by a factory is whatever a subclass of      *)
(* SizeSplitter may be: it declines, fails, or cuts some bytes out of the  *)
(* element, adds a chunk for them and returns how many there were, as an   *)
(* int.  size_t and uint64_t are twice as wide as int.                     *)
(***************************************************************************)
EXTENDS Integers, Sequences, SequencesExt, FiniteSets

CONSTANTS
    None,
    Inputs,         \* the sizes of the elements: sequences of Nat
    Factories,      \* how many factories there are
    MaxSize,        \* GetMaxSize()
    ExtraBytes,     \* kExtraBytes
    EncodingBytes,  \* size of an element |-> bytes of its key and its length
    IntBits,        \* the width of int
    MaxTries        \* bound: calls of BuildChunksReturnSize

Element == [id : Nat, size : Nat]

\* Elements are messages in memory: the sizes of two of them, with what the return
\* values of all factories can add to those, are far from the width of size_t.
ElementSize ==
    {n \in 0..(2^(2 * IntBits) - 1) :
        2 * (n + Factories * 2^(IntBits - 1)) + MaxSize + ExtraBytes < 2^(2 * IntBits)}

ASSUME RepeatedFieldAssumption ==
    /\ Factories \in Nat /\ MaxTries \in Nat \ {0} /\ ExtraBytes \in Nat
    /\ IntBits \in Nat \ {0}
    /\ MaxSize \in 1..(2^(2 * IntBits) - 1)
    /\ EncodingBytes \in [ElementSize -> Nat]
    /\ \A sizes \in Inputs : sizes \in Seq(ElementSize)
    /\ None \notin Nat \union Seq(Element)

\* True of the powers of two, and spelled out for provers that do not know ^.
ASSUME PowersOfTwo == /\ 2^(IntBits - 1) \in Nat \ {0}
                      /\ 2^IntBits = 2 * 2^(IntBits - 1)
                      /\ 2^(2 * IntBits) \in Nat \ {0}

VARIABLES
    input,          \* the sizes of the elements to begin with
    field,          \* the repeated field of message(): sequence of elements
    i,              \* the loop's index
    node,           \* node_size, or None before the element is looked at
    factory,        \* the factory that is next for this element
    split,          \* repeated_msg_split
    total,          \* total_size
    extracted,      \* the extracted nodes not yet moved, or None before
    slices,         \* the elements of each chunk that is a slice
    pieces,         \* chunks of nested splitters: <<index, bytes>>
    status,         \* "running", "OK" or "Error"
    tries,          \* calls so far
    addFailed       \* history: AddChunk has failed for a slice

scan == <<i, node, factory, split, total>>
vars == <<input, field, scan, extracted, slices, pieces, status, tries, addFailed>>

Word(x) == x % 2^(2 * IntBits)

\* The conversion to int keeps the low bits.
ToInt(x) == ((x + 2^(IntBits - 1)) % 2^IntBits) - 2^(IntBits - 1)

StartScan == /\ i' = 0
             /\ node' = None
             /\ factory' = 1
             /\ split' = <<0>>
             /\ total' = 0

Init == /\ input \in Inputs
        /\ field = [k \in DOMAIN input |-> [id |-> k, size |-> input[k]]]
        /\ i = 0 /\ node = None /\ factory = 1
        /\ split = <<0>> /\ total = 0
        /\ extracted = None
        /\ slices = <<>> /\ pieces = <<>>
        /\ status = "running"
        /\ tries = 1
        /\ addFailed = FALSE

Scanning == status = "running" /\ extracted = None

Fail == status' = "Error"

------------------------------------------------------------------------------
(* The loop over the elements *)

VisitNode ==
    /\ Scanning /\ i < Len(field) /\ node = None
    /\ node' = field[i + 1].size
    /\ factory' = 1
    /\ UNCHANGED <<input, field, i, split, total, extracted, slices, pieces,
                   status, tries, addFailed>>

AskingFactory == Scanning /\ node # None /\ factory <= Factories

CreateSplitterDeclines ==
    /\ AskingFactory
    /\ factory' = factory + 1
    /\ UNCHANGED <<input, field, i, node, split, total, extracted, slices, pieces,
                   status, tries, addFailed>>

\* CreateSplitter or the nested BuildChunksReturnSize returns an error.
NestedFails == /\ AskingFactory
               /\ Fail
               /\ UNCHANGED <<input, field, scan, extracted, slices, pieces,
                              tries, addFailed>>

NodeAfterNested(size, diff) == Word(size - ToInt(diff))

\* A nested splitter cuts out some of what is left of the element, and returns the
\* difference, as this one does.
NestedSplits(bytes) ==
    /\ AskingFactory
    /\ bytes <= field[i + 1].size
    /\ field' = [field EXCEPT ![i + 1].size = @ - bytes]
    /\ pieces' = Append(pieces, <<i, bytes>>)
    /\ node' = NodeAfterNested(node, bytes)
    /\ factory' = factory + 1
    /\ UNCHANGED <<input, i, split, total, extracted, slices, status, tries, addFailed>>

\* Mutant: the element that overflows a slice goes into it.
NeedsNewSliceLate == total > MaxSize

\* Mutant: a new slice is started one byte early.
NeedsNewSliceEarly == Word(total + node) >= MaxSize

NeedsNewSlice == Word(total + node) > MaxSize

CloseNode ==
    /\ Scanning /\ node # None /\ factory > Factories
    /\ split' = IF NeedsNewSlice THEN Append(split, i) ELSE split
    /\ total' = Word((IF NeedsNewSlice THEN 0 ELSE total) + node + ExtraBytes)
    /\ i' = i + 1
    /\ node' = None
    /\ UNCHANGED <<input, field, factory, extracted, slices, pieces, status, tries,
                   addFailed>>

------------------------------------------------------------------------------
(* Moving the slices out *)

Scanned == Scanning /\ node = None /\ i = Len(field)

NoSlices == /\ Scanned
            /\ Len(split) = 1
            /\ status' = "OK"
            /\ UNCHANGED <<input, field, scan, extracted, slices, pieces, tries, addFailed>>

\* Mutants of the end of the last slice: one short, one past, its own start.
EndOfSlicesShort == Len(field) - 1
EndOfSlicesLong == Len(field) + 1
EndOfSlicesStart == Last(split)

\* repeated_msg_split.push_back(repeated_field_size)
EndOfSlices == Len(field)

\* Mutant: the elements are copied, not moved.
ExtractCopies == field

\* What ExtractSubrange leaves of the field.
LeftByExtract == <<>>

ExtractSubrange ==
    /\ Scanned
    /\ Len(split) > 1
    /\ extracted' = field
    /\ field' = LeftByExtract
    /\ split' = Append(split, EndOfSlices)
    /\ i' = 1                                    \* the second loop's index
    /\ UNCHANGED <<input, node, factory, total, slices, pieces, status, tries,
                   addFailed>>

Moving == status = "running" /\ extracted # None

AddSlice ==
    /\ Moving /\ i < Len(split)
    /\ LET n == split[i + 1] - split[i]
       IN  /\ slices' = Append(slices, SubSeq(extracted, 1, n))
           /\ extracted' = SubSeq(extracted, n + 1, Len(extracted))
    /\ i' = i + 1
    /\ UNCHANGED <<input, field, node, factory, split, total, pieces, status, tries,
                   addFailed>>

\* AddChunk fails: what was extracted is in no message any more.
AddSliceFails ==
    /\ Moving /\ i < Len(split)
    /\ Fail
    /\ addFailed' = TRUE
    /\ UNCHANGED <<input, field, scan, extracted, slices, pieces, tries>>

AllMoved == /\ Moving /\ i = Len(split)
            /\ status' = "OK"
            /\ UNCHANGED <<input, field, scan, extracted, slices, pieces, tries, addFailed>>

------------------------------------------------------------------------------
\* Split is called again after an error: built_ is still false, so the builder runs
\* once more on the message as it now is.
Retry == /\ status = "Error" /\ tries < MaxTries
         /\ status' = "running"
         /\ tries' = tries + 1
         /\ extracted' = None
         /\ StartScan
         /\ UNCHANGED <<input, field, slices, pieces, addFailed>>

Next == \/ VisitNode
        \/ CreateSplitterDeclines
        \/ NestedFails
        \/ \E bytes \in 0..(IF AskingFactory THEN field[i + 1].size ELSE 0) : NestedSplits(bytes)
        \/ CloseNode
        \/ NoSlices
        \/ ExtractSubrange
        \/ AddSlice
        \/ AddSliceFails
        \/ AllMoved
        \/ Retry

Spec == Init /\ [][Next]_vars

------------------------------------------------------------------------------
(* Properties *)

TypeOK == /\ field \in Seq(Element)
          /\ i \in 0..(Len(input) + 2)
          /\ node \in 0..(2^(2 * IntBits) - 1) \union {None}
          /\ factory \in 1..(Factories + 1)
          /\ split \in Seq(0..Len(input))
          /\ total \in 0..(2^(2 * IntBits) - 1)
          /\ extracted # None => extracted \in Seq(Element)
          /\ slices \in Seq(Seq(Element))
          /\ pieces \in Seq(Nat \X Nat)
          /\ status \in {"running", "OK", "Error"}
          /\ tries \in 1..MaxTries
          /\ addFailed \in BOOLEAN

Ids(s) == [k \in DOMAIN s |-> s[k].id]

\* Unless AddChunk failed for a slice, no element is lost, doubled or put in another
\* order, across nested splitters that fail and builds that are tried again: the
\* slices, what is extracted and what is still in the field make up the input.
ElementsInOrder ==
    ~addFailed =>
        Ids(FlattenSeq(slices) \o (IF extracted = None THEN <<>> ELSE extracted) \o field)
            = [k \in DOMAIN input |-> k]

\* A call that succeeds leaves either everything or nothing in the message, and then
\* no extracted element is left over.
AllOrNothing ==
    status = "OK" => extracted \in {None, <<>>} /\ (slices # <<>> => field = <<>>)

SumOf(c) == LET sum[k \in 0..Len(c)] == IF k = 0 THEN 0 ELSE sum[k - 1] + c[k]
            IN  sum[Len(c)]

\* The bytes of a message with the elements of s.
EncodedBytes(s) == SumOf([k \in DOMAIN s |-> s[k].size + EncodingBytes[s[k].size]])

\* kExtraBytes is enough for what the encoding adds to e: it is not for a large field
\* number, or for an element of many megabytes.
Covered(e) == EncodingBytes[e.size] <= ExtraBytes

\* A slice of more than one element exceeds GetMaxSize(), the "max size allowed by each
\* chunk" (max_size.h:22), by no more than the key and the length of its last element,
\* for which the estimate leaves no room, and what kExtraBytes is too few for.  This is
\* so also when a nested splitter cut so much that its int return value wrapped.
SlicesFit ==
    \A k \in DOMAIN slices :
        LET s == slices[k]
        IN  Len(s) > 1 /\ (\A n \in 1..(Len(s) - 1) : Covered(s[n])) =>
                EncodedBytes(s) <= MaxSize + EncodingBytes[Last(s).size]

\* Only the first slice may be empty, and it is when the first element alone is over
\* the limit (as far as node_size tells).
OnlyFirstEmpty == \A k \in DOMAIN slices : slices[k] = <<>> => k = 1

NoneWrapped == \A k \in DOMAIN pieces : pieces[k][2] < 2^(IntBits - 1)

\* What total_size is after the elements of s.
BytesOf(s) == SumOf([k \in DOMAIN s |-> s[k].size + ExtraBytes])

\* What the code compares with the limit, the last element being node_size.
Estimate(s) == BytesOf(s) - ExtraBytes

\* When no return value wrapped, a slice ends only where the next element would not
\* have fitted in by the code's estimate.
Greedy ==
    NoneWrapped =>
        \A k \in 1..(Len(slices) - 1) :
            slices[k] # <<>> /\ slices[k + 1] # <<>> =>
                Estimate(Append(slices[k], Head(slices[k + 1]))) > MaxSize

(***************************************************************************)
(* The inductive invariant the proofs in RepeatedField_proofs use.         *)
(***************************************************************************)

Elem == [id : Nat, size : ElementSize]

Left == IF extracted = None THEN <<>> ELSE extracted

\* By the estimate, a slice of more than one element is within the limit.
SlicesEstimated == \A k \in DOMAIN slices : Len(slices[k]) > 1 => Estimate(slices[k]) <= MaxSize

\* Every element, wherever it is now.
Whole == FlattenSeq(slices) \o Left \o field

\* The elements of w from a up to b, counted from 0, without b.
Slice(w, a, b) == SubSeq(w, a + 1, b)

\* The slice of w from a to b is within the limit, and had no room for one more.
Packed(w, a, b) ==
    /\ b - a > 1 => Estimate(Slice(w, a, b)) <= MaxSize
    /\ NoneWrapped /\ a < b /\ b < Len(w) => Estimate(Slice(w, a, b + 1)) > MaxSize

\* Splits go up, and only the first slice is empty.
SplitInv(w) == /\ split \in Seq(0..Len(w))
               /\ split # <<>> /\ split[1] = 0
               /\ \A k \in 2..Len(split) :
                     /\ split[k - 1] <= split[k]
                     /\ k > 2 => split[k - 1] < split[k]
                     /\ Packed(w, split[k - 1], split[k])

\* The slice that is open, and the element that is looked at: total and node are at
\* least as large, and exact unless a return value wrapped.
OpenInv == LET open == Slice(field, Last(split), i)
           IN  /\ BytesOf(open) <= total
               /\ NoneWrapped => BytesOf(open) = total
               /\ i - Last(split) > 1 => total - ExtraBytes <= MaxSize

NodeInv == node # None =>
               /\ i < Len(field)
               /\ node \in Nat
               /\ field[i + 1].size <= node
               /\ NoneWrapped => field[i + 1].size = node
               /\ \E n \in ElementSize : node <= n + (factory - 1) * 2^(IntBits - 1)

TotalInv == /\ total \in Nat
            /\ \/ total <= MaxSize + ExtraBytes
               \/ 2 * (total - ExtraBytes) + MaxSize + ExtraBytes < 2^(2 * IntBits)

ScanInv == /\ i \in 0..Len(field)
           /\ factory \in 1..(Factories + 1)
           /\ Len(split) <= i + 1
           /\ \A k \in DOMAIN split : split[k] <= i /\ (k > 1 => split[k] < i)
           /\ SplitInv(field)
           /\ OpenInv
           /\ NodeInv
           /\ TotalInv

MoveInv == /\ ~addFailed
           /\ i \in 1..Len(split)
           /\ Len(split) <= Len(input) + 2
           /\ Last(split) = Len(Whole)
           /\ SplitInv(Whole)
           /\ Len(slices) = i - 1
           /\ \A k \in 1..(i - 1) : slices[k] = Slice(Whole, split[k], split[k + 1])
           /\ extracted = Slice(Whole, split[i], Len(Whole))

\* Where the elements are.
FieldInv == /\ input \in Seq(Nat)
            /\ field \in Seq(Elem) /\ Len(field) <= Len(input)
            /\ slices \in Seq(Seq(Elem))
            /\ extracted # None => extracted \in Seq(Elem) /\ field = <<>>
            /\ slices # <<>> \/ addFailed => field = <<>>

RepeatedFieldInv ==
    /\ TypeOK
    /\ FieldInv
    /\ status = "Error" => extracted = None \/ addFailed
    /\ Scanning => ScanInv
    /\ Moving => MoveInv
    /\ ElementsInOrder /\ AllOrNothing /\ SlicesEstimated /\ OnlyFirstEmpty /\ Greedy
=============================================================================
