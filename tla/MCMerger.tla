------------------------------ MODULE MCMerger ------------------------------
(* One recursive message type with a field of each kind.  Chunk 2 brings an      *)
(* element of the repeated messages and one of the repeated strings.             *)
EXTENDS Merger, TLC

CONSTANT none

MCField == 1..7
MCKind == <<"message", "repeated", "map", "string", "number", "strings", "stringMap">>
MCChunk == 0..3
MCContents == {[c \in MCChunk |->
                [f \in MCField |-> IF c \in {0, 2} /\ f \in {2, 6} THEN c \div 2 ELSE 0]]}

M == <<"field", 1>>
R == <<"field", 2>>
P == <<"field", 3>>
I(i) == <<"index", i>>
K(k) == <<"key", k>>

MCKey == {7, 8}

\* An entry, and a list of entries, in a ChunkedMessage.
At(tag, c) == [tag |-> tag, idx |-> c, size |-> 0]
Message(c, entries) ==
    (<<>> :> [tag |-> <<>>, idx |-> c, size |-> Len(entries)])
    @@ [w \in {<<i>> : i \in DOMAIN entries} |-> entries[w[1]]]

\* Entry 1 of t has u for its own only entry.
Nest(t, u) == (<<1>> :> [t[<<1>>] EXCEPT !.size = 1]) @@ (<<1, 1>> :> u) @@ t

\* Lists of entries for chunks 1, 2, ... in any order, with tags from `tags`.
Lists(tags, n) ==
    {[i \in 1..n |-> At(f[i], p[i])] : f \in [1..n -> tags], p \in Permutations(1..n)}

PlainTags == {<<M>>, <<M, M>>, <<R, I(0)>>, <<R, I(1)>>, <<M, R, I(0)>>, <<M, R, I(1)>>}
OddTags == {<<>>, <<R>>, <<P, K(8)>>, <<P, K(8), R, I(1)>>, <<M, <<"field", 4>>>>,
            <<<<"field", 5>>>>, <<<<"field", 6>>>>, <<M, <<"field", 6>>>>,
            <<<<"field", 7>>, K(7)>>}

Whole(entries) == Message(0, entries)
Parts(entries) == Message(none, entries)

\* Flat lists, with the message itself as chunk 0 or without.
FlatInputs ==
    UNION {{Whole(l) : l \in Lists(PlainTags, n)} : n \in 0..2}
    \union {Whole(l) : l \in Lists(PlainTags \ {<<M, R, I(1)>>}, 3)}
    \union {Parts(l) : l \in Lists(PlainTags, 2)}
    \union {Whole(l) : l \in Lists(PlainTags \union OddTags, 2)}

\* A field whose message is itself chunked, beside another field.
NestedInputs ==
    {Nest(Whole(<<At(t, c), At(v, 3)>>), At(u, 2)) :
        t \in {<<M>>, <<R, I(0)>>, <<P, K(7)>>}, c \in {1, none},
        u \in {<<>>, <<M>>, <<R, I(0)>>, <<R, I(1)>>},
        v \in {<<M>>, <<M, M>>, <<R, I(0)>>, <<M, R, I(0)>>}}

MCInputs == FlatInputs \union NestedInputs

\* The ChunkedMessage that TestSplitChunks of composable_splitter_test.cc expects, the
\* same with the message as base chunk, and shorter ones.
S(i) == <<<<"field", 6>>, I(i)>>
MCStringInputs ==
    {Parts(<<At(S(0), 0), At(S(1), 1), At(S(2), 2)>>),
     Parts(<<At(S(0), 0)>>),
     Whole(<<At(S(0), 1), At(S(1), 2)>>)}

\* All good, or one record bad.
MCRecords ==
    {[c \in MCChunk |-> IF c = bad THEN how ELSE "good"] :
        bad \in MCChunk, how \in {"good", "missing", "garbled"}}
=============================================================================
