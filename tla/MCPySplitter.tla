---------------------------- MODULE MCPySplitter ----------------------------
(* A splitter and a child; one place that does not exist in the root's proto. *)
EXTENDS PySplitter, TLC

CONSTANTS c1, c2, base, none

MCChunk == {c1, c2}
MCPath == ("root" :> <<>>) @@ ("kid" :> <<"rs">>)
MCRelTag == {<<>>, <<"s">>}
MCValidTag == {<<>>, <<"rs", "s">>}

ChunkSymmetry == Permutations(MCChunk)
=============================================================================
