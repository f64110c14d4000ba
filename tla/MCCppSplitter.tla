---------------------------- MODULE MCCppSplitter ----------------------------
(* A splitter, its child and the child's child; two valid places and two that    *)
(* the root's descriptor does not have.                                          *)
EXTENDS CppSplitter, TLC

CONSTANTS c1, c2, c3, root, kid, grandkid, base, none

MCChunk == {c1, c2, c3}
MCTwoChunks == {c1, c2}
MCChild == {kid, grandkid}
MCParent == (kid :> root) @@ (grandkid :> kid)
MCFieldsInParent == (kid :> <<"rs">>) @@ (grandkid :> <<"s">>)
MCPath == (root :> <<>>) @@ (kid :> <<"rs">>) @@ (grandkid :> <<"rs", "s">>)
MCRelTag == {<<>>, <<"s">>}
MCValidTag == {<<>>, <<"rs">>, <<"rs", "s">>}

ChunkSymmetry == Permutations(MCChunk)
==============================================================================
