---------------------------- MODULE MCChunkFile ----------------------------
(* One version that is not split, and two that are split into 2 and 3 chunks. *)
EXTENDS ChunkFile, TLC

CONSTANTS whole, two, three, none

MCVersion == {whole, two, three}
MCChunks == (whole :> 0) @@ (two :> 2) @@ (three :> 3)
=============================================================================
