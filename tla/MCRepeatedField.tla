-------------------------- MODULE MCRepeatedField --------------------------
(* Up to three elements; int has three bits, so that a size of 4 or more that a *)
(* nested splitter reports does not fit in it.                                  *)
EXTENDS SplitMerge

CONSTANT none

\* One byte more than ExtraBytes for an element of three bytes or more.
MCEncodingBytes == [n \in ElementSize |-> IF n < 3 THEN 1 ELSE 2]

MCInputs == UNION {[1..n -> {0, 2, 5}] : n \in 0..3}
=============================================================================
