----------------------------- MODULE MCFieldTags -----------------------------
(* int has four bits, int64 six: -1 is 15 as a uint32 and 63 as a uint64.       *)
EXTENDS FieldTags

CONSTANT none

MCKind == <<"message", "repeated", "map", "scalar", "scalars", "scalarMap">>
MCName == <<"m", "r", "p", "s", "ss", "sp">>
MCKeyTypes == {"bool", "string", "int32", "int64", "uint32", "uint64", "sint32"}

Str(s) == <<"str", s>>
Nr(n) == <<"int", n>>
Bool(b) == <<"bool", b>>

Fields == {Str(MCName[n]) : n \in 1..6} \union {Nr(n) : n \in 1..3} \union {Bool(TRUE), Str("none")}
Steps == {Str("m"), Nr(2), Str("p")}
Values == {Nr(-8), Nr(-2), Nr(-1), Nr(0), Nr(2), Bool(TRUE), Str("true"), Str("-1"), Str("x")}
WideValues == {Nr(8), Nr(15), Nr(63), Nr(-16)}

Paths(values) ==
    {<<>>} \union {<<f>> : f \in Fields} \union {<<f, x>> : f \in Fields, x \in values \union Steps}
    \union {<<f, x, g>> : f \in Steps, x \in values \union {Str("m")}, g \in {Str("m"), Nr(2), Str("s")}}
    \union {<<f, x, g, y>> : f \in Steps, x \in values, g \in Steps, y \in {Nr(0), Nr(-1), Str("-1"), Nr(2), Nr(3)}}

MCCppPaths == Paths(Values)
MCPyPaths == Paths(Values \union WideValues)

\* With the key 0, false or "x", or with the one that -1, true or "-1" stand for.
MCSampleKeys(type) ==
    CASE type = "bool"   -> {<<"bool", b>> : b \in BOOLEAN}
      [] type = "string" -> {<<"str", s>> : s \in {"x", "-1", "true"}}
      [] type \in {"int32", "int64", "sint32"} -> {<<"int", n>> : n \in {0, -1}}
      [] type = "uint32" -> {<<"int", n>> : n \in {0, 15}}
      [] type = "uint64" -> {<<"int", n>> : n \in {0, 63}}
=============================================================================
