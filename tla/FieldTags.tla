------------------------------ MODULE FieldTags ------------------------------
(***************************************************************************)
(* cc/util.cc and util.py: how the place of a chunk, given by a caller as  *)
(* a path of names, numbers, map keys and indices, becomes the field_tag   *)
(* of an entry, and how ProcessField (merge.cc) finds the place again.     *)
(*                                                                         *)
(* A caller's element is <<"str", s>>, <<"int", n>> or <<"bool", b>>, the  *)
(* alternatives of FieldType.  On the wire a key has the proto type of the *)
(* map's keys and an index is a uint64; GetFieldTypes casts both to int.   *)
(* An int has IntBits bits, like int32 and uint32; int64 and uint64 have   *)
(* LongBits.  In Python an int has no width.                               *)
(*                                                                         *)
(* All messages are of one recursive type, whose maps have keys of type    *)
(* keyType.  "sint32" stands for the key types AddMapKey does not          *)
(* implement.  All messages there are hold the same: `size` elements in a  *)
(* repeated field, `keys` in a map.  What the merge creates is empty.      *)
(***************************************************************************)
EXTENDS Integers, Sequences, SequencesExt, TLC

CONSTANTS
    None,
    IntBits, LongBits,
    Kind,           \* what each field number is
    Name,           \* the name of each field number
    KeyTypes,       \* the key types a descriptor's maps may have
    CppPaths,       \* the paths callers pass to AddFieldTag
    PyPaths,        \* and to get_field_tag
    Sizes,          \* how many elements a repeated field may have
    SampleKeys(_)   \* keys of a type that a map may hold

Number == DOMAIN Kind

Kinds == {"message", "repeated", "map", "scalar", "scalars", "scalarMap"}

Signed(n, bits) == ((n + 2^(bits - 1)) % 2^bits) - 2^(bits - 1)
Unsigned(n, bits) == n % 2^bits

Int32 == (-(2^(IntBits - 1)))..(2^(IntBits - 1) - 1)

\* What a caller may pass for a name, a number, a key or an index.
Element(ints) == ({"str"} \X STRING) \union ({"int"} \X ints) \union ({"bool"} \X BOOLEAN)

ASSUME FieldTagsAssumption ==
    /\ IntBits \in Nat /\ LongBits \in Nat /\ 1 < IntBits /\ IntBits < LongBits
    /\ \A n \in Number : Kind[n] \in Kinds /\ n \in Int32 /\ n > 0
    /\ DOMAIN Name = Number
    /\ KeyTypes \subseteq {"bool", "string", "int32", "int64", "uint32", "uint64", "sint32"}
    /\ CppPaths \subseteq Seq(Element(Int32)) /\ PyPaths \subseteq Seq(Element(Int))
    /\ Sizes \subseteq Nat
    /\ None \notin Element(Int)

\* Facts about the widths.
ASSUME PowersOfTwo ==
    /\ 2^(IntBits - 1) \in Nat \ {0, 1} /\ 2^IntBits = 2 * 2^(IntBits - 1)
    /\ 2^(LongBits - IntBits) \in Nat \ {0, 1}
    /\ 2^LongBits = 2^(LongBits - IntBits) * 2^IntBits
    /\ 2^LongBits = 2 * 2^(LongBits - 1)
    /\ 2^(LongBits - 1) \in Nat /\ 2^IntBits <= 2^(LongBits - 1)

VARIABLES
    writer,     \* "C++" or "Python"
    keyType,    \* the type of the keys of the descriptor's maps
    path,       \* the caller's `fields`
    written,    \* what AddFieldTag or get_field_tag made of it
    todo,       \* the rest of what GetFieldTypes returned
    message,    \* what the merged messages hold
    here,       \* what the message that was reached holds
    place,      \* how it was reached
    status

inputs == <<writer, keyType, path, message>>
vars == <<inputs, written, todo, here, place, status>>

The(S) == CHOOSE x \in S : TRUE

------------------------------------------------------------------------------
(* FieldInt, FieldBool, FieldString.  What may fail returns a set: empty, or one value. *)

FieldInt(x) ==
    CASE x[1] = "int"  -> {x[2]}
      [] x[1] = "bool" -> {IF x[2] THEN 1 ELSE 0}
      [] x[1] = "str"  -> {n \in Int32 : ToString(n) = x[2]}

BoolString(b) == IF b THEN "true" ELSE "false"

\* What is printed is text, and different numbers are printed as different texts.
ASSUME PrintedTexts ==
    /\ \A b \in BOOLEAN : BoolString(b) \in STRING
    /\ \A m, n \in Int32 : /\ ToString(m) \in STRING
                           /\ ToString(m) = ToString(n) => m = n

FieldBool(x) ==
    CASE x[1] = "int"  -> {x[2] # 0}
      [] x[1] = "bool" -> {x[2]}
      [] x[1] = "str"  -> {b \in BOOLEAN : BoolString(b) = x[2]}

FieldString(x) ==
    CASE x[1] = "int"  -> ToString(x[2])
      [] x[1] = "bool" -> BoolString(x[2])
      [] x[1] = "str"  -> x[2]

\* An int as a value of an integer type.
Converted(n) ==
    CASE keyType \in {"int32", "sint32"} -> Signed(n, IntBits)
      [] keyType = "int64"               -> Signed(n, LongBits)
      [] keyType = "uint32"              -> Unsigned(n, IntBits)
      [] keyType = "uint64"              -> Unsigned(n, LongBits)

\* The key of the map that x stands for.
KeyOf(x) ==
    CASE keyType = "bool"   -> {<<"bool", b>> : b \in FieldBool(x)}
      [] keyType = "string" -> {<<"str", FieldString(x)>>}
      [] OTHER              -> {<<"int", Converted(n)>> : n \in FieldInt(x)}

------------------------------------------------------------------------------
(* The walk of util.cc and util.py along a path, with the callbacks of each caller: *)
(* AddFieldTag, get_field_tag, and GetField (which GetMutableField follows).         *)

\* What the element behind field n is, and whether there can be fields below.
Behind(n) == CASE Kind[n] \in {"map", "scalarMap"}     -> "mapKey"
               [] Kind[n] \in {"repeated", "scalars"} -> "listIndex"
               [] OTHER                               -> "field"

HasFields(n) == Kind[n] \in {"message", "repeated", "map"}

Failed(w, how) == [w EXCEPT !.status = how]

\* `desc`: does the current message_desc exist?  `next`: what the next element is.
WalkStart == [status |-> "OK", desc |-> TRUE, next |-> "field", tag |-> <<>>, place |-> <<>>]

Extended(steps, x) == [steps EXCEPT ![Len(steps)] = Append(@, x)]

TagField(w, n) == [w EXCEPT !.tag = Append(@, <<"field", n>>), !.place = Append(@, <<n>>)]

TagKey(w, k) == [w EXCEPT !.tag = Append(@, <<"key", k>>), !.place = Extended(@, k)]

\* Mutant: a negative index is written as it is.
WireIndexSigned(i) == i

WireIndex(i) == Unsigned(i, LongBits)

TagIndex(w, i) ==
    [w EXCEPT !.tag = Append(@, <<"index", WireIndex(i)>>), !.place = Extended(@, <<"int", i>>)]

\* Mutant: every integer is stored as an int32.
MapKeyAsInt(x) ==
    IF keyType \in {"bool", "string", "sint32"} THEN {}
    ELSE {<<"int", Signed(n, IntBits)>> : n \in FieldInt(x)}

MapKey(x) == IF keyType = "sint32" THEN {} ELSE KeyOf(x)

\* add_field_tag()->mutable_map_key() comes first: on an error it stays, unset.
AddMapKey(w, x) ==
    IF MapKey(x) = {} THEN Failed([w EXCEPT !.tag = Append(@, <<"key", None>>)], "error")
    ELSE TagKey(w, The(MapKey(x)))

AddIndex(w, x) ==
    IF FieldInt(x) = {} THEN Failed(w, "error") ELSE TagIndex(w, The(FieldInt(x)))

\* Mutant: the key goes by its own type, not by the type of the map's keys.
MapKeyProtoAsIs(x) == {x}

\* protobuf for Python checks the type and the range of what it is given.
MapKeyProto(x) ==
    IF keyType = "sint32" \/ (keyType = "string") # (x[1] = "str") THEN {}
    ELSE {k \in KeyOf(x) : keyType \in {"bool", "string"} \/ k[2] \in FieldInt(x)}

AddMapKeyPy(w, x) ==
    IF MapKeyProto(x) = {} THEN Failed(w, "error") ELSE TagKey(w, The(MapKeyProto(x)))

AddIndexPy(w, x) ==
    IF x[1] = "str" THEN Failed(w, "error")
    ELSE LET i == The(FieldInt(x))
         IN  IF i \in 0..(2^LongBits - 1) THEN TagIndex(w, i) ELSE Failed(w, "error")

\* Mutant: the int is compared with the stored key as it is.
FindMapKeyUnconverted(keys, x) ==
    IF keyType \in {"bool", "string"} THEN keys \intersect KeyOf(x)
    ELSE {k \in keys : k[2] \in FieldInt(x)}

\* The keys of the map that equal x.  An x that cannot be a key is an error, but
\* nobody notices it in an empty map.
FindMapKey(keys, x) == keys \intersect KeyOf(x)

\* A negative index passes for one that is there.
NegativeIndex(step) ==
    Kind[step[1]] = "repeated" /\ Len(step) = 2 /\ step[2][2] < 0

\* The messages there are all hold the same: stepping into the field before changes
\* nothing else.
EnterField(w, n) ==
    IF w.place # <<>> /\ NegativeIndex(Last(w.place))
    THEN Failed(w, "crash")
    ELSE [w EXCEPT !.place = Append(@, <<n>>)]

FindKey(w, x) ==
    IF FindMapKey(message.keys, x) = {} THEN Failed(w, "error")
    ELSE [w EXCEPT !.place = Extended(@, The(FindMapKey(message.keys, x)))]

FindIndex(w, x) ==
    IF \E i \in FieldInt(x) : i < message.size
    THEN [w EXCEPT !.place = Extended(@, <<"int", The(FieldInt(x))>>)]
    ELSE Failed(w, "error")

FieldCallback(caller, w, n) ==
    IF caller = "GetField" THEN EnterField(w, n) ELSE TagField(w, n)

MapKeyCallback(caller, w, x) ==
    CASE caller = "AddFieldTag"   -> AddMapKey(w, x)
      [] caller = "get_field_tag" -> AddMapKeyPy(w, x)
      [] caller = "GetField"      -> FindKey(w, x)

ListIndexCallback(caller, w, x) ==
    CASE caller = "AddFieldTag"   -> AddIndex(w, x)
      [] caller = "get_field_tag" -> AddIndexPy(w, x)
      [] caller = "GetField"      -> FindIndex(w, x)

\* FindFieldByName, FindFieldByNumber.  In C++ a bool is an error; in Python
\* isinstance(True, int) holds, and it is a field number.
FindField(caller, x) ==
    CASE x[1] = "str"  -> {n \in Number : Name[n] = x[2]}
      [] x[1] = "int"  -> {n \in Number : n = x[2]}
      [] x[1] = "bool" -> IF caller = "get_field_tag" THEN Number \intersect FieldInt(x) ELSE {}

\* Below a scalar message_desc is null, or None; C++ refuses a bool before it is used.
BelowScalar(caller, x) ==
    IF caller = "get_field_tag" \/ x[1] = "bool" THEN "error" ELSE "crash"

WalkField(caller, w, x) ==
    CASE ~w.desc -> Failed(w, BelowScalar(caller, x))
      [] w.desc /\ FindField(caller, x) = {} -> Failed(w, "error")
      [] w.desc /\ FindField(caller, x) # {} ->
            LET n == The(FindField(caller, x))
            IN  [FieldCallback(caller, w, n) EXCEPT !.next = Behind(n), !.desc = HasFields(n)]

\* One element of the path.
WalkOn(caller, w, x) ==
    CASE w.status # "OK" -> w
      [] w.status = "OK" /\ w.next = "mapKey" ->
            [MapKeyCallback(caller, w, x) EXCEPT !.next = "field"]
      [] w.status = "OK" /\ w.next = "listIndex" ->
            [ListIndexCallback(caller, w, x) EXCEPT !.next = "field"]
      [] w.status = "OK" /\ w.next = "field" -> WalkField(caller, w, x)

WalkFields(caller, fields) ==
    LET walk[i \in 0..Len(fields)] ==
            IF i = 0 THEN WalkStart ELSE WalkOn(caller, walk[i - 1], fields[i])
    IN  walk[Len(fields)]

AddFieldTag(fields) == WalkFields("AddFieldTag", fields)
GetFieldTag(fields) == WalkFields("get_field_tag", fields)
GetField(fields)    == WalkFields("GetField", fields)
------------------------------------------------------------------------------
Init == /\ writer \in {"C++", "Python"}
        /\ keyType \in KeyTypes
        /\ path \in IF writer = "C++" THEN CppPaths ELSE PyPaths
        /\ message \in [size : Sizes, keys : {{}} \union {{k} : k \in SampleKeys(keyType)}]
        /\ written = WalkStart
        /\ todo = <<>>
        /\ here = message
        /\ place = <<>>
        /\ status = "calling"

\* An entry that AddFieldTag could not finish stays in the ChunkedMessage.
CallAddFieldTag ==
    /\ status = "calling" /\ writer = "C++"
    /\ written' = AddFieldTag(path)
    /\ status' = IF written'.status = "crash" THEN "crash" ELSE "tagged"
    /\ UNCHANGED <<inputs, todo, here, place>>

CallGetFieldTag ==
    /\ status = "calling" /\ writer = "Python"
    /\ written' = GetFieldTag(path)
    /\ status' = IF written'.status = "error" THEN "raised" ELSE "tagged"
    /\ UNCHANGED <<inputs, todo, here, place>>

------------------------------------------------------------------------------
(* Back from the tag to the place: GetFieldTypes and the loop of ProcessField *)

\* Mutant: the cast does not know about the sign.
ToIntUnsigned(n) == Unsigned(n, IntBits)

\* static_cast<int>
ToInt(n) == Signed(n, IntBits)

MapKeyOfTag(k) == IF k[1] = "int" THEN <<"int", ToInt(k[2])>> ELSE k

\* A field, or the index or the map key of the last one.
AddFieldIndex(fields, t) ==
    CASE t[1] = "field" -> Append(fields, <<t[2]>>)
      [] t[1] = "index" -> Extended(fields, <<"int", ToInt(t[2])>>)
      [] t[1] = "key"   -> Extended(fields, MapKeyOfTag(t[2]))

GetFieldTypes(tag) ==
    LET fields[i \in 0..Len(tag)] ==
            IF i = 0 THEN <<>> ELSE AddFieldIndex(fields[i - 1], tag[i])
    IN  fields[Len(tag)]

\* fields_or.value() is not checked.
ProcessFieldBadTag ==
    /\ status = "tagged"
    /\ <<"key", None>> \in ToSet(written.tag)
    /\ status' = "crash"
    /\ UNCHANGED <<inputs, written, todo, here, place>>

ProcessField ==
    /\ status = "tagged"
    /\ <<"key", None>> \notin ToSet(written.tag)
    /\ todo' = GetFieldTypes(written.tag)
    /\ status' = "following"
    /\ UNCHANGED <<inputs, written, here, place>>

Step == Head(todo)

Following(kinds, len) == /\ status = "following" /\ todo # <<>>
                         /\ Kind[Step[1]] \in kinds
                         /\ Len(Step) = len

Empty == [size |-> 0, keys |-> {}]

Reach(step, content) == /\ place' = Append(place, step)
                        /\ here' = content
                        /\ todo' = Tail(todo)
                        /\ UNCHANGED <<inputs, written, status>>

End(how) == /\ status' = how
            /\ UNCHANGED <<inputs, written, todo, here, place>>

FollowMessage == Following({"message"}, 1) /\ Reach(Step, here)

\* The last field of its tag, and the business of SetFieldElement.
FollowScalar == Following({"scalar"}, 1) /\ Reach(Step, Empty)

FollowKey ==
    /\ Following({"map"}, 2)
    /\ FindMapKey(here.keys, Step[2]) # {}
    /\ Reach(<<Step[1], The(FindMapKey(here.keys, Step[2]))>>, here)

\* AddMapEntry, after which the key is there.
KeysAfterAdd == here.keys \union KeyOf(Step[2])

AddMapEntry ==
    /\ Following({"map"}, 2)
    /\ FindMapKey(here.keys, Step[2]) = {}
    /\ FindMapKey(KeysAfterAdd, Step[2]) # {}
    /\ Reach(<<Step[1], The(FindMapKey(KeysAfterAdd, Step[2]))>>, Empty)

\* The element that is there, or one that AddMessage has appended.
FollowElement ==
    /\ Following({"repeated"}, 2)
    /\ Step[2][2] \in 0..here.size
    /\ Reach(Step, IF Step[2][2] = here.size THEN Empty ELSE here)

\* std::max(0, mutable_field_index): the first element, when that is not the last field.
FollowNegative ==
    /\ Following({"repeated"}, 2)
    /\ Step[2][2] < -1 /\ here.size > 0
    /\ IF Len(todo) = 1 THEN End("OutOfRange") ELSE Reach(<<Step[1], <<"int", 0>>>>, here)

\* No index, or -1, which passes for none: field_index was never assigned, and is some
\* index, in the field or outside.
FollowScalars == /\ \/ Following({"scalars"}, 1)
                    \/ Following({"scalars"}, 2) /\ Step[2][2] = -1
                 /\ (here.size > 0 /\ Reach(Step, Empty)) \/ End("OutOfRange")

\* value() of an error, or a reflection call that is wrong for the field.
FollowCrash ==
    /\ \/ Following({"repeated", "map", "scalarMap"}, 1)
       \/ Following({"scalarMap"}, 2)
       \/ Following({"scalars"}, 2) /\ Step[2][2] # -1
       \/ Following({"repeated"}, 2) /\ Step[2][2] > here.size
       \/ Following({"repeated"}, 2) /\ Step[2][2] < 0 /\ (Step[2][2] = -1 \/ here.size = 0)
       \/ Following({"map"}, 2) /\ FindMapKey(KeysAfterAdd, Step[2]) = {}
    /\ End("crash")

Arrive == /\ status = "following" /\ todo = <<>>
          /\ End("there")

Next == \/ CallAddFieldTag \/ CallGetFieldTag
        \/ ProcessFieldBadTag \/ ProcessField
        \/ FollowMessage \/ FollowScalar \/ FollowKey \/ AddMapEntry
        \/ FollowElement \/ FollowNegative \/ FollowScalars \/ FollowCrash
        \/ Arrive

Spec == Init /\ [][Next]_vars

------------------------------------------------------------------------------
(* Properties *)

\* A field, or a field with its index or key.
PlaceStep == {<<n>> : n \in Number} \union (Number \X Element(Int))

\* Types; an index on the wire is a uint64, and a place is no longer than the path.
TypeOK ==
    /\ writer \in {"C++", "Python"}
    /\ keyType \in KeyTypes
    /\ written.status \in {"OK", "error", "crash"}
    /\ \A t \in ToSet(written.tag) : t[1] = "index" => t[2] \in 0..(2^LongBits - 1)
    /\ todo \in Seq(PlaceStep) /\ place \in Seq(PlaceStep)
    /\ Len(todo) + Len(place) <= Len(path)
    /\ here \in {message, Empty}
    /\ status \in {"calling", "raised", "tagged", "following", "there", "OutOfRange", "crash"}

\* The numbers in a place survive static_cast<int> and, for an index, are no
\* substitute for "no index".
FitsInt(steps) ==
    \A k \in DOMAIN steps :
        Len(steps[k]) = 2 /\ steps[k][2][1] = "int" =>
            IF Kind[steps[k][1]] \in {"repeated", "scalars"}
            THEN steps[k][2][2] >= 0 /\ steps[k][2][2] \in Int32
            ELSE writer = "C++" \/ keyType = "uint32" \/ steps[k][2][2] \in Int32

\* The merge gets to the place the caller meant, whatever the type of the map's keys and
\* whichever of name, number, text and bool the caller used for it; and with what an
\* AddFieldTag that failed has left behind, to the place it had come to.
LeadsBack == status = "there" /\ FitsInt(written.place) => place = written.place

\* Every repeated field and every map on the way, of messages or of scalars, has its index
\* or its key.
Complete(steps) ==
    \A k \in DOMAIN steps : Kind[steps[k][1]] \in {"message", "scalar"} \/ Len(steps[k]) = 2

\* The step leads to a message that is there before the merge.
IsThere(step) ==
    \/ Kind[step[1]] = "message"
    \/ Kind[step[1]] = "repeated" /\ Len(step) = 2 /\ MapKeyOfTag(step[2])[2] < message.size
    \/ Kind[step[1]] = "map" /\ Len(step) = 2
       /\ FindMapKey(message.keys, MapKeyOfTag(step[2])) # {}

\* How many elements a list has when the merge gets to step k: none in what it has made.
SizeAt(steps, k) == IF \A j \in 1..(k - 1) : IsThere(steps[j]) THEN message.size ELSE 0

\* An index is that of an element, or of the one to be added.
InOrder(steps) ==
    \A k \in DOMAIN steps :
        Kind[steps[k][1]] \in {"repeated", "scalars"} /\ Len(steps[k]) = 2 =>
            steps[k][2][2] \in 0..SizeAt(steps, k) /\ steps[k][2][2] \in Int32

Avoids(steps, kinds) == \A k \in DOMAIN steps : Kind[steps[k][1]] \notin kinds

\* A tag that ought to do, whether the last field has its index or key or needs none.
Sound(steps) == Complete(steps) /\ InOrder(steps)

\* A complete tag with its indices in order does not end the process, in whatever message
\* it is followed, unless it goes to an element of an array of scalars or to a map with
\* scalar values, where it does (SoundTagsSurvive).
\* Above all, the entry that AddMapEntry makes for a key is found under this key, although
\* the key has been an int in between, and an element that was added under its index.
MessageTagsSurvive ==
    written.status = "OK" /\ Sound(written.place) /\ Avoids(written.place, {"scalars", "scalarMap"})
        => status # "crash"

\* A step of a place, as GetFieldTypes gives it back.
CastStep(s) == IF Len(s) = 2 THEN <<s[1], MapKeyOfTag(s[2])>> ELSE s

\* What has been followed and what there is to follow of the tag are one part each of
\* the place that was written, where the ints are not too long.
Followed ==
    /\ <<"key", None>> \notin ToSet(written.tag)
    /\ Len(place) + Len(todo) = Len(written.place)
    /\ \A j \in DOMAIN todo : todo[j] = CastStep(written.place[Len(place) + j])
    /\ FitsInt(written.place) => \A j \in DOMAIN place : place[j] = written.place[j]

NotFollowed == todo = <<>> /\ place = <<>>

\* As long as the merge has found what there was, it is in a message that was there.
AmongWhatIsThere == (\A j \in DOMAIN place : IsThere(written.place[j])) => here = message

\* The tag is the one that the walk along the path ends with, and ProcessField turns it
\* into the place step by step.
FieldTagsInv ==
    /\ TypeOK
    /\ written = CASE status = "calling"                     -> WalkStart
                   [] status # "calling" /\ writer = "C++"    -> AddFieldTag(path)
                   [] status # "calling" /\ writer = "Python" -> GetFieldTag(path)
    /\ status \in {"calling", "raised", "tagged"} => NotFollowed
    /\ status \in {"following", "there", "OutOfRange"} => Followed
    /\ status = "crash" => NotFollowed \/ Followed
    /\ status = "there" => todo = <<>>
    /\ AmongWhatIsThere
    /\ MessageTagsSurvive

\* The two languages write the same tag for a path that both accept.
SameTag ==
    status = "tagged" /\ writer = "C++" /\ written.status = "OK" =>
        LET py == GetFieldTag(path)
        IN  py.status = "OK" => py.tag = written.tag

\* A field that GetField finds can be tagged (unless its map's key type is not
\* implemented), and the tag is for the very place that was found.
FoundIsTagged ==
    status = "tagged" /\ writer = "C++" /\ keyType # "sint32" =>
        LET found == GetField(path)
        IN  found.status = "OK" => written.status = "OK" /\ written.place = found.place

(***************************************************************************)
(* What the documentation says and the code does not do.                   *)
(***************************************************************************)

\* Chunks for the elements of an array of strings, as composable_splitter_test.cc:107
\* expects Split to make them, and for the values of a map<string, float>,
\* `self.add_chunk(bytes(str(v), "utf-8"), ["hyperparameters", k])`
\* (in-depth-guide.md:383), do not end the process that merges them: no complete tag does.
SoundTagsSurvive == written.status = "OK" /\ Sound(written.place) => status # "crash"
=============================================================================
