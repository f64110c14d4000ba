---------------------------- MODULE Merger_proofs ----------------------------
(***************************************************************************)
(* Proofs about Merger, for every message type, every ChunkedMessage of    *)
(* any size and depth, and any records in the file: the comparator is a    *)
(* strict weak order, outer messages come first, a merge that returns OK   *)
(* has merged every chunk once, into its place, in order, and a Read of    *)
(* what leaves no gaps in its lists does not die.                          *)
(***************************************************************************)
EXTENDS Merger, SequenceLemmas, FiniteSetTheorems

\* Min of a set of numbers, which need not be finite.
LEMMA MinIsLeast ==
    ASSUME NEW S, S \subseteq Nat, S # {}
    PROVE  Min(S) \in S /\ \A x \in S : Min(S) <= x
<1> DEFINE R == OpToRel(<, Nat)
<1>1. IsWellFoundedOn(R, Nat)
  BY NatLessThanWellFounded
<1>2. \A x, y \in Nat : y < x => <<y, x>> \in R
  BY DEF OpToRel
<1> HIDE DEF R
<1>3. PICK m \in S : \A x \in S : ~(<<x, m>> \in R)
  BY <1>1, WFMin
<1>4. ASSUME NEW x \in S
      PROVE  m <= x
  <2>1. x \in Nat /\ m \in Nat
    OBVIOUS
  <2>2. ~(x < m)
    BY <1>2, <1>3, <2>1
  <2> QED BY <2>1, <2>2
<1> QED BY <1>4 DEF Min

------------------------------------------------------------------------------
(* The comparator *)

Tag == {t \in Seq(FieldIndex) : FollowsDescriptor(t)}

\* The elements of a tag.
LEMMA TagElements ==
    ASSUME NEW t \in Tag
    PROVE  /\ Len(t) \in Nat /\ DOMAIN t = 1..Len(t)
           /\ \A d \in 1..Len(t) :
                 /\ t[d] = <<t[d][1], t[d][2]>>
                 /\ t[d][1] \in {"field", "index", "key"}
                 /\ t[d][1] # "key" => t[d][2] \in Nat
                 /\ t[d][1] = "field" => t[d][2] \in Field
<1>1. t \in Seq(FieldIndex)
  BY DEF Tag
<1>2. Len(t) \in Nat /\ DOMAIN t = 1..Len(t)
  BY <1>1, LenProperties
<1>3. ASSUME NEW d \in 1..Len(t)
      PROVE  /\ t[d] = <<t[d][1], t[d][2]>>
             /\ t[d][1] \in {"field", "index", "key"}
             /\ t[d][1] # "key" => t[d][2] \in Nat
             /\ t[d][1] = "field" => t[d][2] \in Field
  <2>1. t[d] \in FieldIndex
    BY <1>1, ElementOfSeq
  <2>2. Field \subseteq Nat
    BY MergerAssumption
  <2>3. \/ t[d] \in {"field"} \X Field
        \/ t[d] \in {"index"} \X Nat
        \/ t[d] \in {"key"} \X Key
    BY <2>1 DEF FieldIndex
  <2>4. CASE t[d] \in {"field"} \X Field
    <3>1. PICK f \in Field : t[d] = <<"field", f>>
      BY <2>4
    <3>2. f \in Nat
      BY <2>2
    <3> QED BY <3>1, <3>2
  <2>5. CASE t[d] \in {"index"} \X Nat
    BY <2>5
  <2>6. CASE t[d] \in {"key"} \X Key
    BY <2>6
  <2> QED BY <2>3, <2>4, <2>5, <2>6
<1> QED BY <1>2, <1>3

\* The two tags have the same elements before d, none of them a key.
SameBefore(t1, t2, d) == \A c \in 1..(d - 1) : t1[c] = t2[c] /\ t1[c][1] # "key"

\* What is before an element of a tag determines its kind.
LEMMA SameKind ==
    ASSUME NEW t1 \in Tag, NEW t2 \in Tag,
           NEW d \in 1..Len(t1), d \in 1..Len(t2), SameBefore(t1, t2, d)
    PROVE  t1[d][1] = t2[d][1]
<1>1. /\ t1[d][1] \in {"field", "index", "key"} /\ t2[d][1] \in {"field", "index", "key"}
      /\ Len(t1) \in Nat /\ Len(t2) \in Nat
  BY TagElements
<1>2. CASE d = 1
  <2>1. t1 # <<>> /\ t2 # <<>>
    BY <1>1
  <2> QED BY <1>2, <2>1 DEF Tag, FollowsDescriptor
<1>3. CASE d # 1
  <2> DEFINE c == d - 1
             isField == t1[c][1] = "field"
             before == Kind[FieldAt(t1, c)]
             Rule(x) == CASE x = "field" -> IF isField THEN before = "message"
                                                       ELSE before \in {"repeated", "map"}
                          [] x = "index" -> isField /\ before \in {"repeated", "strings"}
                          [] x = "key"   -> isField /\ before \in {"map", "stringMap"}
  <2>1. c \in 1..(d - 1) /\ d \in 2..Len(t1) /\ d \in 2..Len(t2)
    BY <1>1, <1>3
  <2>2. t1[c] = t2[c]
    BY <2>1 DEF SameBefore
  <2>3. FieldAt(t1, c) = FieldAt(t2, c)
    <3>1. CASE t1[c][1] = "field"
      BY <2>2, <3>1 DEF FieldAt
    <3>2. CASE t1[c][1] # "field"
      <4>1. c # 1
        <5>1. t1 # <<>>
          BY <1>1
        <5> QED BY <3>2, <5>1 DEF Tag, FollowsDescriptor
      <4>2. c - 1 \in 1..(d - 1)
        BY <2>1, <4>1
      <4>3. t1[c - 1] = t2[c - 1]
        BY <4>2 DEF SameBefore
      <4> QED BY <2>2, <3>2, <4>3 DEF FieldAt
    <3> QED BY <3>1, <3>2
  <2>4. Rule(t1[d][1])
    BY <2>1 DEF Tag, FollowsDescriptor
  <2>5. Rule(t2[d][1])
    <3>1. \A e \in 2..Len(t2) :
            LET before2  == Kind[FieldAt(t2, e - 1)]
                isField2 == t2[e - 1][1] = "field"
            IN  CASE t2[e][1] = "field" -> IF isField2 THEN before2 = "message"
                                                      ELSE before2 \in {"repeated", "map"}
                  [] t2[e][1] = "index" -> isField2 /\ before2 \in {"repeated", "strings"}
                  [] t2[e][1] = "key"   -> isField2 /\ before2 \in {"map", "stringMap"}
      BY DEF Tag, FollowsDescriptor
    <3> QED BY <2>1, <2>2, <2>3, <3>1
  <2>6. /\ t1[d][1] = "field" => IF isField THEN before = "message"
                                            ELSE before \in {"repeated", "map"}
        /\ t1[d][1] = "index" => isField /\ before \in {"repeated", "strings"}
        /\ t1[d][1] = "key" => isField /\ before \in {"map", "stringMap"}
    BY <2>4
  <2>7. /\ t2[d][1] = "field" => IF isField THEN before = "message"
                                            ELSE before \in {"repeated", "map"}
        /\ t2[d][1] = "index" => isField /\ before \in {"repeated", "strings"}
        /\ t2[d][1] = "key" => isField /\ before \in {"map", "stringMap"}
    BY <2>5
  <2> HIDE DEF before, isField, Rule
  <2> QED BY <1>1, <2>6, <2>7
<1> QED BY <1>2, <1>3

\* The first elements in which the tags differ, or that are keys.
Diverge(t1, t2, d) == /\ d \in 1..Len(t1) /\ d \in 1..Len(t2)
                      /\ SameBefore(t1, t2, d)
                      /\ t1[d] # t2[d] \/ t1[d][1] = "key"

\* One of the tags starts the other.
Agree(t1, t2) == \A d \in 1..Len(t1) : d \in 1..Len(t2) => t1[d] = t2[d] /\ t1[d][1] # "key"

\* Either is the case, and the comparator decides by it.
LEMMA DivergeOrAgree ==
    ASSUME NEW t1 \in Tag, NEW t2 \in Tag
    PROVE  \/ Decisive(t1, t2) = {} /\ Agree(t1, t2)
           \/ /\ Decisive(t1, t2) # {}
              /\ Diverge(t1, t2, Min(Decisive(t1, t2)))
<1> DEFINE D == Decisive(t1, t2)
<1>1. /\ Len(t1) \in Nat /\ DOMAIN t1 = 1..Len(t1)
      /\ Len(t2) \in Nat /\ DOMAIN t2 = 1..Len(t2)
  BY TagElements
<1>2. D = {d \in Nat : d \in 1..Len(t1) /\ d \in 1..Len(t2)
                       /\ ~(t1[d] = t2[d] /\ t1[d][1] # "key")}
  BY <1>1 DEF Decisive, SameStep
<1>3. CASE D = {}
  BY <1>2, <1>3 DEF Agree
<1>4. CASE D # {}
  <2> DEFINE m == Min(D)
  <2>1. m \in D /\ \A x \in D : m <= x
    BY <1>2, <1>4, MinIsLeast
  <2> HIDE DEF m
  <2>2. m \in Nat /\ m \in 1..Len(t1) /\ m \in 1..Len(t2)
    BY <1>2, <2>1
  <2>3. ASSUME NEW c \in 1..(m - 1)
        PROVE  t1[c] = t2[c] /\ t1[c][1] # "key"
    <3>1. c \in Nat /\ c \in 1..Len(t1) /\ c \in 1..Len(t2) /\ ~(m <= c)
      BY <1>1, <2>2
    <3>2. c \notin D
      BY <2>1, <3>1
    <3> QED BY <1>2, <3>1, <3>2
  <2>4. Diverge(t1, t2, m)
    BY <1>2, <2>1, <2>2, <2>3 DEF Diverge, SameBefore
  <2> QED BY <1>4, <2>4 DEF m
<1> QED BY <1>3, <1>4

\* Tags diverge in one place only, and do not agree then.
LEMMA DivergeOnce ==
    ASSUME NEW t1 \in Tag, NEW t2 \in Tag, NEW d, Diverge(t1, t2, d)
    PROVE  Decisive(t1, t2) # {} /\ Min(Decisive(t1, t2)) = d
<1> DEFINE m == Min(Decisive(t1, t2))
<1>1. d \in Int /\ d >= 1 /\ d \in 1..Len(t1) /\ d \in 1..Len(t2)
  <2>1. Len(t1) \in Nat
    BY TagElements
  <2> QED BY <2>1 DEF Diverge
<1>2. ~Agree(t1, t2)
  BY DEF Diverge, Agree
<1>3. Decisive(t1, t2) # {} /\ Diverge(t1, t2, m)
  BY <1>2, DivergeOrAgree
<1> HIDE DEF m
<1>4. m \in Int /\ m >= 1
  <2>1. Len(t1) \in Nat
    BY TagElements
  <2> QED BY <1>3, <2>1 DEF Diverge
<1>5. ~(m < d)
  BY <1>1, <1>3, <1>4 DEF Diverge, SameBefore
<1>6. ~(d < m)
  BY <1>1, <1>3, <1>4 DEF Diverge, SameBefore
<1> QED BY <1>1, <1>3, <1>4, <1>5, <1>6 DEF m

ChunkedField == {e \in [tag : Seq(FieldIndex), idx : Chunk \union {None}, size : Nat] :
                    FollowsDescriptor(e.tag)}

\* The parts of an entry that the comparator looks at.
LEMMA FieldParts ==
    ASSUME NEW e \in ChunkedField
    PROVE  e.tag \in Tag /\ ChunkIndex(e) \in Chunk /\ ChunkIndex(e) \in Nat
BY MergerAssumption DEF ChunkedField, Tag, ChunkIndex

\* The comparator on tags that diverge.
LEMMA LessDiverging ==
    ASSUME NEW a \in ChunkedField, NEW b \in ChunkedField, NEW d, Diverge(a.tag, b.tag, d)
    PROVE  /\ a.tag[d][1] = b.tag[d][1]
           /\ a.tag[d][1] # "key" => /\ a.tag[d][2] \in Nat /\ b.tag[d][2] \in Nat
                                     /\ a.tag[d][2] # b.tag[d][2]
           /\ Less(a, b) <=> a.tag[d][1] # "key" /\ a.tag[d][2] < b.tag[d][2]
<1>1. a.tag \in Tag /\ b.tag \in Tag
  BY FieldParts
<1>2. d \in 1..Len(a.tag) /\ d \in 1..Len(b.tag)
  BY DEF Diverge
<1>3. a.tag[d][1] = b.tag[d][1]
  BY <1>1, <1>2, SameKind DEF Diverge
<1>4. /\ a.tag[d] = <<a.tag[d][1], a.tag[d][2]>> /\ b.tag[d] = <<b.tag[d][1], b.tag[d][2]>>
      /\ a.tag[d][1] # "key" => a.tag[d][2] \in Nat
      /\ b.tag[d][1] # "key" => b.tag[d][2] \in Nat
  BY <1>1, <1>2, TagElements
<1>5. a.tag[d][1] # "key" => a.tag[d][2] # b.tag[d][2]
  BY <1>3, <1>4 DEF Diverge
<1>6. Decisive(a.tag, b.tag) # {} /\ Min(Decisive(a.tag, b.tag)) = d
  BY <1>1, DivergeOnce
<1>7. Less(a, b) <=> LessByTag(a.tag, b.tag)
  BY <1>6 DEF Less
<1>8. LessByTag(a.tag, b.tag) <=> /\ a.tag[d][1] = b.tag[d][1] /\ a.tag[d][1] # "key"
                                  /\ a.tag[d][2] < b.tag[d][2]
  BY <1>6 DEF LessByTag
<1> QED BY <1>3, <1>4, <1>5, <1>7, <1>8

\* The comparator on tags that agree.
LEMMA LessAgreeing ==
    ASSUME NEW a \in ChunkedField, NEW b \in ChunkedField, Agree(a.tag, b.tag)
    PROVE  Less(a, b) <=> LessByLength(a, b)
<1>1. a.tag \in Tag /\ b.tag \in Tag
  BY FieldParts
<1>2. \A d : ~Diverge(a.tag, b.tag, d)
  BY DEF Agree, Diverge
<1> QED BY <1>1, <1>2, DivergeOrAgree DEF Less

\* Two entries that agree are in order by length and index.
LEMMA AgreeingOrder ==
    ASSUME NEW a \in ChunkedField, NEW b \in ChunkedField, Agree(a.tag, b.tag)
    PROVE  /\ Len(a.tag) \in Nat /\ Len(b.tag) \in Nat
           /\ Less(a, b) <=> \/ Len(a.tag) < Len(b.tag)
                             \/ /\ Len(a.tag) = Len(b.tag)
                                /\ ChunkIndex(a) < ChunkIndex(b)
<1>1. Len(a.tag) \in Nat /\ Len(b.tag) \in Nat
  BY FieldParts, TagElements
<1>2. Less(a, b) <=> LessByLength(a, b)
  BY LessAgreeing
<1> QED BY <1>1, <1>2 DEF LessByLength

\* Tags that agree do so either way round.
LEMMA AgreeSymmetric ==
    ASSUME NEW s, NEW t, Agree(s, t)
    PROVE  Agree(t, s)
BY DEF Agree

\* So do tags that diverge, and at the same depth.
LEMMA DivergeSymmetric ==
    ASSUME NEW s \in Tag, NEW t \in Tag, NEW d, Diverge(s, t, d)
    PROVE  Diverge(t, s, d)
<1>1. d \in 1..Len(s) /\ d \in 1..Len(t) /\ SameBefore(s, t, d)
  BY DEF Diverge
<1>2. s[d][1] = t[d][1]
  BY <1>1, SameKind
<1> QED BY <1>1, <1>2 DEF Diverge, SameBefore

\* Tags agree or diverge somewhere.
LEMMA AgreeOrDiverge ==
    ASSUME NEW s \in Tag, NEW t \in Tag
    PROVE  Agree(s, t) \/ \E d \in Nat : Diverge(s, t, d)
<1>1. Len(s) \in Nat
  BY TagElements
<1> QED BY <1>1, DivergeOrAgree DEF Diverge

\* The comparator is transitive, whichever of the three tags diverge.
LEMMA LessTransitive ==
    ASSUME NEW a \in ChunkedField, NEW b \in ChunkedField, NEW c \in ChunkedField,
           Less(a, b), Less(b, c)
    PROVE  Less(a, c)
<1> DEFINE s == a.tag
           t == b.tag
           u == c.tag
<1>1. /\ s \in Tag /\ t \in Tag /\ u \in Tag
      /\ Len(s) \in Nat /\ Len(t) \in Nat /\ Len(u) \in Nat
      /\ ChunkIndex(a) \in Nat /\ ChunkIndex(b) \in Nat /\ ChunkIndex(c) \in Nat
  BY FieldParts, TagElements
<1>2. CASE Agree(s, t) /\ Agree(t, u)
  <2>1. Len(s) <= Len(t) /\ Len(t) <= Len(u)
    BY <1>1, <1>2, AgreeingOrder
  <2>2. Agree(s, u)
    BY <1>1, <1>2, <2>1 DEF Agree
  <2> QED BY <1>1, <1>2, <2>2, AgreeingOrder
<1>3. ASSUME NEW d \in Nat, Diverge(s, t, d), Agree(t, u)
      PROVE  Less(a, c)
  <2>1. Len(t) <= Len(u)
    BY <1>1, <1>3, AgreeingOrder
  <2>2. s[d][1] # "key" /\ s[d][2] < t[d][2] /\ s[d][2] \in Nat /\ t[d][2] \in Nat
    BY <1>3, LessDiverging
  <2>3. d \in 1..Len(t) /\ d \in 1..Len(u) /\ t[d] = u[d]
    BY <1>1, <1>3, <2>1 DEF Diverge, Agree
  <2>4. Diverge(s, u, d)
    <3>1. ASSUME NEW e \in 1..(d - 1)
          PROVE  t[e] = u[e]
      BY <1>1, <1>3, <2>1, <2>3 DEF Agree
    <3>2. s[d] # u[d]
      BY <2>2, <2>3
    <3> QED BY <1>3, <2>3, <3>1, <3>2 DEF Diverge, SameBefore
  <2> QED BY <2>2, <2>3, <2>4, LessDiverging
<1>4. ASSUME NEW d \in Nat, Diverge(t, u, d), Agree(s, t)
      PROVE  Less(a, c)
  <2>1. Len(s) <= Len(t)
    BY <1>1, <1>4, AgreeingOrder
  <2>2. /\ t[d][1] = u[d][1] /\ t[d][1] # "key" /\ t[d][2] < u[d][2]
        /\ t[d][2] \in Nat /\ u[d][2] \in Nat
    BY <1>4, LessDiverging
  <2>3. d \in 1..Len(t) /\ d \in 1..Len(u) /\ SameBefore(t, u, d)
    BY <1>4 DEF Diverge
  <2>4. CASE d <= Len(s)
    <3>1. d \in 1..Len(s)
      BY <1>1, <2>3, <2>4
    <3>2. s[d] = t[d]
      BY <1>4, <2>3, <3>1 DEF Agree
    <3>3. ASSUME NEW e \in 1..(d - 1)
          PROVE  s[e] = t[e] /\ t[e] = u[e] /\ t[e][1] # "key"
      BY <1>1, <1>4, <2>1, <2>3, <2>4 DEF Agree, SameBefore
    <3>4. s[d] # u[d]
      BY <2>2, <3>2
    <3>5. Diverge(s, u, d)
      BY <2>3, <3>1, <3>3, <3>4 DEF Diverge, SameBefore
    <3> QED BY <2>2, <3>2, <3>5, LessDiverging
  <2>5. CASE d > Len(s)
    <3>1. Len(s) < Len(u)
      BY <1>1, <2>3, <2>5
    <3>2. Agree(s, u)
      <4>1. ASSUME NEW e \in 1..Len(s)
            PROVE  s[e] = u[e] /\ s[e][1] # "key"
        <5>1. e \in 1..(d - 1) /\ e \in 1..Len(t)
          BY <1>1, <2>1, <2>5
        <5> QED BY <1>4, <2>3, <5>1 DEF Agree, SameBefore
      <4> QED BY <4>1 DEF Agree
    <3> QED BY <1>1, <3>1, <3>2, AgreeingOrder
  <2> QED BY <1>1, <2>4, <2>5
<1>5. ASSUME NEW d \in Nat, Diverge(s, t, d), NEW e \in Nat, Diverge(t, u, e)
      PROVE  Less(a, c)
  <2>1. /\ s[d][1] = t[d][1] /\ s[d][1] # "key" /\ s[d][2] < t[d][2]
        /\ s[d][2] \in Nat /\ t[d][2] \in Nat
    BY <1>5, LessDiverging
  <2>2. /\ t[e][1] = u[e][1] /\ t[e][1] # "key" /\ t[e][2] < u[e][2]
        /\ t[e][2] \in Nat /\ u[e][2] \in Nat
    BY <1>5, LessDiverging
  <2>3. /\ d \in 1..Len(s) /\ d \in 1..Len(t) /\ SameBefore(s, t, d)
        /\ e \in 1..Len(t) /\ e \in 1..Len(u) /\ SameBefore(t, u, e)
    BY <1>5 DEF Diverge
  <2>4. CASE d < e
    <3>1. d \in 1..(e - 1)
      BY <2>3, <2>4, <1>1
    <3>2. t[d] = u[d] /\ d \in 1..Len(u)
      BY <1>1, <2>3, <2>4, <3>1 DEF SameBefore
    <3>3. ASSUME NEW x \in 1..(d - 1)
          PROVE  s[x] = u[x] /\ s[x][1] # "key"
      BY <1>1, <2>3, <2>4 DEF SameBefore
    <3>4. Diverge(s, u, d)
      BY <2>1, <2>3, <3>2, <3>3 DEF Diverge, SameBefore
    <3> QED BY <2>1, <3>2, <3>4, LessDiverging
  <2>5. CASE d = e
    <3>1. ASSUME NEW x \in 1..(d - 1)
          PROVE  s[x] = u[x] /\ s[x][1] # "key"
      BY <2>3, <2>5 DEF SameBefore
    <3>2. s[d][2] < u[d][2]
      BY <2>1, <2>2, <2>5
    <3>3. Diverge(s, u, d)
      BY <2>1, <2>2, <2>3, <2>5, <3>1, <3>2 DEF Diverge, SameBefore
    <3> QED BY <2>1, <3>2, <3>3, LessDiverging
  <2>6. CASE d > e
    <3>1. e \in 1..(d - 1) /\ e \in 1..Len(s)
      BY <2>3, <2>6, <1>1
    <3>2. s[e] = t[e]
      BY <2>3, <3>1 DEF SameBefore
    <3>3. ASSUME NEW x \in 1..(e - 1)
          PROVE  s[x] = u[x] /\ s[x][1] # "key"
      BY <1>1, <2>3, <2>6 DEF SameBefore
    <3>4. s[e] # u[e]
      BY <2>2, <3>2
    <3>5. Diverge(s, u, e)
      BY <2>3, <3>1, <3>3, <3>4 DEF Diverge, SameBefore
    <3> QED BY <2>2, <3>2, <3>5, LessDiverging
  <2> QED BY <2>4, <2>5, <2>6
<1> QED BY <1>1, <1>2, <1>3, <1>4, <1>5, AgreeOrDiverge

Tied(a, b) == ~Less(a, b) /\ ~Less(b, a)

\* Entries are tied if their tags are the same up to two map keys, or are the same and
\* without keys, and so are the indices.
LEMMA TiedEntries ==
    ASSUME NEW a \in ChunkedField, NEW b \in ChunkedField
    PROVE  Tied(a, b) <=>
              \/ /\ Agree(a.tag, b.tag) /\ Len(a.tag) = Len(b.tag)
                 /\ ChunkIndex(a) = ChunkIndex(b)
              \/ \E d \in Nat : /\ Diverge(a.tag, b.tag, d)
                                /\ a.tag[d][1] = "key" /\ b.tag[d][1] = "key"
<1> DEFINE s == a.tag
           t == b.tag
<1>1. /\ s \in Tag /\ t \in Tag /\ ChunkIndex(a) \in Nat /\ ChunkIndex(b) \in Nat
  BY FieldParts
<1>2. CASE Agree(s, t)
  <2>1. Agree(t, s)
    BY <1>2, AgreeSymmetric
  <2>2. \A d : ~Diverge(s, t, d)
    BY <1>2 DEF Agree, Diverge
  <2>3. Tied(a, b) <=> Len(s) = Len(t) /\ ChunkIndex(a) = ChunkIndex(b)
    BY <1>1, <1>2, <2>1, AgreeingOrder DEF Tied
  <2> QED BY <1>2, <2>2, <2>3
<1>3. ASSUME NEW d \in Nat, Diverge(s, t, d)
      PROVE  /\ ~Agree(s, t)
             /\ Tied(a, b) <=> s[d][1] = "key"
             /\ s[d][1] = t[d][1]
             /\ \A e \in Nat : Diverge(s, t, e) => e = d
  <2>1. Diverge(t, s, d)
    BY <1>1, <1>3, DivergeSymmetric
  <2>2. ~Agree(s, t)
    BY <1>3 DEF Agree, Diverge
  <2>3. \A e \in Nat : Diverge(s, t, e) => e = d
    BY <1>1, <1>3, DivergeOnce
  <2> QED BY <1>3, <2>1, <2>2, <2>3, LessDiverging DEF Tied
<1> QED BY <1>1, <1>2, <1>3, AgreeOrDiverge

\* Being tied is transitive.
LEMMA TiedTransitive ==
    ASSUME NEW a \in ChunkedField, NEW b \in ChunkedField, NEW c \in ChunkedField,
           Tied(a, b), Tied(b, c)
    PROVE  Tied(a, c)
<1> DEFINE s == a.tag
           t == b.tag
           u == c.tag
<1>1. /\ s \in Tag /\ t \in Tag /\ u \in Tag
      /\ Len(s) \in Nat /\ Len(t) \in Nat /\ Len(u) \in Nat
  BY FieldParts, TagElements
<1>2. CASE Agree(s, t) /\ Len(s) = Len(t) /\ ChunkIndex(a) = ChunkIndex(b)
  <2>1. ASSUME NEW d \in Nat, Diverge(t, u, d), t[d][1] = "key"
        PROVE  FALSE
    BY <1>1, <1>2, <2>1 DEF Agree, Diverge
  <2>2. Agree(t, u) /\ Len(t) = Len(u) /\ ChunkIndex(b) = ChunkIndex(c)
    BY <2>1, TiedEntries
  <2>3. Agree(s, u)
    BY <1>1, <1>2, <2>2 DEF Agree
  <2> QED BY <1>2, <2>2, <2>3, TiedEntries
<1>3. ASSUME NEW d \in Nat, Diverge(s, t, d), s[d][1] = "key", t[d][1] = "key"
      PROVE  Tied(a, c)
  <2>1. d \in 1..Len(t)
    BY <1>3 DEF Diverge
  <2>2. ~(Agree(t, u) /\ Len(t) = Len(u))
    BY <1>1, <1>3, <2>1 DEF Agree
  <2>3. PICK e \in Nat : Diverge(t, u, e) /\ t[e][1] = "key" /\ u[e][1] = "key"
    BY <2>2, TiedEntries
  <2>4. ~(d < e)
    <3>1. d < e => d \in 1..(e - 1)
      BY <1>1, <2>1
    <3> QED BY <1>3, <2>3, <3>1 DEF Diverge, SameBefore
  <2>5. ~(e < d)
    <3>1. e \in 1..Len(t)
      BY <2>3 DEF Diverge
    <3>2. e < d => e \in 1..(d - 1)
      BY <1>1, <3>1
    <3>3. e < d => s[e] = t[e] /\ s[e][1] # "key"
      BY <1>3, <3>2 DEF Diverge, SameBefore
    <3> QED BY <2>3, <3>3
  <2>6. e = d
    BY <2>4, <2>5
  <2>7. Diverge(s, u, d)
    BY <1>3, <2>3, <2>6 DEF Diverge, SameBefore
  <2> QED BY <1>3, <2>3, <2>6, <2>7, TiedEntries
<1> QED BY <1>2, <1>3, TiedEntries

\* The entries of a ChunkedMessage.
LEMMA EntriesAreFields ==
    ASSUME input \in Inputs, NEW w \in DOMAIN input
    PROVE  /\ input[w] \in ChunkedField
           /\ input[w].size \in Nat
           /\ \A i \in Entries(w) : Append(w, i) \in DOMAIN input /\ Entry(w, i) \in ChunkedField
<1>1. IsChunkedMessage(input)
  BY InputAssumption
<1>2. \A v \in DOMAIN input : input[v] \in ChunkedField /\ input[v].size \in Nat
  BY <1>1 DEF IsChunkedMessage, ChunkedField
<1>3. \A i \in Entries(w) : Append(w, i) \in DOMAIN input
  BY <1>1 DEF IsChunkedMessage, Entries
<1> QED BY <1>2, <1>3 DEF Entry

\* The comparator is a strict weak order on the entries of any ChunkedMessage.
LEMMA StrictWeak ==
    ASSUME input \in Inputs
    PROVE  ComparatorIsStrictWeak
<1>1. ASSUME NEW a \in ChunkedField
      PROVE  ~Less(a, a)
  <2>1. Less(a, a) => FALSE
    <3>1. a.tag \in Tag /\ ChunkIndex(a) \in Nat
      BY FieldParts
    <3>2. CASE Agree(a.tag, a.tag)
      BY <3>1, <3>2, AgreeingOrder
    <3>3. ASSUME NEW d \in Nat, Diverge(a.tag, a.tag, d)
          PROVE  ~Less(a, a)
      BY <3>3, LessDiverging
    <3> QED BY <3>1, <3>2, <3>3, AgreeOrDiverge
  <2> QED BY <2>1
<1>2. ASSUME NEW w \in DOMAIN input
      PROVE  \A a \in {Entry(w, i) : i \in Entries(w)} : a \in ChunkedField
  BY EntriesAreFields
<1>3. \A a, b, c \in ChunkedField : Tied(a, b) /\ Tied(b, c) => Tied(a, c)
  BY TiedTransitive
<1>4. \A a, b, c \in ChunkedField : Less(a, b) /\ Less(b, c) => Less(a, c)
  BY LessTransitive
<1> QED BY <1>1, <1>2, <1>3, <1>4, Zenon DEF ComparatorIsStrictWeak, Tied

------------------------------------------------------------------------------
(* The loops of Sorted, GetFieldTypes and Navigate *)

\* Round k of the loop `what` over a.
Round(what, a, x, k) == IF what = "sort" THEN Extended(a, x)
                        ELSE IF what = "tag" THEN AddFieldIndex(x, a[k])
                        ELSE NavigateStep(x, a[k])

\* f is what the loop has computed after each of the first n rounds.
Loops(f, what, a, x, n) == f = [k \in 0..n |-> IF k = 0 THEN x ELSE Round(what, a, f[k - 1], k)]

\* The recursive functions in the definitions of the loops are there.
LEMMA LoopExists ==
    ASSUME NEW what, NEW a, NEW x, NEW n \in Nat
    PROVE  \E f : Loops(f, what, a, x, n)
<1> DEFINE P == {m \in Nat : \E f : Loops(f, what, a, x, m)}
<1>1. 0 \in P
  <2> DEFINE f == [k \in 0..0 |-> x]
  <2>1. f = [k \in 0..0 |-> IF k = 0 THEN x ELSE Round(what, a, f[k - 1], k)]
    OBVIOUS
  <2> HIDE DEF f
  <2>2. Loops(f, what, a, x, 0)
    BY <2>1 DEF Loops
  <2> QED BY <2>2
<1>2. ASSUME NEW m \in Nat, m \in P
      PROVE  m + 1 \in P
  <2>1. PICK f : f = [k \in 0..m |-> IF k = 0 THEN x ELSE Round(what, a, f[k - 1], k)]
    BY <1>2 DEF Loops
  <2> DEFINE last == Round(what, a, f[m], m + 1)
             g == [k \in 0..(m + 1) |-> IF k = m + 1 THEN last ELSE f[k]]
  <2>2. \A k \in 0..m : f[k] = IF k = 0 THEN x ELSE Round(what, a, f[k - 1], k)
    BY <2>1
  <2>3. ASSUME NEW k \in 0..(m + 1)
        PROVE  g[k] = IF k = 0 THEN x ELSE Round(what, a, g[k - 1], k)
    <3>1. CASE k = 0
      <4>1. k \in 0..m /\ k # m + 1
        BY <3>1
      <4>2. g[k] = f[k]
        BY <4>1
      <4> HIDE DEF g
      <4> QED BY <2>2, <3>1, <4>1, <4>2
    <3>2. CASE k # 0
      <4>1. k - 1 \in 0..m /\ k - 1 \in 0..(m + 1) /\ k - 1 # m + 1
        BY <3>2
      <4>2. g[k - 1] = f[k - 1]
        BY <4>1
      <4>3. CASE k = m + 1
        <5>1. g[k] = last /\ k - 1 = m
          BY <4>3
        <5> HIDE DEF g
        <5> QED BY <3>2, <4>2, <4>3, <5>1
      <4>4. CASE k # m + 1
        <5>1. k \in 0..m /\ g[k] = f[k]
          BY <4>4
        <5> HIDE DEF g
        <5> QED BY <2>2, <3>2, <4>2, <5>1
      <4> QED BY <4>3, <4>4
    <3> QED BY <3>1, <3>2
  <2>4. g = [k \in 0..(m + 1) |-> g[k]]
    OBVIOUS
  <2> HIDE DEF g
  <2>5. Loops(g, what, a, x, m + 1)
    BY <2>3, <2>4 DEF Loops
  <2> QED BY <2>5
<1> HIDE DEF P
<1>3. Nat \subseteq P
  BY <1>1, <1>2, SetInduction
<1> QED BY <1>3 DEF P

\* The rounds of a loop, one by one.
LEMMA LoopRounds ==
    ASSUME NEW f, NEW what, NEW a, NEW x, NEW n \in Nat, Loops(f, what, a, x, n)
    PROVE  f[0] = x /\ \A k \in 0..(n - 1) : f[k + 1] = Round(what, a, f[k], k + 1)
<1>1. \A k \in 0..n : f[k] = IF k = 0 THEN x ELSE Round(what, a, f[k - 1], k)
  BY DEF Loops
<1>2. f[0] = x
  BY <1>1
<1>3. ASSUME NEW k \in 0..(n - 1)
      PROVE  f[k + 1] = Round(what, a, f[k], k + 1)
  <2> DEFINE m == k + 1
  <2>1. m \in 0..n /\ m # 0 /\ m - 1 = k
    OBVIOUS
  <2> HIDE DEF m
  <2>2. f[m] = Round(what, a, f[k], m)
    BY <1>1, <2>1
  <2> QED BY <2>2 DEF m
<1> QED BY <1>2, <1>3

\* Sorted in rounds, one entry longer each time.
LEMMA SortedLoops ==
    ASSUME NEW w, input[w].size \in Nat
    PROVE  \E f : Loops(f, "sort", w, {<<>>}, input[w].size) /\ Sorted(w) = f[input[w].size]
<1> DEFINE n == input[w].size
           f == CHOOSE h : h = [k \in 0..n |-> IF k = 0 THEN {<<>>} ELSE Extended(w, h[k - 1])]
<1>1. \E h : h = [k \in 0..n |-> IF k = 0 THEN {<<>>} ELSE Extended(w, h[k - 1])]
  <2>1. PICK h : Loops(h, "sort", w, {<<>>}, n)
    BY LoopExists
  <2>2. h = [k \in 0..n |-> IF k = 0 THEN {<<>>} ELSE Extended(w, h[k - 1])]
    BY <2>1 DEF Loops, Round
  <2> QED BY <2>2
<1>2. f = [k \in 0..n |-> IF k = 0 THEN {<<>>} ELSE Extended(w, f[k - 1])]
  BY <1>1
<1>3. Sorted(w) = f[n]
  BY DEF Sorted
<1> HIDE DEF f
<1> QED BY <1>2, <1>3 DEF Loops, Round

\* GetFieldTypes in rounds, one element of the tag each.
LEMMA TagLoops ==
    ASSUME NEW t, Len(t) \in Nat
    PROVE  \E f : Loops(f, "tag", t, <<>>, Len(t)) /\ GetFieldTypes(t) = f[Len(t)]
<1> DEFINE n == Len(t)
           f == CHOOSE h : h = [k \in 0..n |-> IF k = 0 THEN <<>> ELSE AddFieldIndex(h[k - 1], t[k])]
<1>1. \E h : h = [k \in 0..n |-> IF k = 0 THEN <<>> ELSE AddFieldIndex(h[k - 1], t[k])]
  <2>1. PICK h : Loops(h, "tag", t, <<>>, n)
    BY LoopExists
  <2>2. h = [k \in 0..n |-> IF k = 0 THEN <<>> ELSE AddFieldIndex(h[k - 1], t[k])]
    BY <2>1 DEF Loops, Round
  <2> QED BY <2>2
<1>2. f = [k \in 0..n |-> IF k = 0 THEN <<>> ELSE AddFieldIndex(f[k - 1], t[k])]
  BY <1>1
<1>3. GetFieldTypes(t) = f[n]
  BY DEF GetFieldTypes
<1> HIDE DEF f
<1> QED BY <1>2, <1>3 DEF Loops, Round

\* Navigate in rounds, one step each.
LEMMA NavigateLoops ==
    ASSUME NEW ns, NEW at, NEW steps, Len(steps) \in Nat
    PROVE  \E f : /\ Loops(f, "steps", steps, [alive |-> TRUE, at |-> at, nodes |-> ns], Len(steps))
                  /\ Navigate(ns, at, steps) = f[Len(steps)]
<1> DEFINE n == Len(steps)
           x == [alive |-> TRUE, at |-> at, nodes |-> ns]
           f == CHOOSE h : h = [k \in 0..n |-> IF k = 0 THEN x ELSE NavigateStep(h[k - 1], steps[k])]
<1>1. \E h : h = [k \in 0..n |-> IF k = 0 THEN x ELSE NavigateStep(h[k - 1], steps[k])]
  <2>1. PICK h : Loops(h, "steps", steps, x, n)
    BY LoopExists
  <2>2. h = [k \in 0..n |-> IF k = 0 THEN x ELSE NavigateStep(h[k - 1], steps[k])]
    BY <2>1 DEF Loops, Round
  <2> QED BY <2>2
<1>2. f = [k \in 0..n |-> IF k = 0 THEN x ELSE NavigateStep(f[k - 1], steps[k])]
  BY <1>1
<1>3. Navigate(ns, at, steps) = f[n]
  BY DEF Navigate
<1> HIDE DEF f
<1> QED BY <1>2, <1>3 DEF Loops, Round

\* A list of n different numbers up to n has them all.
LEMMA InjectiveFills ==
    ASSUME NEW n \in Nat, NEW o \in Seq(1..n), Len(o) = n, IsInjective(o)
    PROVE  Range(o) = 1..n
<1>1. o \in [1..n -> 1..n] /\ DOMAIN o = 1..n
  BY LenProperties
<1>2. o \in Injection(1..n, 1..n)
  BY <1>1 DEF Injection
<1>3. IsFiniteSet(1..n)
  BY FS_Interval
<1>4. o \in Surjection(1..n, 1..n)
  BY <1>2, <1>3, FS_Injection
<1>5. \A y \in 1..n : \E x \in 1..n : o[x] = y
  BY <1>4 DEF Surjection
<1> QED BY <1>1, <1>5 DEF Range

\* An order of k entries, in which none comes before an earlier one, and none of the
\* entries left before any of them.
OrderOf(w, o, k) ==
    /\ o \in Seq(Entries(w)) /\ Len(o) = k /\ IsInjective(o)
    /\ \A m, n \in 1..k : m < n => ~Less(Entry(w, o[n]), Entry(w, o[m]))
    /\ \A i \in Entries(w), m \in 1..k : i \notin Range(o) => ~Less(Entry(w, i), Entry(w, o[m]))

\* The entry that comes next.
LEMMA OrderExtended ==
    ASSUME NEW w, NEW k \in Nat, NEW o, OrderOf(w, o, k),
           NEW i \in Least(w, Entries(w) \ Range(o))
    PROVE  OrderOf(w, Append(o, i), k + 1)
<1> DEFINE p == Append(o, i)
           E == Entries(w)
           l == k + 1
<1>1. o \in Seq(E) /\ Len(o) = k /\ DOMAIN o = 1..k
  BY LenProperties DEF OrderOf
<1>2. i \in E /\ i \notin Range(o) /\ \A j \in E : j \notin Range(o) /\ j # i
                                                  => ~Less(Entry(w, j), Entry(w, i))
  BY DEF Least
<1>3. p \in Seq(E) /\ Len(p) = l /\ p[l] = i /\ \A m \in 1..k : p[m] = o[m]
  BY <1>1, <1>2, AppendProperties
<1>4. DOMAIN p = 1..l /\ l \in Nat /\ 1..l = (1..k) \union {l} /\ l \notin 1..k
  BY <1>3, LenProperties
<1>5. \A m \in 1..k : o[m] # i /\ o[m] \in Range(o)
  BY <1>1, <1>2 DEF Range
<1> HIDE DEF p, l, E
<1>6. IsInjective(p)
  <2>1. \A a, b \in 1..k : o[a] = o[b] => a = b
    BY <1>1 DEF OrderOf, IsInjective
  <2>2. \A a, b \in 1..l : p[a] = p[b] => a = b
    BY <1>3, <1>4, <1>5, <2>1
  <2> QED BY <1>4, <2>2 DEF IsInjective
<1>7. ASSUME NEW m \in 1..l, NEW n \in 1..l, m < n
      PROVE  ~Less(Entry(w, p[n]), Entry(w, p[m]))
  <2>0. m \in 1..k
    BY <1>7 DEF l
  <2>1. CASE n \in 1..k
    BY <1>3, <1>7, <2>0, <2>1 DEF OrderOf
  <2>2. CASE n = l
    BY <1>2, <1>3, <2>0, <2>2 DEF OrderOf, E
  <2> QED BY <1>4, <2>1, <2>2
<1>8. ASSUME NEW j \in E, j \notin Range(p), NEW m \in 1..l
      PROVE  ~Less(Entry(w, j), Entry(w, p[m]))
  <2>1. j # i /\ j \notin Range(o)
    BY <1>1, <1>3, <1>4, <1>8 DEF Range
  <2>2. CASE m \in 1..k
    BY <1>3, <2>1, <2>2 DEF OrderOf, E
  <2>3. CASE m = l
    BY <1>2, <1>3, <2>1, <2>3
  <2> QED BY <1>4, <2>2, <2>3
<1> QED BY <1>3, <1>6, <1>7, <1>8 DEF OrderOf, E, p, l

\* What std::sort may leave: all the entries, in an order of the comparator.
LEMMA SortedOrders ==
    ASSUME NEW w, input[w].size \in Nat, NEW o \in Sorted(w)
    PROVE  OrderOf(w, o, input[w].size) /\ Range(o) = Entries(w)
<1> DEFINE n == input[w].size
<1>1. PICK f : Loops(f, "sort", w, {<<>>}, n) /\ Sorted(w) = f[n]
  BY SortedLoops
<1>2. f[0] = {<<>>} /\ \A k \in 0..(n - 1) : f[k + 1] = Extended(w, f[k])
  BY <1>1, LoopRounds DEF Round
<1> DEFINE P == {k \in Nat : k <= n => \A p \in f[k] : OrderOf(w, p, k)}
<1>3. 0 \in P
  <2>1. OrderOf(w, <<>>, 0)
    <3>1. <<>> \in Seq(Entries(w)) /\ Len(<<>>) = 0 /\ DOMAIN <<>> = {}
      BY EmptySeq
    <3> QED BY <3>1 DEF OrderOf, IsInjective
  <2> QED BY <1>2, <2>1
<1>4. ASSUME NEW k \in Nat, k \in P
      PROVE  k + 1 \in P
  <2> SUFFICES ASSUME k + 1 <= n, NEW q \in f[k + 1]
               PROVE  OrderOf(w, q, k + 1)
    OBVIOUS
  <2>1. k \in 0..(n - 1)
    OBVIOUS
  <2>2. q \in Extended(w, f[k])
    <3>1. f[k + 1] = Extended(w, f[k])
      BY <1>2, <2>1, Zenon
    <3> QED BY <3>1, Zenon
  <2>3. PICK p \in f[k] : \E i \in Least(w, Entries(w) \ Range(p)) : q = Append(p, i)
    BY <2>2 DEF Extended
  <2>4. PICK i \in Least(w, Entries(w) \ Range(p)) : q = Append(p, i)
    BY <2>3
  <2>5. OrderOf(w, p, k)
    BY <1>4, <2>1
  <2> QED BY <2>4, <2>5, OrderExtended
<1> HIDE DEF P
<1>5. Nat \subseteq P
  BY <1>3, <1>4, SetInduction
<1>6. OrderOf(w, o, n)
  BY <1>1, <1>5 DEF P
<1>7. Range(o) = Entries(w)
  BY <1>6, InjectiveFills DEF OrderOf, Entries
<1> QED BY <1>6, <1>7

------------------------------------------------------------------------------
(* Where a tag leads *)

Element == Nat \union Key

\* The steps of a path from a message on that end at a message, at least up to the
\* last of them.
StepsOf(s, last) ==
    /\ s \in Path /\ s # <<>>
    /\ \A n \in 1..Len(s) : s[n] # <<>> /\ s[n][1] \in Field
    /\ \A n \in 1..(Len(s) - 1) : Kind[s[n][1]] \in MessageKinds
    /\ s[Len(s)][1] = last

\* One more element of the tag, which goes on from where the steps so far lead.
LEMMA StepsAfter ==
    ASSUME NEW s, NEW l \in Field, s = <<>> \/ StepsOf(s, l), NEW e \in FieldIndex,
           s = <<>> => e[1] = "field",
           s # <<>> /\ e[1] = "field" => Kind[l] \in MessageKinds
    PROVE  StepsOf(AddFieldIndex(s, e), IF e[1] = "field" THEN e[2] ELSE l)
<1>1. s \in Path /\ Len(s) \in Nat /\ (s # <<>> => Len(s) # 0)
  BY EmptySeq, LenProperties DEF StepsOf, Path
<1>2. \A n \in 1..Len(s) : s[n] \in Seq(Element)
  BY <1>1, ElementOfSeq DEF Path, Element
<1>3. Field \subseteq Nat
  BY MergerAssumption
<1>4. CASE e[1] = "field"
  <2> DEFINE t == Append(s, <<e[2]>>)
             m == Len(s) + 1
  <2>1. e[2] \in Field
    BY <1>4 DEF FieldIndex
  <2>2. <<e[2]>> \in Seq(Element) /\ <<e[2]>> # <<>> /\ <<e[2]>>[1] = e[2]
    <3>1. e[2] \in Element
      BY <1>3, <2>1 DEF Element
    <3> QED BY <3>1, EmptySeq
  <2>3. t \in Path /\ Len(t) = m /\ t[m] = <<e[2]>> /\ \A n \in 1..Len(s) : t[n] = s[n]
    BY <1>1, <2>2, AppendProperties DEF Path, Element
  <2>4. m \in Nat /\ m # 0 /\ 1..m = 1..Len(s) \union {m} /\ m - 1 = Len(s)
    BY <1>1
  <2> HIDE DEF t, m
  <2>5. t # <<>>
    BY <2>3, <2>4
  <2>6. \A n \in 1..m : t[n] # <<>> /\ t[n][1] \in Field
    <3>1. \A n \in 1..Len(s) : t[n] # <<>> /\ t[n][1] \in Field
      <4>1. CASE s = <<>>
        BY <4>1
      <4>2. CASE StepsOf(s, l)
        BY <2>3, <4>2 DEF StepsOf
      <4> QED BY <4>1, <4>2
    <3> QED BY <2>1, <2>2, <2>3, <2>4, <3>1
  <2>7. \A n \in 1..(m - 1) : Kind[t[n][1]] \in MessageKinds
    <3>1. CASE s = <<>>
      <4>1. Len(s) = 0
        BY <3>1
      <4> QED BY <2>4, <4>1
    <3>2. CASE s # <<>>
      <4>1. StepsOf(s, l) /\ Kind[l] \in MessageKinds
        BY <1>4, <3>2
      <4>2. 1..Len(s) = 1..(Len(s) - 1) \union {Len(s)}
        BY <1>1, <3>2
      <4>3. \A n \in 1..Len(s) : Kind[s[n][1]] \in MessageKinds
        BY <4>1, <4>2 DEF StepsOf
      <4> QED BY <2>3, <2>4, <4>3
    <3> QED BY <3>1, <3>2
  <2>8. StepsOf(t, e[2])
    BY <2>2, <2>3, <2>5, <2>6, <2>7 DEF StepsOf
  <2> QED BY <1>4, <2>8 DEF AddFieldIndex, t
<1>5. CASE e[1] # "field"
  <2> DEFINE k == Len(s)
             x == Append(s[k], e[2])
             t == [s EXCEPT ![k] = x]
  <2>0. StepsOf(s, l) /\ s # <<>>
    BY <1>5
  <2>1. k \in Nat /\ k # 0 /\ k \in 1..k
    BY <1>1, <2>0
  <2>2. e[2] \in Element
    BY <1>5 DEF FieldIndex, Element
  <2>3. s[k] \in Seq(Element) /\ s[k] # <<>> /\ s[k][1] = l
    BY <1>2, <2>0, <2>1 DEF StepsOf
  <2>4. Len(s[k]) \in Nat /\ Len(s[k]) # 0
    BY <2>3, EmptySeq, LenProperties
  <2>5. x \in Seq(Element) /\ x # <<>> /\ x[1] = l
    <3>1. /\ x \in Seq(Element) /\ Len(x) = Len(s[k]) + 1
          /\ \A i \in 1..Len(s[k]) : x[i] = s[k][i]
      BY <2>2, <2>3, AppendProperties
    <3>2. 1 \in 1..Len(s[k]) /\ Len(x) # 0
      BY <2>4, <3>1
    <3> HIDE DEF x
    <3> QED BY <2>3, <3>1, <3>2
  <2> HIDE DEF x
  <2>6. t \in Path /\ Len(t) = k /\ \A n \in 1..k : t[n] = IF n = k THEN x ELSE s[n]
    BY <1>1, <2>1, <2>5, ExceptSeq DEF Path, Element
  <2> HIDE DEF t
  <2>7. t # <<>>
    BY <2>1, <2>6
  <2>8. StepsOf(t, l)
    <3>1. \A n \in 1..k : t[n] # <<>> /\ t[n][1] \in Field
      BY <2>0, <2>5, <2>6 DEF StepsOf
    <3>2. \A n \in 1..(k - 1) : n \in 1..k /\ n # k
      BY <2>1
    <3>3. \A n \in 1..(k - 1) : Kind[t[n][1]] \in MessageKinds
      BY <2>0, <2>6, <3>2 DEF StepsOf
    <3> QED BY <2>1, <2>5, <2>6, <2>7, <3>1, <3>3 DEF StepsOf
  <2> QED BY <1>5, <2>8 DEF AddFieldIndex, t, x, k
<1> QED BY <1>4, <1>5

\* AddFieldTag's rules, for an element after the first.
LEMMA TagRules ==
    ASSUME NEW t \in Tag, NEW k \in Nat, k # 0, k + 1 <= Len(t)
    PROVE  /\ t[k + 1][1] = "field" => Kind[FieldAt(t, k)] \in MessageKinds
           /\ t[k + 1][1] # "field" => t[k][1] = "field"
<1> DEFINE d == k + 1
<1>1. Len(t) \in Nat
  BY TagElements
<1>2. d \in 2..Len(t) /\ d \in 1..Len(t) /\ d - 1 = k
  BY <1>1
<1>3. t[d][1] \in {"field", "index", "key"}
  BY <1>2, TagElements
<1>4. LET before  == Kind[FieldAt(t, d - 1)]
          isField == t[d - 1][1] = "field"
      IN  CASE t[d][1] = "field" -> IF isField THEN before = "message"
                                               ELSE before \in {"repeated", "map"}
            [] t[d][1] = "index" -> isField /\ before \in {"repeated", "strings"}
            [] t[d][1] = "key"   -> isField /\ before \in {"map", "stringMap"}
  BY <1>2 DEF Tag, FollowsDescriptor
<1> HIDE DEF d
<1>5. t[d][1] = "field" => Kind[FieldAt(t, k)] \in MessageKinds
  BY <1>2, <1>4 DEF MessageKinds
<1>6. t[d][1] # "field" => t[k][1] = "field"
  BY <1>2, <1>3, <1>4
<1> QED BY <1>5, <1>6 DEF d

\* GetFieldTypes gives the steps to where the tag leads.
LEMMA FieldTypes ==
    ASSUME NEW t \in Tag, t # <<>>
    PROVE  \E l \in Field : StepsOf(GetFieldTypes(t), l)
<1> DEFINE n == Len(t)
<1>1. n \in Nat /\ n # 0
  BY EmptySeq, TagElements DEF Tag
<1>2. PICK f : Loops(f, "tag", t, <<>>, n) /\ GetFieldTypes(t) = f[n]
  BY <1>1, TagLoops
<1>3. f[0] = <<>> /\ \A k \in 0..(n - 1) : f[k + 1] = AddFieldIndex(f[k], t[k + 1])
  BY <1>1, <1>2, LoopRounds DEF Round
<1> DEFINE P == {k \in Nat : k \in 1..n => /\ FieldAt(t, k) \in Field
                                           /\ StepsOf(f[k], FieldAt(t, k))}
<1>4. 0 \in P
  OBVIOUS
<1>5. ASSUME NEW k \in Nat, k \in P
      PROVE  k + 1 \in P
  <2> DEFINE d == k + 1
             e == t[d]
  <2> SUFFICES ASSUME d \in 1..n
               PROVE  FieldAt(t, d) \in Field /\ StepsOf(f[d], FieldAt(t, d))
    OBVIOUS
  <2>1. f[d] = AddFieldIndex(f[k], e)
    <3>1. k \in 0..(n - 1)
      BY <1>1
    <3> QED BY <1>3, <3>1
  <2>2. e \in FieldIndex
    BY ElementOfSeq DEF Tag
  <2>3. e[1] = "field" => e[2] \in Field
    BY TagElements
  <2>4. CASE k = 0
    <3>1. d = 1 /\ f[k] = <<>>
      BY <1>3, <2>4
    <3>2. e[1] = "field"
      BY <3>1 DEF Tag, FollowsDescriptor
    <3>3. StepsOf(AddFieldIndex(f[k], e), e[2])
      <4>1. StepsOf(AddFieldIndex(f[k], e), IF e[1] = "field" THEN e[2] ELSE e[2])
        <5> HIDE DEF e, d
        <5> QED BY <2>2, <2>3, <3>1, <3>2, StepsAfter
      <4> QED BY <4>1
    <3> QED BY <2>1, <2>3, <3>2, <3>3 DEF FieldAt
  <2>5. CASE k # 0
    <3> DEFINE l == FieldAt(t, k)
    <3>1. k \in 1..n
      BY <1>1, <2>5
    <3>2. l \in Field /\ StepsOf(f[k], l)
      BY <1>5, <3>1
    <3>3. d <= Len(t)
      BY <1>1
    <3>4. /\ e[1] = "field" => Kind[l] \in MessageKinds
          /\ e[1] # "field" => t[k][1] = "field"
      BY <2>5, <3>3, TagRules
    <3>5. f[k] # <<>>
      BY <3>2 DEF StepsOf
    <3>6. StepsOf(AddFieldIndex(f[k], e), IF e[1] = "field" THEN e[2] ELSE l)
      <4> HIDE DEF e, l
      <4> QED BY <2>2, <3>2, <3>4, <3>5, StepsAfter
    <3>7. FieldAt(t, d) = IF e[1] = "field" THEN e[2] ELSE l
      <4>1. d - 1 = k
        OBVIOUS
      <4> QED BY <3>4, <4>1 DEF FieldAt
    <3> QED BY <2>1, <2>3, <3>2, <3>6, <3>7
  <2> QED BY <2>4, <2>5
<1> HIDE DEF P
<1>6. Nat \subseteq P
  BY <1>4, <1>5, SetInduction
<1>7. n \in 1..n
  BY <1>1
<1> QED BY <1>1, <1>2, <1>6, <1>7 DEF P

------------------------------------------------------------------------------
(* Ways in a ChunkedMessage *)

\* A ChunkedMessage is a finite tree of ways from its root.
LEMMA InputWays ==
    ASSUME input \in Inputs
    PROVE  /\ DOMAIN input \subseteq Way /\ IsFiniteSet(DOMAIN input)
           /\ <<>> \in DOMAIN input
BY InputAssumption DEF IsChunkedMessage, Way

\* A way goes from entry to entry.
LEMMA WayParts ==
    ASSUME input \in Inputs, NEW v \in DOMAIN input, NEW k \in 1..Len(v)
    PROVE  /\ SubSeq(v, 1, k - 1) \in DOMAIN input
           /\ v[k] \in Entries(SubSeq(v, 1, k - 1))
           /\ SubSeq(v, 1, k) = Append(SubSeq(v, 1, k - 1), v[k])
           /\ SubSeq(v, 1, k) \in DOMAIN input
<1>1. v \in Seq(Nat) /\ Len(v) \in Nat
  BY InputWays, LenProperties DEF Way
<1>2. \A w \in DOMAIN input :
         w # <<>> => Front(w) \in DOMAIN input /\ Last(w) \in 1..input[Front(w)].size
  BY InputAssumption DEF IsChunkedMessage
<1>3. ASSUME NEW j \in 1..Len(v), SubSeq(v, 1, j) \in DOMAIN input
      PROVE  /\ SubSeq(v, 1, j) = Append(SubSeq(v, 1, j - 1), v[j])
             /\ SubSeq(v, 1, j - 1) \in DOMAIN input
             /\ v[j] \in Entries(SubSeq(v, 1, j - 1))
  <2> DEFINE p == SubSeq(v, 1, j)
             q == SubSeq(v, 1, j - 1)
  <2>1. p = Append(q, v[j])
    BY <1>1, PrefixLast
  <2>2. q \in Seq(Nat) /\ v[j] \in Nat
    <3>1. j - 1 \in 0..Len(v)
      BY <1>1
    <3> QED BY <1>1, <3>1, PrefixElements, ElementOfSeq
  <2>3. p # <<>>
    <3>1. Len(p) = j /\ j # 0
      BY <1>1, PrefixElements
    <3> HIDE DEF p
    <3> QED BY <3>1
  <2>4. Front(p) = q /\ Last(p) = v[j]
    <3> HIDE DEF p, q
    <3>1. Front(Append(q, v[j])) = q /\ Last(Append(q, v[j])) = v[j]
      BY <2>2, PrefixOfAppend
    <3> QED BY <2>1, <3>1
  <2> QED BY <1>2, <1>3, <2>1, <2>3, <2>4 DEF Entries
<1> DEFINE P == {m \in Nat : m <= Len(v) => SubSeq(v, 1, Len(v) - m) \in DOMAIN input}
<1>4. 0 \in P
  <2>1. SubSeq(v, 1, Len(v)) = v /\ Len(v) - 0 = Len(v)
    BY <1>1, SubSeqFull
  <2> QED BY <2>1
<1>5. ASSUME NEW m \in Nat, m \in P
      PROVE  m + 1 \in P
  <2> SUFFICES ASSUME m + 1 <= Len(v)
               PROVE  SubSeq(v, 1, Len(v) - (m + 1)) \in DOMAIN input
    OBVIOUS
  <2> DEFINE j == Len(v) - m
  <2>1. j \in 1..Len(v) /\ m <= Len(v) /\ Len(v) - (m + 1) = j - 1
    BY <1>1
  <2>2. SubSeq(v, 1, j) \in DOMAIN input
    BY <1>5, <2>1
  <2> HIDE DEF j
  <2>3. SubSeq(v, 1, j - 1) \in DOMAIN input
    BY <1>3, <2>1, <2>2
  <2> QED BY <2>1, <2>3
<1> HIDE DEF P
<1>6. Nat \subseteq P
  BY <1>4, <1>5, SetInduction
<1>7. SubSeq(v, 1, k) \in DOMAIN input
  <2> DEFINE m == Len(v) - k
  <2>1. m \in Nat /\ m <= Len(v) /\ Len(v) - m = k
    BY <1>1
  <2> HIDE DEF m
  <2>2. SubSeq(v, 1, Len(v) - m) \in DOMAIN input
    BY <1>6, <2>1 DEF P
  <2> QED BY <2>1, <2>2
<1> QED BY <1>3, <1>7

\* The outermost message is merged into the message itself.
LEMMA AskedRoot ==
    ASSUME input \in Inputs
    PROVE  <<>> \in Asked /\ Place(<<>>) = <<>>
<1>1. DOMAIN <<>> = {} /\ <<>> \in DOMAIN input
  BY InputWays
<1>2. [n \in DOMAIN <<>> |-> GetFieldTypes(input[SubSeq(<<>>, 1, n)].tag)] = <<>>
  OBVIOUS
<1>3. FlattenSeq(<<>>) = <<>>
  BY DEF FlattenSeq
<1> QED BY <1>1, <1>2, <1>3 DEF Asked, Place

\* All the entries on the way to a message that is merged are messages.
LEMMA AskedParts ==
    ASSUME input \in Inputs, NEW w \in Asked, NEW k \in 1..Len(w)
    PROVE  /\ SubSeq(w, 1, k - 1) \in Asked
           /\ OfMessage(Entry(SubSeq(w, 1, k - 1), w[k]))
<1> DEFINE j == k - 1
           p == SubSeq(w, 1, j)
<1>1. w \in DOMAIN input /\ w \in Seq(Nat) /\ Len(w) \in Nat /\ DOMAIN w = 1..Len(w)
  BY InputWays, LenProperties DEF Asked, Way
<1>2. \A n \in 1..Len(w) : OfMessage(input[SubSeq(w, 1, n)])
  BY <1>1 DEF Asked
<1>3. p \in DOMAIN input /\ SubSeq(w, 1, k) = Append(p, w[k])
  BY <1>1, WayParts
<1>4. j \in 0..Len(w)
  BY <1>1
<1>5. Len(p) = j /\ p \in Seq(Nat)
  BY <1>1, <1>4, PrefixElements
<1>6. ASSUME NEW n \in DOMAIN p
      PROVE  OfMessage(input[SubSeq(p, 1, n)])
  <2>1. n \in 1..j
    BY <1>5, LenProperties
  <2>2. n \in 0..j /\ n \in 1..Len(w)
    BY <1>1, <1>4, <2>1
  <2>3. SubSeq(p, 1, n) = SubSeq(w, 1, n)
    <3> HIDE DEF j
    <3> QED BY <1>1, <1>4, <2>2, PrefixOfPrefix
  <2> QED BY <1>2, <2>2, <2>3
<1> QED BY <1>2, <1>3, <1>6 DEF Asked, Entry

\* The next entry on the way.
LEMMA AskedEntry ==
    ASSUME input \in Inputs, NEW w \in Asked, NEW i \in Entries(w)
    PROVE  Append(w, i) \in Asked <=> OfMessage(Entry(w, i))
<1> DEFINE v == Append(w, i)
           n == Len(w)
           m == n + 1
<1>1. w \in DOMAIN input /\ w \in Seq(Nat) /\ n \in Nat /\ DOMAIN w = 1..n
  BY InputWays, LenProperties DEF Asked, Way
<1>2. i \in Nat /\ v \in DOMAIN input
  BY <1>1, EntriesAreFields DEF Entries
<1>3. v \in Seq(Nat) /\ Len(v) = m
  BY <1>1, <1>2, AppendProperties
<1>4. DOMAIN v = 1..m /\ 1..m = 1..n \union {m} /\ m \in 1..m
  BY <1>1, <1>3, LenProperties
<1>5. SubSeq(v, 1, m) = v /\ \A k \in 0..n : SubSeq(v, 1, k) = SubSeq(w, 1, k)
  BY <1>1, <1>2, PrefixOfAppend
<1> HIDE DEF v, m
<1>6. \A k \in 1..n : SubSeq(v, 1, k) = SubSeq(w, 1, k)
  BY <1>1, <1>5
<1>7. \A k \in 1..n : OfMessage(input[SubSeq(w, 1, k)])
  BY <1>1 DEF Asked
<1>8. v \in Asked <=> \A k \in 1..m : OfMessage(input[SubSeq(v, 1, k)])
  BY <1>2, <1>4 DEF Asked
<1>9. v \in Asked <=> OfMessage(input[v])
  BY <1>4, <1>5, <1>6, <1>7, <1>8
<1> QED BY <1>9 DEF v, Entry

\* A message's place is the place of the message around it, and the steps from there.
LEMMA PlaceEntry ==
    ASSUME input \in Inputs, NEW w \in Asked
    PROVE  /\ Place(w) \in Path
           /\ \A i \in Entries(w) :
                 OfMessage(Entry(w, i)) =>
                    Place(Append(w, i)) = Place(w) \o GetFieldTypes(Entry(w, i).tag)
<1> DEFINE S == Seq(Element)
           To(u) == [n \in DOMAIN u |-> GetFieldTypes(input[SubSeq(u, 1, n)].tag)]
<1>1. ASSUME NEW u \in Asked
      PROVE  To(u) \in Seq(Path) /\ Len(To(u)) = Len(u)
  <2>1. u \in DOMAIN input /\ u \in Seq(Nat) /\ Len(u) \in Nat /\ DOMAIN u = 1..Len(u)
    BY InputWays, LenProperties DEF Asked, Way
  <2>2. ASSUME NEW n \in 1..Len(u)
        PROVE  GetFieldTypes(input[SubSeq(u, 1, n)].tag) \in Path
    <3> DEFINE t == input[SubSeq(u, 1, n)].tag
    <3>1. OfMessage(input[SubSeq(u, 1, n)])
      BY <2>1 DEF Asked
    <3>2. SubSeq(u, 1, n) \in DOMAIN input
      BY <2>1, WayParts
    <3>3. t \in Tag
      BY <3>2, EntriesAreFields, FieldParts
    <3>4. t # <<>>
      BY <3>1 DEF OfMessage
    <3> HIDE DEF t
    <3>5. GetFieldTypes(t) \in Path
      BY <3>3, <3>4, FieldTypes DEF StepsOf
    <3> QED BY <3>5 DEF t
  <2>3. To(u) = [n \in 1..Len(u) |-> GetFieldTypes(input[SubSeq(u, 1, n)].tag)]
    BY <2>1
  <2> HIDE DEF To
  <2> QED BY <2>1, <2>2, <2>3, IsASeq, LenProperties
<1>2. \A u : Place(u) = FlattenSeq(To(u))
  BY DEF Place
<1>3. Path = Seq(S)
  BY DEF Path, Element
<1>4. Place(w) \in Path
  <2>1. To(w) \in Seq(Seq(S))
    BY <1>1, <1>3
  <2> HIDE DEF To
  <2> QED BY <1>2, <1>3, <2>1, FlattenAppend, EmptySeq
<1>5. ASSUME NEW i \in Entries(w), OfMessage(Entry(w, i))
      PROVE  Place(Append(w, i)) = Place(w) \o GetFieldTypes(Entry(w, i).tag)
  <2> DEFINE v == Append(w, i)
             g == GetFieldTypes(Entry(w, i).tag)
             n == Len(w)
             m == n + 1
  <2>1. w \in DOMAIN input /\ w \in Seq(Nat) /\ n \in Nat /\ DOMAIN w = 1..n
    BY InputWays, LenProperties DEF Asked, Way
  <2>2. i \in Nat
    BY DEF Entries
  <2>3. v \in Asked
    BY <1>5, AskedEntry
  <2>4. v \in Seq(Nat) /\ Len(v) = m /\ DOMAIN v = 1..m /\ 1..m = 1..n \union {m} /\ m \in 1..m
    BY <2>1, <2>2, AppendProperties, LenProperties
  <2>5. SubSeq(v, 1, m) = v /\ \A k \in 0..n : SubSeq(v, 1, k) = SubSeq(w, 1, k)
    BY <2>1, <2>2, PrefixOfAppend
  <2>6. \A k \in 1..n : SubSeq(v, 1, k) = SubSeq(w, 1, k)
    BY <2>1, <2>5
  <2>7. g \in Path
    <3> DEFINE t == Entry(w, i).tag
    <3>1. t \in Tag
      BY <2>1, EntriesAreFields, FieldParts
    <3>2. t # <<>>
      BY <1>5 DEF OfMessage
    <3> HIDE DEF t
    <3>3. GetFieldTypes(t) \in Path
      BY <3>1, <3>2, FieldTypes DEF StepsOf
    <3> QED BY <3>3 DEF t
  <2>8. /\ To(w) \in Seq(Path) /\ Len(To(w)) = n
        /\ To(v) \in Seq(Path) /\ Len(To(v)) = m
    BY <1>1, <2>3, <2>4
  <2>9. To(v) = Append(To(w), g)
    <3> DEFINE a == Append(To(w), g)
    <3>1. \A k \in 1..m : To(v)[k] = GetFieldTypes(input[SubSeq(v, 1, k)].tag)
      BY <2>4
    <3>2. \A k \in 1..n : To(w)[k] = GetFieldTypes(input[SubSeq(w, 1, k)].tag)
      BY <2>1
    <3>3. input[v].tag = Entry(w, i).tag
      BY DEF Entry
    <3> HIDE DEF To, v
    <3>4. /\ a \in Seq(Path) /\ Len(a) = m /\ a[m] = g
          /\ \A k \in 1..n : a[k] = To(w)[k]
      <4> HIDE DEF g
      <4> QED BY <2>7, <2>8, AppendProperties
    <3> HIDE DEF a
    <3>5. \A k \in 1..m : To(v)[k] = a[k]
      BY <2>4, <2>5, <2>6, <3>1, <3>2, <3>3, <3>4
    <3>6. To(v) = a
      BY <2>8, <3>4, <3>5, SeqEqual
    <3> QED BY <3>6 DEF a
  <2>10. To(w) \in Seq(Seq(S)) /\ g \in Seq(S)
    BY <1>3, <2>7, <2>8
  <2> HIDE DEF To, g, v
  <2>11. FlattenSeq(Append(To(w), g)) = FlattenSeq(To(w)) \o g
    BY <2>10, FlattenAppend
  <2>12. Place(v) = Place(w) \o g
    BY <1>2, <2>9, <2>11
  <2> QED BY <2>12 DEF g, v
<1> QED BY <1>4, <1>5

------------------------------------------------------------------------------
(* The merged message *)

\* What was merged is still there, and nothing is in the nodes that were added.
Grown(ns, ms) == /\ DOMAIN ns \subseteq DOMAIN ms
                 /\ \A p \in DOMAIN ns : ms[p] = ns[p]
                 /\ \A p \in DOMAIN ms : p \notin DOMAIN ns => ms[p] = <<>>

\* WithNodes only adds nodes.
LEMMA WithNodesGrow ==
    ASSUME NEW ns, NEW ms, Grown(ns, ms), NEW new
    PROVE  Grown(ns, WithNodes(ms, new)) /\ new \subseteq DOMAIN WithNodes(ms, new)
BY DEF WithNodes, Grown

\* Where the walk from `at` is after k steps.
AfterSteps(n, ns, at, steps, k) ==
    /\ n = [alive |-> n.alive, at |-> n.at, nodes |-> n.nodes]
    /\ Grown(ns, n.nodes)
    /\ n.at \in Path /\ n.at \in DOMAIN n.nodes
    /\ n.alive /\ (\A j \in 1..k : Kind[steps[j][1]] \in MessageKinds)
          => n.at = at \o SubSeq(steps, 1, k)

\* One more step down.
LEMMA OneStep ==
    ASSUME NEW ns, NEW at \in Path, NEW steps \in Path, NEW k \in 0..(Len(steps) - 1),
           NEW n, AfterSteps(n, ns, at, steps, k)
    PROVE  AfterSteps(NavigateStep(n, steps[k + 1]), ns, at, steps, k + 1)
<1> DEFINE d == k + 1
           step == steps[d]
           p == Append(n.at, step)
           m == NavigateStep(n, step)
<1>1. Len(steps) \in Nat /\ d \in 1..Len(steps) /\ k \in 1..d \union {0} /\ d - 1 = k
      /\ k \in 0..Len(steps) /\ 1..k \subseteq 1..d /\ d \in 1..d
  BY LenProperties DEF Path
<1>2. step \in Seq(Element)
  BY <1>1, ElementOfSeq DEF Path, Element
<1>3. SubSeq(steps, 1, d) = Append(SubSeq(steps, 1, k), step)
  BY <1>1, PrefixLast DEF Path
<1>4. SubSeq(steps, 1, k) \in Seq(Seq(Element))
  BY <1>1, PrefixElements DEF Path, Element
<1>5. at \in Seq(Seq(Element)) /\ n.at \in Seq(Seq(Element))
  BY DEF AfterSteps, Path, Element
<1> HIDE DEF d, step
<1>6. CASE ~n.alive \/ ~Reachable(n.nodes, n.at, step)
  <2>1. m = [n EXCEPT !.alive = FALSE]
    BY <1>6 DEF NavigateStep
  <2>2. m = [alive |-> FALSE, at |-> n.at, nodes |-> n.nodes]
    BY <2>1 DEF AfterSteps
  <2> HIDE DEF m
  <2>3. m.alive = FALSE /\ m.at = n.at /\ m.nodes = n.nodes
        /\ m = [alive |-> m.alive, at |-> m.at, nodes |-> m.nodes]
    BY <2>2
  <2>4. AfterSteps(m, ns, at, steps, d)
    BY <2>3 DEF AfterSteps
  <2> QED BY <2>4 DEF m, step, d
<1>7. CASE n.alive /\ Reachable(n.nodes, n.at, step) /\ Kind[step[1]] \notin MessageKinds
  <2>1. m = n
    BY <1>7 DEF NavigateStep
  <2>2. AfterSteps(n, ns, at, steps, d)
    BY <1>1, <1>7 DEF AfterSteps, step
  <2> QED BY <2>1, <2>2 DEF m, step, d
<1>8. CASE n.alive /\ Reachable(n.nodes, n.at, step) /\ Kind[step[1]] \in MessageKinds
  <2>1. m = [alive |-> TRUE, at |-> p, nodes |-> WithNode(n.nodes, p)]
    BY <1>8 DEF NavigateStep
  <2> HIDE DEF m
  <2>2. m.at = p /\ m.nodes = WithNode(n.nodes, p)
        /\ m = [alive |-> m.alive, at |-> m.at, nodes |-> m.nodes]
    BY <2>1
  <2>3. p \in Path
    BY <1>2, <1>5, AppendProperties DEF Path, Element
  <2>4. Grown(ns, m.nodes) /\ m.at \in DOMAIN m.nodes
    <3>1. Grown(ns, n.nodes) /\ m.at = p /\ m.nodes = WithNodes(n.nodes, {p}) /\ p \in {p}
      BY <2>2 DEF AfterSteps, WithNode
    <3> HIDE DEF p
    <3>2. Grown(ns, WithNodes(n.nodes, {p})) /\ {p} \subseteq DOMAIN WithNodes(n.nodes, {p})
      BY <3>1, WithNodesGrow
    <3> QED BY <3>1, <3>2
  <2>5. ASSUME \A j \in 1..d : Kind[steps[j][1]] \in MessageKinds
        PROVE  m.at = at \o SubSeq(steps, 1, d)
    <3>1. n.at = at \o SubSeq(steps, 1, k)
      BY <1>1, <1>8, <2>5 DEF AfterSteps
    <3>2. at \o Append(SubSeq(steps, 1, k), step) = Append(at \o SubSeq(steps, 1, k), step)
      BY <1>2, <1>4, <1>5, ConcatAppend
    <3> QED BY <1>3, <2>2, <3>1, <3>2
  <2>6. AfterSteps(m, ns, at, steps, d)
    BY <2>2, <2>3, <2>4, <2>5 DEF AfterSteps
  <2> QED BY <2>6 DEF m, step, d
<1> QED BY <1>6, <1>7, <1>8

\* Navigate only adds empty nodes, and gets to where the steps lead.
LEMMA NavigateArrives ==
    ASSUME NEW ns, NEW at \in Path, at \in DOMAIN ns, NEW steps \in Path
    PROVE  AfterSteps(Navigate(ns, at, steps), ns, at, steps, Len(steps))
<1> DEFINE n == Len(steps)
           x == [alive |-> TRUE, at |-> at, nodes |-> ns]
<1>1. n \in Nat
  BY LenProperties DEF Path
<1>2. PICK f : Loops(f, "steps", steps, x, n) /\ Navigate(ns, at, steps) = f[n]
  BY <1>1, NavigateLoops
<1>3. f[0] = x /\ \A k \in 0..(n - 1) : f[k + 1] = NavigateStep(f[k], steps[k + 1])
  BY <1>1, <1>2, LoopRounds DEF Round
<1> DEFINE P == {k \in Nat : k <= n => AfterSteps(f[k], ns, at, steps, k)}
<1>4. 0 \in P
  <2>1. SubSeq(steps, 1, 0) = <<>>
    BY SubSeqEmpty
  <2>2. at \o <<>> = at
    BY ConcatEmptySeq DEF Path
  <2>3. Grown(ns, ns)
    BY DEF Grown
  <2>4. AfterSteps(x, ns, at, steps, 0)
    BY <2>1, <2>2, <2>3 DEF AfterSteps
  <2> QED BY <1>3, <2>4
<1>5. ASSUME NEW k \in Nat, k \in P
      PROVE  k + 1 \in P
  <2> SUFFICES ASSUME k + 1 <= n
               PROVE  AfterSteps(f[k + 1], ns, at, steps, k + 1)
    OBVIOUS
  <2>1. k \in 0..(n - 1) /\ k <= n
    BY <1>1
  <2>2. AfterSteps(f[k], ns, at, steps, k)
    BY <1>5, <2>1
  <2>3. AfterSteps(NavigateStep(f[k], steps[k + 1]), ns, at, steps, k + 1)
    BY <2>1, <2>2, OneStep
  <2> QED BY <1>3, <2>1, <2>3
<1> HIDE DEF P
<1>6. Nat \subseteq P
  BY <1>4, <1>5, SetInduction
<1>7. AfterSteps(f[n], ns, at, steps, n)
  BY <1>1, <1>6 DEF P
<1> QED BY <1>2, <1>7

\* MergeFrom appends the chunk to the message, and adds the elements the chunk brings.
LEMMA MergeChunkAppends ==
    ASSUME NEW ns, NEW at \in DOMAIN ns, NEW c
    PROVE  LET ms == MergeChunk(ns, at, c)
           IN  /\ DOMAIN ns \subseteq DOMAIN ms
               /\ ms[at] = Append(ns[at], c)
               /\ \A p \in DOMAIN ns : p # at => ms[p] = ns[p]
               /\ \A p \in DOMAIN ms : p \notin DOMAIN ns => ms[p] = <<>>
<1> DEFINE new == UNION {{Append(at, <<f, SizeOf(ns, at, f) + i>>) : i \in 0..(brings[c][f] - 1)} :
                           f \in {g \in Field : Kind[g] = "repeated"}}
           ks == [ns EXCEPT ![at] = Append(@, c)]
<1>1. MergeChunk(ns, at, c) = WithNodes(ks, new)
  BY DEF MergeChunk
<1>2. DOMAIN ks = DOMAIN ns /\ ks[at] = Append(ns[at], c)
      /\ \A p \in DOMAIN ns : p # at => ks[p] = ns[p]
  OBVIOUS
<1> HIDE DEF new, ks
<1>3. Grown(ks, WithNodes(ks, new))
  BY WithNodesGrow DEF Grown
<1> QED BY <1>1, <1>2, <1>3 DEF Grown

------------------------------------------------------------------------------
(* What is ahead *)

\* The stack and the call, and where they are in the ChunkedMessage.
LEMMA StackParts ==
    ASSUME MergingInv
    PROVE  /\ input \in Inputs
           /\ Len(stack) \in Nat /\ DOMAIN stack = 1..Len(stack)
           /\ \A k \in 1..Len(stack) :
                 /\ stack[k] \in Frames /\ LoopInv(k)
                 /\ stack[k].way \in Asked /\ Len(stack[k].way) = k - 1
                 /\ LeadTo(stack[k].way)
           /\ call # None => /\ call \in Calls /\ call.way \in Asked
                             /\ call.at = Place(call.way)
                             /\ Len(call.way) = Len(stack) /\ LeadTo(call.way)
<1>1. stack \in Seq(Frames) /\ call \in Calls \union {None}
  BY DEF MergingInv, TypeOK
<1>2. Len(stack) \in Nat /\ DOMAIN stack = 1..Len(stack)
      /\ \A k \in 1..Len(stack) : stack[k] \in Frames
  BY <1>1, LenProperties, ElementOfSeq
<1>3. /\ \A k \in 1..Len(stack) : LoopInv(k) /\ Len(stack[k].way) = k - 1 /\ LeadTo(stack[k].way)
      /\ call # None => /\ call.way \in Asked /\ call.at = Place(call.way)
                        /\ Len(call.way) = Len(stack) /\ LeadTo(call.way)
  BY <1>2 DEF MergingInv, StackInv
<1>4. \A k \in 1..Len(stack) : stack[k].way \in Asked
  BY <1>3 DEF LoopInv
<1> QED BY <1>1, <1>2, <1>3, <1>4 DEF MergingInv

\* The calls below a frame lead to it.
LEMMA FrameLed ==
    ASSUME MergingInv, NEW n, n = Len(stack), NEW k \in 1..n
    PROVE  LeadTo(stack[k].way) /\ DOMAIN stack = 1..n
<1>1. DOMAIN stack = 1..n /\ \A m \in 1..n : LeadTo(stack[m].way)
  BY StackParts
<1> QED BY <1>1

\* w is a way through entry i of the message at u.
Through(w, u, i) == Len(w) > Len(u) /\ SubSeq(w, 1, Len(u)) = u /\ w[Len(u) + 1] = i

\* A way that goes on from u goes through an entry of u.
LEMMA PrefixThrough ==
    ASSUME input \in Inputs, NEW u \in DOMAIN input, NEW w \in DOMAIN input
    PROVE  IsPrefix(u, w) <=> w = u \/ \E i \in Entries(u) : Through(w, u, i)
<1> DEFINE n == Len(u)
           m == n + 1
           l == Len(w)
<1>1. u \in Seq(Nat) /\ w \in Seq(Nat)
  BY InputWays DEF Way
<1>2. n \in Nat /\ l \in Nat /\ m = n + 1
  BY <1>1, LenProperties
<1>3. SubSeq(u, 1, n) = u /\ SubSeq(w, 1, l) = w
  BY <1>1, SubSeqFull
<1>4. IsPrefix(u, w) <=> n <= l /\ u = SubSeq(w, 1, n)
  BY <1>3 DEF IsPrefix
<1>5. \A i : Through(w, u, i) <=> l > n /\ SubSeq(w, 1, n) = u /\ w[m] = i
  BY DEF Through
<1>6. w = u => l = n
  OBVIOUS
<1>7. m \in 1..l => w[m] \in Entries(SubSeq(w, 1, m - 1))
  BY WayParts
<1> HIDE DEF n, m, l
<1>8. m - 1 = n /\ (l > n => m \in 1..l /\ l # n)
  BY <1>2
<1>9. CASE l > n
  <2>1. n <= l
    BY <1>2, <1>9
  <2>2. w[m] \in Entries(SubSeq(w, 1, n)) /\ w # u
    BY <1>6, <1>7, <1>8, <1>9
  <2> QED BY <1>4, <1>5, <1>9, <2>1, <2>2
<1>10. CASE ~(l > n)
  <2>1. n <= l <=> l = n
    BY <1>2, <1>10
  <2> QED BY <1>3, <1>4, <1>5, <1>6, <1>10, <2>1
<1> QED BY <1>9, <1>10

\* The frames are as deep as the messages they are at.
Placed == /\ input \in Inputs /\ stack \in Seq(Frames)
          /\ \A k \in 1..Len(stack) : Len(stack[k].way) = k - 1

\* The loop of frame k will get to w.
GetsTo(k, w) == \E i \in Range(stack[k].todo) : Through(w, stack[k].way, i)

AheadForm ==
    \A w \in DOMAIN input :
        Ahead(w) <=> \/ call # None /\ IsPrefix(call.way, w)
                     \/ \E k \in 1..Len(stack) : GetsTo(k, w)

\* What a running loop has still to do is ahead.
LEMMA AheadFrames == Placed => AheadForm
<1> SUFFICES ASSUME Placed, NEW w \in DOMAIN input
             PROVE  Ahead(w) <=> \/ call # None /\ IsPrefix(call.way, w)
                                 \/ \E k \in 1..Len(stack) : GetsTo(k, w)
  BY DEF AheadForm
<1>1. Len(stack) \in Nat /\ DOMAIN stack = 1..Len(stack)
      /\ \A k \in 1..Len(stack) : Len(stack[k].way) = k - 1
  BY LenProperties DEF Placed
<1>2. Len(w) \in Nat
  BY InputWays, LenProperties DEF Way, Placed
<1>3. ASSUME NEW k \in 1..Len(stack)
      PROVE  /\ Len(w) >= k <=> Len(w) > Len(stack[k].way)
             /\ Len(stack[k].way) + 1 = k /\ k - 1 = Len(stack[k].way)
  BY <1>1, <1>2
<1> QED BY <1>1, <1>3 DEF Ahead, Through, GetsTo

\* The running calls have left w behind them.
LEMMA LedTo ==
    ASSUME Placed, NEW w \in DOMAIN input, LeadTo(w), NEW k \in 1..Len(stack)
    PROVE  ~GetsTo(k, w)
<1>1. DOMAIN w = 1..Len(w) /\ Len(w) \in Nat
  BY InputWays, LenProperties DEF Way, Placed
<1>2. Len(stack[k].way) = k - 1 /\ Len(stack) \in Nat
  BY LenProperties DEF Placed
<1>3. k \in 1..Len(w) => w[k] \notin Range(stack[k].todo)
  BY <1>1 DEF LeadTo
<1>4. ASSUME NEW i, Through(w, stack[k].way, i)
      PROVE  k \in 1..Len(w) /\ w[k] = i
  <2>1. Len(stack[k].way) + 1 = k
    BY <1>2
  <2>2. Len(w) > k - 1
    BY <1>2, <1>4 DEF Through
  <2>3. w[k] = i
    BY <1>4, <2>1 DEF Through
  <2> QED BY <1>1, <2>2, <2>3
<1> QED BY <1>3, <1>4 DEF GetsTo

\* A frame with the entries to go through in `order` is pushed for the call.
Pushed(order) ==
    /\ call # None /\ call' = None
    /\ order \in Seq(Nat) /\ Range(order) = Entries(call.way)
    /\ stack' = Append(stack, [way |-> call.way, at |-> call.at, todo |-> order])
    /\ input' = input

\* The stack after that.
LEMMA PushedStack ==
    ASSUME MergingInv, NEW order, Pushed(order)
    PROVE  /\ Placed /\ Placed'
           /\ Len(stack') = Len(stack) + 1
           /\ \A k \in 1..Len(stack) : stack'[k] = stack[k]
           /\ stack'[Len(stack) + 1] = [way |-> call.way, at |-> call.at, todo |-> order]
<1> DEFINE n == Len(stack)
           m == n + 1
           f == [way |-> call.way, at |-> call.at, todo |-> order]
<1>1. /\ stack \in Seq(Frames) /\ input \in Inputs
      /\ n \in Nat /\ \A k \in 1..n : Len(stack[k].way) = k - 1
      /\ call \in Calls /\ Len(call.way) = n
  BY StackParts DEF MergingInv, TypeOK, Pushed
<1>2. f \in Frames /\ f.way = call.way
  BY <1>1 DEF Calls, Frames, Pushed
<1>3. stack' = Append(stack, f)
  BY DEF Pushed
<1> HIDE DEF f
<1>4. /\ stack' \in Seq(Frames) /\ Len(stack') = m
      /\ stack'[m] = f /\ \A k \in 1..n : stack'[k] = stack[k]
  BY <1>1, <1>2, <1>3, AppendProperties
<1>5. m - 1 = n /\ 1..m = 1..n \union {m}
  BY <1>1
<1> HIDE DEF m, n
<1>6. ASSUME NEW k \in 1..m
      PROVE  Len(stack'[k].way) = k - 1
  <2>1. CASE k \in 1..n
    BY <1>1, <1>4, <2>1
  <2>2. CASE k = m
    BY <1>1, <1>2, <1>4, <1>5, <2>2
  <2> QED BY <1>5, <2>1, <2>2
<1>7. Placed
  BY <1>1 DEF Placed, n
<1>8. Placed'
  BY <1>1, <1>4, <1>6 DEF Placed, Pushed
<1> QED BY <1>4, <1>7, <1>8 DEF m, n, f

\* Then the message of the call is behind, and everything else as it was.
LEMMA AheadPushed ==
    ASSUME MergingInv, NEW order, Pushed(order), NEW w \in DOMAIN input
    PROVE  Ahead(w)' <=> Ahead(w) /\ w # call.way
<1>0. PICK n, c : n = Len(stack) /\ c = call.way
  OBVIOUS
<1> DEFINE m == n + 1
           New == \E i \in Entries(c) : Through(w, c, i)
<1>1. /\ Placed /\ Placed' /\ Len(stack') = m
      /\ \A k \in 1..n : stack'[k] = stack[k]
      /\ stack'[m] = [way |-> c, at |-> call.at, todo |-> order]
  BY <1>0, PushedStack
<1>2. AheadForm /\ AheadForm'
  <2>1. Placed' => AheadForm'
    BY AheadFrames, PTL
  <2> QED BY <1>1, <2>1, AheadFrames
<1>3. input \in Inputs /\ n \in Nat /\ c \in DOMAIN input /\ LeadTo(c)
  BY <1>0, StackParts DEF Pushed, Asked
<1>4. 1..m = 1..n \union {m}
  BY <1>3
<1>5. input' = input /\ call # None /\ call' = None /\ Range(order) = Entries(c)
  BY <1>0 DEF Pushed
<1> HIDE DEF m
<1>6. Ahead(w) <=> IsPrefix(c, w) \/ \E k \in 1..n : GetsTo(k, w)
  BY <1>0, <1>2, <1>5 DEF AheadForm
<1>7. Ahead(w)' <=> \E k \in 1..m : GetsTo(k, w)'
  BY <1>1, <1>2, <1>5 DEF AheadForm
<1>8. \A k \in 1..n : GetsTo(k, w)' <=> GetsTo(k, w)
  BY <1>1 DEF GetsTo
<1>9. GetsTo(m, w)' <=> New
  <2>1. stack'[m].way = c /\ stack'[m].todo = order
    BY <1>1
  <2>2. GetsTo(m, w)' <=> \E i \in Range(order) : Through(w, c, i)
    BY <2>1 DEF GetsTo
  <2> QED BY <1>5, <2>2
<1>10. IsPrefix(c, w) <=> w = c \/ New
  BY <1>3, PrefixThrough
<1>11. w = c => \A k \in 1..n : ~GetsTo(k, w)
  BY <1>0, <1>1, <1>3, LedTo
<1>12. w = c => ~New
  <2>1. Len(c) \in Nat
    BY <1>3, InputWays, LenProperties DEF Way
  <2> QED BY <2>1 DEF Through
<1>13. Ahead(w)' <=> (\E k \in 1..n : GetsTo(k, w)) \/ New
  <2>1. Ahead(w)' <=> (\E k \in 1..n : GetsTo(k, w)') \/ GetsTo(m, w)'
    BY <1>4, <1>7
  <2> QED BY <1>8, <1>9, <2>1
<1> HIDE DEF New
<1> QED BY <1>0, <1>6, <1>10, <1>11, <1>12, <1>13

\* A list of different elements without its first.
LEMMA InjectiveTail ==
    ASSUME NEW S, NEW s \in Seq(S), s # <<>>, IsInjective(s)
    PROVE  /\ Head(s) = s[1] /\ Head(s) \in S /\ Head(s) \notin Range(Tail(s))
           /\ Tail(s) \in Seq(S) /\ IsInjective(Tail(s))
           /\ DOMAIN Tail(s) = 1..(Len(s) - 1)
           /\ \A i \in 1..(Len(s) - 1) : Tail(s)[i] = s[i + 1]
           /\ Range(s) = {Head(s)} \union Range(Tail(s))
<1> DEFINE t == Tail(s)
           h == Head(s)
           n == Len(s)
           m == n - 1
<1>1. n \in Nat /\ DOMAIN s = 1..n /\ n # 0
  BY LenProperties, EmptySeq
<1>2. h = s[1] /\ h \in S /\ t \in Seq(S) /\ Len(t) = m /\ \A i \in 1..m : t[i] = s[i + 1]
  BY <1>1, HeadTailProperties
<1>3. DOMAIN t = 1..m /\ 1 \in 1..n
  BY <1>1, <1>2, LenProperties
<1>4. \A a, b \in 1..n : s[a] = s[b] => a = b
  BY <1>1 DEF IsInjective
<1> HIDE DEF t, h, n
<1>5. \A i \in 1..m : i + 1 \in 1..n /\ i + 1 # 1
  BY <1>1
<1>6. h \notin Range(t)
  BY <1>2, <1>3, <1>4, <1>5 DEF Range
<1>7. IsInjective(t)
  <2>1. ASSUME NEW a \in 1..m, NEW b \in 1..m, t[a] = t[b]
        PROVE  a = b
    <3>1. s[a + 1] = s[b + 1] /\ a + 1 \in 1..n /\ b + 1 \in 1..n
      BY <1>2, <1>5, <2>1
    <3>2. a + 1 = b + 1
      BY <1>4, <3>1
    <3> QED BY <3>2
  <2> QED BY <1>3, <2>1 DEF IsInjective
<1>8. \A a \in 1..n : a = 1 \/ (a - 1 \in 1..m /\ a - 1 + 1 = a)
  BY <1>1
<1>9. Range(s) = {h} \union Range(t)
  <2>1. \A a \in 1..n : s[a] = h \/ \E i \in 1..m : t[i] = s[a]
    BY <1>2, <1>8
  <2>2. \A i \in 1..m : \E a \in 1..n : s[a] = t[i]
    BY <1>2, <1>5
  <2>3. \E a \in 1..n : s[a] = h
    BY <1>2, <1>3
  <2>4. Range(s) = {s[a] : a \in 1..n} /\ Range(t) = {t[i] : i \in 1..m}
    BY <1>1, <1>3 DEF Range
  <2>5. \A x \in Range(s) : x = h \/ x \in Range(t)
    BY <2>1, <2>4
  <2>6. h \in Range(s) /\ \A x \in Range(t) : x \in Range(s)
    BY <2>2, <2>3, <2>4
  <2> QED BY <2>5, <2>6
<1> QED BY <1>1, <1>2, <1>3, <1>6, <1>7, <1>9 DEF t, h, n

\* The loop of the innermost frame, at u, leaves entry h behind.
Taken(u, h) == /\ stack # <<>> /\ Last(stack).todo # <<>>
               /\ u = Last(stack).way /\ h = Head(Last(stack).todo)
               /\ Advance /\ input' = input

\* The stack after that.
LEMMA TakenStack ==
    ASSUME MergingInv, NEW u, NEW h, Taken(u, h), NEW n, n = Len(stack)
    PROVE  /\ Placed /\ Placed' /\ n \in Nat /\ n # 0 /\ Len(stack') = n
           /\ \A k \in 1..n : k # n => stack'[k] = stack[k]
           /\ stack[n].way = u /\ u \in Asked /\ Len(u) = n - 1 /\ Last(stack) = stack[n]
           /\ stack'[n] = [stack[n] EXCEPT !.todo = Tail(@)]
           /\ stack[n] \in Frames /\ stack'[n] \in Frames
           /\ h \in Entries(u) /\ h = stack[n].todo[1] /\ h = Head(stack[n].todo)
           /\ stack[n].todo # <<>>
<1>1. /\ stack \in Seq(Frames) /\ input \in Inputs /\ stack # <<>>
      /\ n \in Nat /\ \A k \in 1..n : Len(stack[k].way) = k - 1
  BY StackParts DEF MergingInv, TypeOK, Taken
<1>2. n # 0 /\ n \in 1..n
  BY <1>1, EmptySeq
<1>3. /\ Last(stack) = stack[n] /\ stack[n].way = u /\ stack[n].todo # <<>>
      /\ h = Head(stack[n].todo) /\ stack' = [stack EXCEPT ![n].todo = Tail(@)]
  BY DEF Taken, Advance, Last
<1>4. stack[n] \in Frames /\ u \in Asked /\ Len(u) = n - 1 /\ LoopInv(n)
  BY <1>1, <1>2, <1>3, StackParts
<1>5. stack[n].todo \in Seq(Entries(u)) /\ IsInjective(stack[n].todo)
  BY <1>3, <1>4 DEF LoopInv
<1>6. h \in Entries(u) /\ h = stack[n].todo[1]
  BY <1>3, <1>5, InjectiveTail
<1> DEFINE f == [stack[n] EXCEPT !.todo = Tail(@)]
<1>7. f \in Frames /\ f.way = u
  <2>1. stack[n].todo \in Seq(Nat)
    BY <1>4 DEF Frames
  <2>2. Tail(stack[n].todo) \in Seq(Nat)
    BY <1>3, <2>1, HeadTailProperties
  <2> QED BY <1>3, <1>4, <2>2 DEF Frames
<1>8. stack' = [stack EXCEPT ![n] = f]
  BY <1>3
<1> HIDE DEF f
<1>9. /\ stack' \in Seq(Frames) /\ Len(stack') = n
      /\ \A k \in 1..n : stack'[k] = IF k = n THEN f ELSE stack[k]
  BY <1>1, <1>2, <1>7, <1>8, ExceptSeq
<1>10. ASSUME NEW k \in 1..n
       PROVE  Len(stack'[k].way) = k - 1
  BY <1>1, <1>4, <1>7, <1>9
<1>11. Placed /\ Placed'
  BY <1>1, <1>9, <1>10 DEF Placed, Taken
<1> QED BY <1>1, <1>2, <1>3, <1>4, <1>6, <1>7, <1>9, <1>11 DEF f

\* What goes through that entry is no more ahead of the loops, and everything else is as
\* it was.
LEMMA AheadTaken ==
    ASSUME MergingInv, NEW u, NEW h, Taken(u, h), call = None, NEW w \in DOMAIN input
    PROVE  /\ AheadForm'
           /\ Ahead(w) <=> (\E k \in 1..Len(stack') : GetsTo(k, w)') \/ Through(w, u, h)
<1>0. PICK n : n = Len(stack)
  OBVIOUS
<1>1. /\ Placed /\ Placed' /\ n \in Nat /\ n # 0 /\ Len(stack') = n
      /\ \A k \in 1..n : k # n => stack'[k] = stack[k]
      /\ stack[n].way = u /\ stack[n].todo # <<>> /\ h = Head(stack[n].todo)
      /\ stack'[n] = [stack[n] EXCEPT !.todo = Tail(@)] /\ stack[n] \in Frames
  BY <1>0, TakenStack
<1>2. AheadForm /\ AheadForm'
  <2>1. Placed' => AheadForm'
    BY AheadFrames, PTL
  <2> QED BY <1>1, <2>1, AheadFrames
<1>3. stack'[n].way = u /\ stack'[n].todo = Tail(stack[n].todo)
  BY <1>1 DEF Frames
<1>4. Range(stack[n].todo) = {h} \union Range(Tail(stack[n].todo))
  <2>1. n \in 1..Len(stack)
    BY <1>0, <1>1
  <2>2. LoopInv(n)
    BY <2>1, StackParts
  <2>3. stack[n].todo \in Seq(Entries(u)) /\ IsInjective(stack[n].todo)
    BY <1>1, <2>2 DEF LoopInv
  <2> QED BY <1>1, <2>3, InjectiveTail
<1>5. GetsTo(n, w) <=> GetsTo(n, w)' \/ Through(w, u, h)
  <2>1. GetsTo(n, w) <=> \E i \in {h} \union Range(Tail(stack[n].todo)) : Through(w, u, i)
    BY <1>1, <1>4 DEF GetsTo
  <2>2. GetsTo(n, w)' <=> \E i \in Range(Tail(stack[n].todo)) : Through(w, u, i)
    BY <1>3 DEF GetsTo
  <2> QED BY <2>1, <2>2
<1>6. \A k \in 1..n : k # n => (GetsTo(k, w)' <=> GetsTo(k, w))
  BY <1>1 DEF GetsTo
<1>7. n \in 1..n
  BY <1>1
<1>8. Ahead(w) <=> \E k \in 1..n : GetsTo(k, w)
  BY <1>0, <1>2 DEF AheadForm
<1> QED BY <1>1, <1>2, <1>5, <1>6, <1>7, <1>8

\* A way that an entry is in goes through it.
LEMMA EntryThrough ==
    ASSUME NEW u \in Way, NEW w \in Way, NEW i \in Nat
    PROVE  IsPrefix(Append(u, i), w) <=> Through(w, u, i)
<1> DEFINE n == Len(u)
           m == n + 1
           l == Len(w)
           v == Append(u, i)
<1>1. n \in Nat /\ l \in Nat /\ m = n + 1 /\ m \in Nat /\ m - 1 = n
  BY LenProperties DEF Way
<1>2. v \in Seq(Nat) /\ Len(v) = m
  BY AppendProperties DEF Way
<1>3. SubSeq(v, 1, m) = v
  BY PrefixOfAppend DEF Way
<1>4. IsPrefix(v, w) <=> m <= l /\ v = SubSeq(w, 1, m)
  BY <1>2, <1>3 DEF IsPrefix
<1>5. Through(w, u, i) <=> l > n /\ SubSeq(w, 1, n) = u /\ w[m] = i
  BY DEF Through
<1>6. l > n <=> m <= l
  BY <1>1
<1>7. ASSUME m <= l
      PROVE  v = SubSeq(w, 1, m) <=> SubSeq(w, 1, n) = u /\ w[m] = i
  <2>1. m \in 1..l /\ n \in 0..l
    BY <1>1, <1>7
  <2>2. SubSeq(w, 1, m) = Append(SubSeq(w, 1, n), w[m])
    <3> HIDE DEF m, n
    <3>1. SubSeq(w, 1, m) = Append(SubSeq(w, 1, m - 1), w[m])
      BY <2>1, PrefixLast DEF Way
    <3> QED BY <1>1, <3>1
  <2>3. w[m] \in Nat /\ SubSeq(w, 1, n) \in Seq(Nat)
    <3> HIDE DEF m, n
    <3> QED BY <2>1, ElementOfSeq, PrefixElements DEF Way
  <2> HIDE DEF m, n
  <2>4. Append(SubSeq(w, 1, n), w[m]) = Append(u, i) <=> SubSeq(w, 1, n) = u /\ w[m] = i
    <3>1. u \in Seq(Nat)
      BY DEF Way
    <3>2. \A s \in Seq(Nat), e \in Nat : Append(s, e) = Append(u, i) <=> s = u /\ e = i
      BY <3>1, AppendInjective
    <3> QED BY <2>3, <3>2
  <2> QED BY <2>2, <2>4
<1> HIDE DEF m, n, l, v
<1> QED BY <1>4, <1>5, <1>6, <1>7 DEF v

------------------------------------------------------------------------------
(* The stack *)

FramesInv == \A k \in 1..Len(stack) : /\ LoopInv(k)
                                      /\ Len(stack[k].way) = k - 1
                                      /\ LeadTo(stack[k].way)

\* What the ChunkedMessage asks for does not change.
LEMMA SameInput ==
    ASSUME input' = input
    PROVE  /\ Asked' = Asked
           /\ \A w : /\ Place(w)' = Place(w) /\ Entries(w)' = Entries(w)
                     /\ HasChunk(w)' = HasChunk(w)
                     /\ \A i : Entry(w, i)' = Entry(w, i)
           /\ \A p, c : Placements(p, c)' = Placements(p, c)
<1>1. Asked' = Asked
  BY DEF Asked
<1>2. \A w : Place(w)' = Place(w)
  BY DEF Place
<1>3. \A w : Entries(w)' = Entries(w) /\ HasChunk(w)' = HasChunk(w)
             /\ \A i : Entry(w, i)' = Entry(w, i)
  BY DEF Entries, Entry, HasChunk
<1>4. \A p, c : Placements(p, c)' = Placements(p, c)
  BY <1>1, <1>2 DEF Placements
<1> QED BY <1>1, <1>2, <1>3, <1>4

\* A loop that has not moved.
LEMMA KeptLoop ==
    ASSUME NEW k, LoopInv(k), input' = input, op' = op, stack'[k] = stack[k]
    PROVE  LoopInv(k)'
<1>1. PICK f : f = stack[k]
  OBVIOUS
<1>2. Asked' = Asked /\ \A w : /\ Place(w)' = Place(w) /\ Entries(w)' = Entries(w)
                               /\ \A i : Entry(w, i)' = Entry(w, i)
  BY SameInput
<1> QED BY <1>1, <1>2 DEF LoopInv, Gone

\* The way to w is kept if the frames on it are, whatever else their loops leave behind.
LEMMA KeptLead ==
    ASSUME NEW w, LeadTo(w),
           \A k \in DOMAIN w : /\ k \in DOMAIN stack'
                               /\ stack'[k].way = stack[k].way
                               /\ Range(stack'[k].todo) \subseteq Range(stack[k].todo)
    PROVE  LeadTo(w)'
BY DEF LeadTo

\* An order in which the loop may take the entries of w.
Permitted(w, order) ==
    /\ order \in Seq(Entries(w)) /\ IsInjective(order) /\ Range(order) = Entries(w)
    /\ \A m, n \in DOMAIN order :
          m < n => IF op = "MERGE" THEN order[m] < order[n]
                   ELSE ~Less(Entry(w, order[n]), Entry(w, order[m]))

\* A call that starts has its frame.
LEMMA FramesPushed ==
    ASSUME MergingInv, NEW order, Pushed(order), Permitted(call.way, order), op' = op
    PROVE  FramesInv'
<1>0. PICK n, c : n = Len(stack) /\ c = call.way
  OBVIOUS
<1> DEFINE m == n + 1
<1>1. /\ Len(stack') = m
      /\ \A k \in 1..n : stack'[k] = stack[k]
      /\ stack'[m] = [way |-> c, at |-> call.at, todo |-> order]
      /\ Placed'
  BY <1>0, PushedStack
<1>2. /\ n \in Nat /\ DOMAIN stack = 1..n
      /\ \A k \in 1..n : LoopInv(k) /\ Len(stack[k].way) = k - 1 /\ LeadTo(stack[k].way)
                         /\ stack[k].way \in Asked
      /\ c \in Asked /\ call.at = Place(c) /\ Len(c) = n /\ LeadTo(c)
  BY <1>0, StackParts DEF Pushed
<1>3. input' = input /\ input \in Inputs
  BY StackParts DEF Pushed
<1>4. 1..m = 1..n \union {m} /\ m - 1 = n /\ m \in 1..m
  BY <1>2
<1>5. DOMAIN stack' = 1..m
  BY <1>1, LenProperties DEF Placed
<1>6. Asked' = Asked /\ \A w : /\ Place(w)' = Place(w) /\ Entries(w)' = Entries(w)
                               /\ \A i : Entry(w, i)' = Entry(w, i)
  BY <1>3, SameInput
<1> HIDE DEF m
<1>7. LoopInv(m)'
  <2>1. stack'[m].way = c /\ stack'[m].at = Place(c) /\ stack'[m].todo = order
    BY <1>1, <1>2
  <2>2. Permitted(c, order)
    BY <1>0
  <2>3. Gone(m)' = {}
    BY <1>6, <2>1, <2>2 DEF Gone, Permitted
  <2> QED BY <1>2, <1>6, <2>1, <2>2, <2>3 DEF LoopInv, Permitted
<1>8. ASSUME NEW w \in Asked, LeadTo(w), Len(w) <= n
      PROVE  LeadTo(w)'
  <2>1. w \in Seq(Nat) /\ Len(w) \in Nat /\ DOMAIN w = 1..Len(w)
    BY <1>3, InputWays, LenProperties DEF Asked, Way
  <2>2. \A k \in DOMAIN w : k \in 1..n
    BY <1>2, <1>8, <2>1
  <2> QED BY <1>1, <1>4, <1>5, <1>8, <2>2, KeptLead
<1>9. ASSUME NEW k \in 1..m
      PROVE  LoopInv(k)' /\ Len(stack'[k].way) = k - 1 /\ LeadTo(stack[k].way)'
  <2>1. CASE k \in 1..n
    <3>1. PICK w : w = stack[k].way
      OBVIOUS
    <3>2. w \in Asked /\ LeadTo(w) /\ Len(w) <= n /\ LoopInv(k) /\ Len(w) = k - 1
      BY <1>2, <2>1, <3>1
    <3>3. stack'[k] = stack[k] /\ stack'[k].way = w
      BY <1>1, <2>1, <3>1
    <3>4. LeadTo(w)'
      BY <1>8, <3>2
    <3>5. LoopInv(k)'
      BY <1>3, <3>2, <3>3, KeptLoop
    <3> QED BY <3>2, <3>3, <3>4, <3>5
  <2>2. CASE k = m
    <3>1. stack'[m].way = c
      BY <1>1
    <3>2. LeadTo(c)'
      BY <1>2, <1>8
    <3> QED BY <1>2, <1>4, <1>7, <2>2, <3>1, <3>2
  <2> QED BY <1>4, <2>1, <2>2
<1> QED BY <1>1, <1>9 DEF FramesInv

\* The innermost loop goes on.
LEMMA FramesTaken ==
    ASSUME MergingInv, NEW u, NEW h, Taken(u, h), op' = op
    PROVE  /\ FramesInv'
           /\ \A k \in DOMAIN stack : /\ k \in DOMAIN stack'
                                      /\ stack'[k].way = stack[k].way
                                      /\ stack'[k].at = stack[k].at
                                      /\ Range(stack'[k].todo) \subseteq Range(stack[k].todo)
           /\ h \notin Range(stack'[Len(stack)].todo)
<1>0. PICK n : n = Len(stack)
  OBVIOUS
<1>1. /\ Placed /\ Placed' /\ n \in Nat /\ n # 0 /\ Len(stack') = n
      /\ \A k \in 1..n : k # n => stack'[k] = stack[k]
      /\ stack[n].way = u /\ u \in Asked /\ stack[n].todo # <<>>
      /\ stack'[n] = [stack[n] EXCEPT !.todo = Tail(@)] /\ stack[n] \in Frames
      /\ h = Head(stack[n].todo)
  BY <1>0, TakenStack
<1>2. /\ DOMAIN stack = 1..n
      /\ \A k \in 1..n : LoopInv(k) /\ Len(stack[k].way) = k - 1 /\ LeadTo(stack[k].way)
  BY <1>0, StackParts
<1>3. DOMAIN stack' = 1..n
  BY <1>1, LenProperties DEF Placed
<1>4. input' = input
  BY DEF Taken
<1>5. Asked' = Asked /\ \A w : /\ Place(w)' = Place(w) /\ Entries(w)' = Entries(w)
                               /\ \A i : Entry(w, i)' = Entry(w, i)
  BY <1>4, SameInput
<1>6. PICK s : s = stack[n].todo
  OBVIOUS
<1> DEFINE t == Tail(s)
           m == Len(s) - 1
<1>7. /\ s \in Seq(Entries(u)) /\ IsInjective(s) /\ s # <<>>
      /\ stack[n].at = Place(u)
      /\ \A a, b \in DOMAIN s :
            a < b => IF op = "MERGE" THEN s[a] < s[b]
                     ELSE ~Less(Entry(u, s[b]), Entry(u, s[a]))
      /\ \A i \in Entries(u) \ Range(s), a \in DOMAIN s :
            IF op = "MERGE" THEN i < s[a] ELSE ~Less(Entry(u, s[a]), Entry(u, i))
  <2>1. LoopInv(n)
    BY <1>1, <1>2
  <2> QED BY <1>1, <1>6, <2>1 DEF LoopInv, Gone
<1>8. Len(s) \in Nat /\ DOMAIN s = 1..Len(s) /\ Len(s) # 0
  BY <1>7, LenProperties, EmptySeq
<1>9. /\ h = s[1] /\ h \in Entries(u) /\ h \notin Range(t)
      /\ t \in Seq(Entries(u)) /\ IsInjective(t) /\ DOMAIN t = 1..m
      /\ \A i \in 1..m : t[i] = s[i + 1]
      /\ Range(s) = {h} \union Range(t)
  BY <1>1, <1>6, <1>7, InjectiveTail
<1> HIDE DEF t
<1>10. stack'[n].way = u /\ stack'[n].at = Place(u) /\ stack'[n].todo = t
  <2>1. stack'[n] = [stack[n] EXCEPT !.todo = t]
    BY <1>1, <1>6 DEF t
  <2> QED BY <1>1, <1>7, <2>1 DEF Frames
<1>11. LoopInv(n)'
  <2>1. \A a \in 1..m : a + 1 \in DOMAIN s /\ 1 \in DOMAIN s /\ 1 < a + 1
    BY <1>8
  <2>2. ASSUME NEW a \in 1..m, NEW b \in 1..m, a < b
        PROVE  IF op = "MERGE" THEN t[a] < t[b]
               ELSE ~Less(Entry(u, t[b]), Entry(u, t[a]))
    <3> DEFINE x == a + 1
               y == b + 1
    <3>1. x \in DOMAIN s /\ y \in DOMAIN s /\ x < y
      BY <2>1, <2>2
    <3>2. t[a] = s[x] /\ t[b] = s[y]
      BY <1>9
    <3> HIDE DEF x, y
    <3> QED BY <1>7, <3>1, <3>2
  <2>3. ASSUME NEW i \in Entries(u) \ Range(t), NEW a \in 1..m
        PROVE  IF op = "MERGE" THEN i < t[a] ELSE ~Less(Entry(u, t[a]), Entry(u, i))
    <3> DEFINE x == a + 1
    <3>1. x \in DOMAIN s /\ 1 \in DOMAIN s /\ 1 < x /\ t[a] = s[x]
      BY <1>9, <2>1
    <3> HIDE DEF x
    <3>2. CASE i = h
      BY <1>7, <1>9, <3>1, <3>2
    <3>3. CASE i # h
      <4>1. i \in Entries(u) \ Range(s)
        BY <1>9, <3>3
      <4> QED BY <1>7, <3>1, <4>1
    <3> QED BY <3>2, <3>3
  <2>4. Gone(n)' = Entries(u) \ Range(t)
    BY <1>5, <1>10 DEF Gone
  <2> HIDE DEF m
  <2> QED BY <1>1, <1>5, <1>9, <1>10, <2>2, <2>3, <2>4 DEF LoopInv
<1>12. \A k \in 1..n : /\ stack'[k].way = stack[k].way /\ stack'[k].at = stack[k].at
                       /\ Range(stack'[k].todo) \subseteq Range(stack[k].todo)
  BY <1>1, <1>6, <1>7, <1>9, <1>10
<1>13. ASSUME NEW k \in 1..n
       PROVE  LoopInv(k)' /\ Len(stack'[k].way) = k - 1 /\ LeadTo(stack[k].way)'
  <2>1. PICK w : w = stack[k].way
    OBVIOUS
  <2>2. w \in Asked /\ LeadTo(w) /\ LoopInv(k) /\ Len(w) = k - 1 /\ stack'[k].way = w
    BY <1>2, <1>12, <2>1 DEF LoopInv
  <2>3. LeadTo(w)'
    <3>1. DOMAIN w = 1..Len(w)
      BY <2>2, InputWays, LenProperties DEF Asked, Way, Placed, MergingInv
    <3>2. \A j \in DOMAIN w : j \in 1..n
      BY <1>1, <2>2, <3>1
    <3> QED BY <1>3, <1>12, <2>2, <3>2, KeptLead
  <2>4. LoopInv(k)'
    <3>1. CASE k = n
      BY <1>11, <3>1
    <3>2. CASE k # n
      BY <1>1, <1>4, <2>2, <3>2, KeptLoop
    <3> QED BY <3>1, <3>2
  <2> QED BY <2>2, <2>3, <2>4
<1>14. FramesInv'
  BY <1>1, <1>13 DEF FramesInv
<1> QED BY <1>0, <1>2, <1>3, <1>9, <1>10, <1>12, <1>14

\* The innermost loop is over.
Popped == /\ stack # <<>> /\ Last(stack).todo = <<>>
          /\ stack' = Front(stack) /\ input' = input /\ call = None /\ call' = None

\* The stack after that.
LEMMA FramesPopped ==
    ASSUME MergingInv, Popped, op' = op
    PROVE  /\ FramesInv' /\ Placed' /\ Len(stack') = Len(stack) - 1
           /\ \A k \in 1..(Len(stack) - 1) : stack'[k] = stack[k]
           /\ \A w \in DOMAIN input : Ahead(w)' <=> Ahead(w)
<1>0. PICK n : n = Len(stack)
  OBVIOUS
<1> DEFINE m == n - 1
<1>1. /\ stack \in Seq(Frames) /\ input \in Inputs /\ stack # <<>>
      /\ n \in Nat /\ DOMAIN stack = 1..n
      /\ \A k \in 1..n : LoopInv(k) /\ Len(stack[k].way) = k - 1 /\ LeadTo(stack[k].way)
  BY <1>0, StackParts DEF MergingInv, TypeOK, Popped
<1>2. n # 0 /\ m \in Nat /\ m \in 0..n /\ 1..n = 1..m \union {n} /\ 1..m \subseteq 1..n
  BY <1>0, <1>1, EmptySeq
<1>3. /\ stack' \in Seq(Frames) /\ Len(stack') = m
      /\ \A k \in 1..m : stack'[k] = stack[k]
  <2>1. stack' = SubSeq(stack, 1, m)
    BY <1>0 DEF Popped, Front
  <2> HIDE DEF m
  <2>2. m \in 0..Len(stack)
    BY <1>0, <1>2
  <2> QED BY <1>1, <2>1, <2>2, PrefixElements
<1>4. DOMAIN stack' = 1..m
  BY <1>3, LenProperties
<1> HIDE DEF m
<1>5. ASSUME NEW k \in 1..m
      PROVE  LoopInv(k)' /\ Len(stack'[k].way) = k - 1 /\ LeadTo(stack[k].way)'
  <2>1. PICK w : w = stack[k].way
    OBVIOUS
  <2>2. k \in 1..n
    BY <1>2
  <2>3. w \in Asked /\ LeadTo(w) /\ LoopInv(k) /\ Len(w) = k - 1
    BY <1>1, <2>1, <2>2 DEF LoopInv
  <2>4. stack'[k] = stack[k] /\ stack'[k].way = w
    BY <1>3, <2>1
  <2>5. LeadTo(w)'
    <3>1. DOMAIN w = 1..Len(w)
      BY <2>3, <1>1, InputWays, LenProperties DEF Asked, Way
    <3>2. \A j \in DOMAIN w : j \in 1..m
      BY <1>2, <2>3, <3>1
    <3> QED BY <1>3, <1>4, <2>3, <3>2, KeptLead
  <2>6. LoopInv(k)'
    BY <2>3, <2>4, KeptLoop DEF Popped
  <2> QED BY <2>3, <2>4, <2>5, <2>6
<1>6. FramesInv'
  BY <1>3, <1>5 DEF FramesInv
<1>7. Placed /\ Placed'
  BY <1>0, <1>1, <1>3, <1>5 DEF Placed, Popped
<1>8. ASSUME NEW w \in DOMAIN input
      PROVE  Ahead(w)' <=> Ahead(w)
  <2>1. AheadForm /\ AheadForm'
    <3>1. Placed' => AheadForm'
      BY AheadFrames, PTL
    <3> QED BY <1>7, <3>1, AheadFrames
  <2>2. call = None /\ call' = None /\ input' = input
    BY DEF Popped
  <2>3. Ahead(w) <=> \E k \in 1..n : GetsTo(k, w)
    BY <1>0, <2>1, <2>2 DEF AheadForm
  <2>4. Ahead(w)' <=> \E k \in 1..m : GetsTo(k, w)'
    BY <1>3, <2>1, <2>2 DEF AheadForm
  <2>5. \A k \in 1..m : GetsTo(k, w)' <=> GetsTo(k, w)
    BY <1>3 DEF GetsTo
  <2>6. ~GetsTo(n, w)
    <3>1. stack[n].todo = <<>>
      BY <1>0 DEF Popped, Last
    <3>2. Range(<<>>) = {}
      BY DEF Range
    <3> QED BY <3>1, <3>2 DEF GetsTo
  <2> QED BY <1>2, <2>3, <2>4, <2>5, <2>6
<1> QED BY <1>0, <1>3, <1>6, <1>7, <1>8 DEF m

------------------------------------------------------------------------------
(* What is merged *)

\* Nothing is merged where a node is only added.
LEMMA MergedGrown ==
    ASSUME Grown(nodes, nodes')
    PROVE  /\ \A p, c : Merged(p, c)' = Merged(p, c)
           /\ \A p, c, d : MergedBefore(p, c, d) => MergedBefore(p, c, d)'
<1>1. \A p \in DOMAIN nodes : p \in DOMAIN nodes' /\ nodes'[p] = nodes[p]
  BY DEF Grown
<1>2. \A p \in DOMAIN nodes' : p \notin DOMAIN nodes => DOMAIN nodes'[p] = {}
  BY DEF Grown
<1>3. \A p, c : Merged(p, c)' = Merged(p, c)
  BY <1>1, <1>2 DEF Merged
<1>4. \A p, c, d : MergedBefore(p, c, d) => MergedBefore(p, c, d)'
  BY <1>1 DEF MergedBefore
<1> QED BY <1>3, <1>4

\* What is merged at one node.
MergedThere(at, i) == /\ at \in DOMAIN nodes
                      /\ DOMAIN nodes \subseteq DOMAIN nodes'
                      /\ nodes'[at] = Append(nodes[at], i)
                      /\ \A p \in DOMAIN nodes : p # at => nodes'[p] = nodes[p]
                      /\ \A p \in DOMAIN nodes' : p \notin DOMAIN nodes => nodes'[p] = <<>>

\* Merging chunk i into the node `at` adds one i there and nothing elsewhere, and what was
\* there comes before it.
LEMMA MergedAppended ==
    ASSUME TypeOK, NEW at, NEW i \in Chunk, MergedThere(at, i)
    PROVE  /\ \A p, c : p # at \/ c # i => Merged(p, c)' = Merged(p, c)
           /\ \E k : k \notin Merged(at, i) /\ Merged(at, i)' = Merged(at, i) \union {k}
           /\ \A p, c, d : MergedBefore(p, c, d) => MergedBefore(p, c, d)'
           /\ \A c : Merged(at, c) # {} => MergedBefore(at, c, i)'
<1>1. PICK s, t : s = nodes[at] /\ t = nodes'[at]
  OBVIOUS
<1> DEFINE n == Len(s)
           m == n + 1
<1>2. s \in Seq(Chunk) /\ n \in Nat /\ DOMAIN s = 1..n
  BY <1>1, LenProperties DEF TypeOK, MergedThere
<1>3. /\ t \in Seq(Chunk) /\ Len(t) = m /\ t[m] = i
      /\ \A k \in 1..n : t[k] = s[k]
  BY <1>1, <1>2, AppendProperties DEF MergedThere
<1>4. DOMAIN t = 1..m /\ 1..m = 1..n \union {m} /\ m \notin 1..n
      /\ \A k \in 1..n : k < m
  BY <1>2, <1>3, LenProperties
<1> HIDE DEF n, m
<1>5. at \in DOMAIN nodes /\ at \in DOMAIN nodes'
  BY DEF MergedThere
<1>6. ASSUME NEW p, NEW c, p # at \/ c # i
      PROVE  Merged(p, c)' = Merged(p, c)
  <2>1. CASE p = at
    <3>1. Merged(p, c) = {k \in 1..n : s[k] = c}
      BY <1>1, <1>2, <1>5, <2>1 DEF Merged
    <3>2. Merged(p, c)' = {k \in 1..m : t[k] = c}
      BY <1>1, <1>4, <1>5, <2>1 DEF Merged
    <3> QED BY <1>3, <1>4, <1>6, <2>1, <3>1, <3>2
  <2>2. CASE p # at /\ p \in DOMAIN nodes
    BY <2>2 DEF Merged, MergedThere
  <2>3. CASE p \notin DOMAIN nodes /\ p \in DOMAIN nodes'
    <3>1. nodes'[p] = <<>> /\ DOMAIN <<>> = {}
      BY <2>3 DEF MergedThere
    <3> QED BY <2>3, <3>1 DEF Merged
  <2>4. CASE p \notin DOMAIN nodes /\ p \notin DOMAIN nodes'
    BY <2>4 DEF Merged
  <2> QED BY <2>1, <2>2, <2>3, <2>4
<1>7. m \notin Merged(at, i) /\ Merged(at, i)' = Merged(at, i) \union {m}
  <2>1. Merged(at, i) = {k \in 1..n : s[k] = i}
    BY <1>1, <1>2, <1>5 DEF Merged
  <2>2. Merged(at, i)' = {k \in 1..m : t[k] = i}
    BY <1>1, <1>4, <1>5 DEF Merged
  <2> QED BY <1>3, <1>4, <2>1, <2>2
<1>8. ASSUME NEW p, NEW c, NEW d, MergedBefore(p, c, d)
      PROVE  MergedBefore(p, c, d)'
  <2>1. PICK a \in DOMAIN nodes[p], b \in DOMAIN nodes[p] :
            p \in DOMAIN nodes /\ a < b /\ nodes[p][a] = c /\ nodes[p][b] = d
    BY <1>8 DEF MergedBefore
  <2>2. p \in DOMAIN nodes'
    BY <2>1 DEF MergedThere
  <2>3. CASE p = at
    <3>1. a \in 1..n /\ b \in 1..n /\ s[a] = c /\ s[b] = d
      BY <1>1, <1>2, <2>1, <2>3
    <3>2. a \in 1..m /\ b \in 1..m /\ t[a] = c /\ t[b] = d
      BY <1>3, <1>4, <3>1
    <3> QED BY <1>1, <1>4, <2>1, <2>2, <2>3, <3>2 DEF MergedBefore
  <2>4. CASE p # at
    <3>1. nodes'[p] = nodes[p]
      BY <2>1, <2>4 DEF MergedThere
    <3> QED BY <2>1, <2>2, <3>1 DEF MergedBefore
  <2> QED BY <2>3, <2>4
<1>9. ASSUME NEW c, Merged(at, c) # {}
      PROVE  MergedBefore(at, c, i)'
  <2>1. PICK a \in 1..n : s[a] = c
    BY <1>1, <1>2, <1>5, <1>9 DEF Merged
  <2>2. a \in 1..m /\ m \in 1..m /\ a < m /\ t[a] = c /\ t[m] = i
    BY <1>3, <1>4, <2>1
  <2> QED BY <1>1, <1>4, <1>5, <2>2 DEF MergedBefore
<1> QED BY <1>6, <1>7, <1>8, <1>9

Pending(p, c) == {w \in Placements(p, c) : Ahead(w)}

\* Nodes that are not there, and places where nothing belongs, have no chunks.
LEMMA CountEverywhere ==
    ASSUME MergingInv, NEW p, NEW c \in Chunk
    PROVE  /\ IsFiniteSet(Merged(p, c)) /\ IsFiniteSet(Pending(p, c))
           /\ Cardinality(Merged(p, c)) \in Nat /\ Cardinality(Pending(p, c)) \in Nat
           /\ Cardinality(Merged(p, c)) + Cardinality(Pending(p, c)) = Cardinality(Placements(p, c))
<1>1. IsFiniteSet(Placements(p, c)) /\ IsFiniteSet(Pending(p, c))
  <2>1. IsFiniteSet(DOMAIN input)
    BY InputWays DEF MergingInv
  <2>2. Placements(p, c) \in SUBSET DOMAIN input /\ Pending(p, c) \in SUBSET DOMAIN input
    BY DEF Placements, Asked, Pending
  <2> QED BY <2>1, <2>2, FS_Subset
<1>2. IsFiniteSet(Merged(p, c))
  <2>1. CASE p \in DOMAIN nodes
    <3>1. nodes[p] \in Seq(Chunk)
      BY <2>1 DEF MergingInv, TypeOK
    <3>2. Len(nodes[p]) \in Nat /\ DOMAIN nodes[p] = 1..Len(nodes[p])
      BY <3>1, LenProperties
    <3>3. IsFiniteSet(DOMAIN nodes[p])
      BY <3>2, FS_Interval
    <3>4. Merged(p, c) \in SUBSET DOMAIN nodes[p]
      BY <2>1 DEF Merged
    <3> QED BY <3>3, <3>4, FS_Subset
  <2>2. CASE p \notin DOMAIN nodes
    BY <2>2, FS_EmptySet DEF Merged
  <2> QED BY <2>1, <2>2
<1>3. Cardinality(Merged(p, c)) \in Nat /\ Cardinality(Pending(p, c)) \in Nat
  BY <1>1, <1>2, FS_CardinalityType
<1>4. CASE p \in DOMAIN nodes \union {Place(w) : w \in Asked}
  BY <1>1, <1>2, <1>3, <1>4 DEF MergingInv, CountInv, Pending
<1>5. CASE p \notin DOMAIN nodes \union {Place(w) : w \in Asked}
  <2>1. Merged(p, c) = {}
    BY <1>5 DEF Merged
  <2>2. Placements(p, c) = {}
    BY <1>5 DEF Placements
  <2>3. Pending(p, c) = {}
    BY <2>2 DEF Pending
  <2>4. Cardinality({}) = 0
    BY FS_EmptySet
  <2> QED BY <1>1, <1>2, <2>1, <2>2, <2>3, <2>4
<1> QED BY <1>1, <1>2, <1>3, <1>4, <1>5

\* A step that merges nothing and leaves nothing behind.
LEMMA CountKept ==
    ASSUME MergingInv, input' = input, Grown(nodes, nodes'),
           \A w \in Asked : Ahead(w)' <=> Ahead(w)
    PROVE  CountInv'
<1>1. Asked' = Asked /\ \A p, c : Placements(p, c)' = Placements(p, c)
  BY SameInput
<1>2. ASSUME NEW p, NEW c \in Chunk
      PROVE  Cardinality(Merged(p, c)') + Cardinality({w \in Placements(p, c) : Ahead(w)}')
                = Cardinality(Placements(p, c)')
  <2>1. Merged(p, c)' = Merged(p, c)
    BY MergedGrown
  <2>2. {w \in Placements(p, c) : Ahead(w)}' = Pending(p, c)
    BY <1>1 DEF Pending, Placements
  <2> QED BY <1>1, <2>1, <2>2, CountEverywhere
<1> QED BY <1>2 DEF CountInv

\* A step that merges the chunk of the message at v, and leaves only v behind.
LEMMA CountMerged ==
    ASSUME MergingInv, input' = input, NEW v \in Asked, Ahead(v), input[v].idx \in Chunk,
           MergedThere(Place(v), input[v].idx),
           \A w \in Asked : Ahead(w)' <=> Ahead(w) /\ w # v
    PROVE  CountInv'
<1>1. Asked' = Asked /\ \A p, c : Placements(p, c)' = Placements(p, c)
  BY SameInput
<1>2. PICK q, i : q = Place(v) /\ i = input[v].idx
  OBVIOUS
<1>3. TypeOK /\ i \in Chunk /\ MergedThere(q, i)
  BY <1>2 DEF MergingInv
<1>4. ASSUME NEW p, NEW c \in Chunk
      PROVE  Cardinality(Merged(p, c)') + Cardinality({w \in Placements(p, c) : Ahead(w)}')
                = Cardinality(Placements(p, c)')
  <2>1. {w \in Placements(p, c) : Ahead(w)}' = Pending(p, c) \ {v}
    BY <1>1 DEF Pending, Placements
  <2>2. CASE p = q /\ c = i
    <3>1. v \in Pending(p, c)
      BY <1>2, <2>2 DEF Pending, Placements
    <3>2. PICK k : k \notin Merged(p, c) /\ Merged(p, c)' = Merged(p, c) \union {k}
      BY <1>3, <2>2, MergedAppended
    <3>3. Cardinality(Pending(p, c) \ {v}) = Cardinality(Pending(p, c)) - 1
      BY <3>1, CountEverywhere, FS_RemoveElement
    <3>4. Cardinality(Merged(p, c)') = Cardinality(Merged(p, c)) + 1
      BY <3>2, CountEverywhere, FS_AddElement
    <3>5. /\ Cardinality(Merged(p, c)) \in Nat /\ Cardinality(Pending(p, c)) \in Nat
          /\ Cardinality(Merged(p, c)) + Cardinality(Pending(p, c)) = Cardinality(Placements(p, c))
      BY CountEverywhere
    <3>6. PICK a, b : a = Cardinality(Merged(p, c)) /\ b = Cardinality(Pending(p, c))
      OBVIOUS
    <3>7. (a + 1) + (b - 1) = a + b
      BY <3>5, <3>6
    <3>8. Cardinality({w \in Placements(p, c) : Ahead(w)}') = b - 1
      BY <2>1, <3>3, <3>6
    <3> QED BY <1>1, <3>4, <3>5, <3>6, <3>7, <3>8
  <2>3. CASE p # q \/ c # i
    <3>1. v \notin Pending(p, c)
      BY <1>2, <2>3 DEF Pending, Placements
    <3>2. Pending(p, c) \ {v} = Pending(p, c)
      BY <3>1
    <3>3. Merged(p, c)' = Merged(p, c)
      BY <1>3, <2>3, MergedAppended
    <3> QED BY <1>1, <2>1, <3>2, <3>3, CountEverywhere
  <2> QED BY <2>2, <2>3
<1> QED BY <1>4 DEF CountInv

\* Of two chunks of one field, the one of the lower index is taken first.
LEMMA SameTagLess ==
    ASSUME NEW a \in ChunkedField, NEW b \in ChunkedField, a.tag = b.tag, NoKeys(a.tag),
           a.idx # None, b.idx # None, a.idx < b.idx
    PROVE  Less(a, b)
<1>1. a.tag \in Tag
  BY FieldParts
<1>2. Len(a.tag) \in Nat /\ DOMAIN a.tag = 1..Len(a.tag)
  BY <1>1, TagElements
<1>3. Agree(a.tag, b.tag)
  BY <1>2 DEF Agree, NoKeys
<1>4. ChunkIndex(a) < ChunkIndex(b)
  BY DEF ChunkIndex
<1> QED BY <1>3, <1>4, AgreeingOrder

\* Both of two entries in order are for one place.
LEMMA OrderedEntries ==
    ASSUME input \in Inputs, NEW w \in Asked, NEW i \in Entries(w), NEW j \in Entries(w),
           ComesBefore(w, i, j)
    PROVE  /\ Append(w, i) \in Asked /\ Append(w, j) \in Asked
           /\ Place(Append(w, i)) = Place(Append(w, j))
           /\ Entry(w, i) \in ChunkedField /\ Entry(w, j) \in ChunkedField
           /\ Entry(w, i) = input[Append(w, i)] /\ Entry(w, j) = input[Append(w, j)]
           /\ Entry(w, i).idx # None /\ Entry(w, j).idx # None
           /\ Entry(w, i).idx \in Chunk /\ Entry(w, j).idx \in Chunk
           /\ i # j
<1>1. Entry(w, i).tag = Entry(w, j).tag /\ OfMessage(Entry(w, i))
  BY DEF ComesBefore, SameField
<1>2. OfMessage(Entry(w, j))
  BY <1>1 DEF OfMessage
<1>3. Append(w, i) \in Asked /\ Append(w, j) \in Asked
  BY <1>1, <1>2, AskedEntry
<1>4. Place(Append(w, i)) = Place(Append(w, j))
  BY <1>1, <1>2, PlaceEntry
<1>5. Entry(w, i) \in ChunkedField /\ Entry(w, j) \in ChunkedField
  BY EntriesAreFields DEF Asked
<1>6. Entry(w, i).idx # None /\ Entry(w, j).idx # None
  BY DEF ComesBefore, SameField, HasChunk, Entry
<1>7. Entry(w, i).idx \in Chunk /\ Entry(w, j).idx \in Chunk
  BY <1>5, <1>6 DEF ChunkedField
<1>8. i # j
  <2>1. Entry(w, i).idx \in Nat
    BY <1>7, MergerAssumption
  <2>2. i \in Nat
    BY DEF Entries
  <2> QED BY <2>1, <2>2 DEF ComesBefore, SameField
<1> QED BY <1>3, <1>4, <1>5, <1>6, <1>7, <1>8 DEF Entry

\* When a message is about to be merged, what comes before it is behind.
LEMMA EarlierIsBehind ==
    ASSUME MergingInv, call # None, NEW w \in Asked, NEW i \in Entries(w), NEW j \in Entries(w),
           ComesBefore(w, i, j), call.way = Append(w, j)
    PROVE  ~Ahead(Append(w, i))
<1>0. PICK n, v, x : n = Len(stack) /\ v = Append(w, j) /\ x = Append(w, i)
  OBVIOUS
<1>1. /\ input \in Inputs /\ w \in Seq(Nat) /\ i \in Nat /\ j \in Nat /\ i # j
      /\ v \in DOMAIN input /\ x \in DOMAIN input /\ w \in DOMAIN input
  <2>1. input \in Inputs
    BY StackParts
  <2>2. w \in DOMAIN input /\ w \in Seq(Nat)
    BY <2>1, InputWays DEF Asked, Way
  <2>3. i \in Nat /\ j \in Nat
    BY DEF Entries
  <2>4. v \in Asked /\ x \in Asked /\ i # j
    BY <1>0, <2>1, OrderedEntries
  <2> QED BY <2>1, <2>2, <2>3, <2>4 DEF Asked
<1>2. /\ n \in Nat /\ Len(v) = n /\ LeadTo(v) /\ DOMAIN stack = 1..n
      /\ \A k \in 1..n : LoopInv(k) /\ Len(stack[k].way) = k - 1
  BY <1>0, StackParts
<1>3. /\ v \in Seq(Nat) /\ x \in Seq(Nat) /\ Len(v) = Len(w) + 1 /\ Len(x) = Len(w) + 1
      /\ v[Len(w) + 1] = j /\ x[Len(w) + 1] = i
      /\ \A k \in 1..Len(w) : v[k] = w[k] /\ x[k] = w[k]
      /\ Len(w) \in Nat
  BY <1>0, <1>1, AppendProperties, LenProperties
<1> DEFINE m == Len(w)
<1>4. n = m + 1 /\ DOMAIN v = 1..n /\ m = n - 1 /\ m \in Nat /\ n \in 1..n
  BY <1>2, <1>3, LenProperties
<1>5. SubSeq(v, 1, m) = w
  BY <1>0, <1>1, PrefixOfAppend
<1>6. v[n] = j /\ x[n] = i /\ \A k \in 1..m : v[k] = x[k]
  BY <1>3, <1>4
<1> HIDE DEF m
<1>7. Placed
  BY <1>0, <1>1, <1>2 DEF Placed, MergingInv, TypeOK
<1>8. Ahead(x) <=> IsPrefix(v, x) \/ \E k \in 1..n : GetsTo(k, x)
  BY <1>0, <1>1, <1>7, AheadFrames DEF AheadForm
<1>9. ~IsPrefix(v, x)
  <2>1. IsPrefix(v, x) <=> Through(x, w, j)
    BY <1>0, <1>1, <1>3, EntryThrough DEF Way
  <2>2. ~Through(x, w, j)
    BY <1>1, <1>3 DEF Through
  <2> QED BY <2>1, <2>2
<1>10. ASSUME NEW k \in 1..n, GetsTo(k, x)
       PROVE  FALSE
  <2>1. PICK e \in Range(stack[k].todo) : Through(x, stack[k].way, e)
    BY <1>10 DEF GetsTo
  <2>2. x[k] = e
    <3>1. Len(stack[k].way) + 1 = k
      BY <1>2
    <3> QED BY <2>1, <3>1 DEF Through
  <2>3. stack[k].way = SubSeq(v, 1, k - 1) /\ v[k] \notin Range(stack[k].todo)
    BY <1>2, <1>4 DEF LeadTo
  <2>4. CASE k # n
    <3>1. k \in 1..m
      BY <1>4, <2>4
    <3> QED BY <1>6, <2>1, <2>2, <2>3, <3>1
  <2>5. CASE k = n
    <3>1. stack[n].way = w
      BY <1>4, <1>5, <2>3, <2>5
    <3>2. PICK s : s = stack[n].todo
      OBVIOUS
    <3>3. i \in Range(s) /\ j \notin Range(s)
      BY <1>6, <2>1, <2>2, <2>3, <2>5, <3>2
    <3>4. j \in Gone(n)
      BY <3>1, <3>2, <3>3 DEF Gone
    <3>5. PICK a \in DOMAIN s : s[a] = i
      BY <3>3 DEF Range
    <3>6. IF op = "MERGE" THEN j < i ELSE ~Less(Entry(w, i), Entry(w, j))
      BY <1>2, <1>4, <3>1, <3>2, <3>4, <3>5 DEF LoopInv
    <3>7. CASE op = "MERGE"
      <4>1. i < j /\ j < i
        BY <3>6, <3>7 DEF ComesBefore, SameField
      <4> QED BY <1>1, <4>1
    <3>8. CASE op # "MERGE"
      <4>1. Entry(w, i).idx < Entry(w, j).idx /\ NoKeys(Entry(w, i).tag)
            /\ Entry(w, i).tag = Entry(w, j).tag
        BY <3>8 DEF ComesBefore, SameField
      <4>2. Less(Entry(w, i), Entry(w, j))
        BY <1>1, <4>1, OrderedEntries, SameTagLess
      <4> QED BY <3>6, <3>8, <4>2
    <3> QED BY <3>7, <3>8
  <2> QED BY <2>4, <2>5
<1> QED BY <1>0, <1>8, <1>9, <1>10

\* A step that merges nothing and leaves nothing behind.
LEMMA OrderKept ==
    ASSUME MergingInv, input' = input, op' = op, Grown(nodes, nodes'),
           \A w \in Asked : Ahead(w)' <=> Ahead(w)
    PROVE  OrderInv'
<1>1. Asked' = Asked /\ \A w : /\ Place(w)' = Place(w) /\ Entries(w)' = Entries(w)
                               /\ \A i : Entry(w, i)' = Entry(w, i)
  BY SameInput
<1>2. input \in Inputs /\ OrderInv
  BY DEF MergingInv
<1>3. ASSUME NEW w \in Asked, NEW i \in Entries(w), NEW j \in Entries(w), ComesBefore(w, i, j)'
      PROVE  LET p == Place(Append(w, i))
             IN  /\ ~Ahead(Append(w, i))' => Merged(p, Entry(w, i).idx)' # {}
                 /\ ~Ahead(Append(w, j))' => MergedBefore(p, Entry(w, i).idx, Entry(w, j).idx)'
  <2>1. ComesBefore(w, i, j)
    BY <1>3, <1>1 DEF ComesBefore, SameField, HasChunk
  <2>2. Append(w, i) \in Asked /\ Append(w, j) \in Asked
    BY <1>2, <2>1, OrderedEntries
  <2>3. PICK p, c, d : p = Place(Append(w, i)) /\ c = Entry(w, i).idx /\ d = Entry(w, j).idx
    OBVIOUS
  <2>4. /\ ~Ahead(Append(w, i)) => Merged(p, c) # {}
        /\ ~Ahead(Append(w, j)) => MergedBefore(p, c, d)
    BY <1>2, <2>1, <2>3 DEF OrderInv
  <2>5. Merged(p, c)' = Merged(p, c) /\ (MergedBefore(p, c, d) => MergedBefore(p, c, d)')
    BY MergedGrown
  <2>6. /\ ~Ahead(Append(w, i))' => Merged(p, c)' # {}
        /\ ~Ahead(Append(w, j))' => MergedBefore(p, c, d)'
    BY <2>2, <2>4, <2>5
  <2>7. p = Place(Append(w, i))' /\ c = Entry(w, i).idx' /\ d = Entry(w, j).idx'
    BY <1>1, <2>3
  <2> QED BY <2>3, <2>6, <2>7 DEF Merged, MergedBefore
<1> QED BY <1>1, <1>3 DEF OrderInv

\* The message at v, whose call starts, is merged if it has a chunk, and is left behind.
StartsAt(v) == /\ call # None /\ v = call.way /\ v \in Asked
               /\ input' = input /\ op' = op
               /\ IF HasChunk(v) THEN MergedThere(Place(v), input[v].idx) ELSE nodes' = nodes
               /\ \A w \in Asked : Ahead(w)' <=> Ahead(w) /\ w # v

\* Merging only adds.
LEMMA StartMerges ==
    ASSUME MergingInv, NEW v, StartsAt(v)
    PROVE  /\ \A p, c : Merged(p, c) # {} => Merged(p, c)' # {}
           /\ \A p, c, d : MergedBefore(p, c, d) => MergedBefore(p, c, d)'
           /\ HasChunk(v) => /\ Merged(Place(v), input[v].idx)' # {}
                             /\ \A c : Merged(Place(v), c) # {} =>
                                   MergedBefore(Place(v), c, input[v].idx)'
<1>1. PICK q, i : q = Place(v) /\ i = input[v].idx
  OBVIOUS
<1>2. CASE HasChunk(v)
  <2>1. TypeOK /\ MergedThere(q, i)
    BY <1>1, <1>2 DEF StartsAt, MergingInv
  <2>2. i \in Chunk
    <3>1. input[v] \in ChunkedField
      BY EntriesAreFields DEF StartsAt, Asked, MergingInv
    <3> QED BY <1>1, <1>2, <3>1 DEF HasChunk, ChunkedField
  <2>3. /\ \A p, c : p # q \/ c # i => Merged(p, c)' = Merged(p, c)
        /\ \E k : k \notin Merged(q, i) /\ Merged(q, i)' = Merged(q, i) \union {k}
        /\ \A p, c, d : MergedBefore(p, c, d) => MergedBefore(p, c, d)'
        /\ \A c : Merged(q, c) # {} => MergedBefore(q, c, i)'
    BY <2>1, <2>2, MergedAppended
  <2>4. Merged(q, i)' # {}
    BY <2>3
  <2>5. ASSUME NEW p, NEW c, Merged(p, c) # {}
        PROVE  Merged(p, c)' # {}
    <3>1. CASE p # q \/ c # i
      BY <2>3, <2>5, <3>1
    <3>2. CASE p = q /\ c = i
      BY <2>4, <3>2 DEF Merged
    <3> QED BY <3>1, <3>2
  <2>6. q = Place(v)' /\ i = input'[v].idx
    BY <1>1, SameInput DEF StartsAt
  <2> QED BY <1>1, <2>3, <2>4, <2>5, <2>6 DEF Merged, MergedBefore
<1>3. CASE ~HasChunk(v)
  <2>1. Grown(nodes, nodes')
    BY <1>3 DEF StartsAt, Grown
  <2> QED BY <1>3, <2>1, MergedGrown
<1> QED BY <1>2, <1>3

\* The order is kept when a call starts.
LEMMA OrderStarted ==
    ASSUME MergingInv, NEW v, StartsAt(v)
    PROVE  OrderInv'
<1>1. Asked' = Asked /\ \A w : /\ Place(w)' = Place(w) /\ Entries(w)' = Entries(w)
                               /\ \A i : Entry(w, i)' = Entry(w, i)
  BY SameInput DEF StartsAt
<1>2. input \in Inputs /\ OrderInv /\ op' = op
  BY DEF MergingInv, StartsAt
<1>3. ASSUME NEW w \in Asked, NEW i \in Entries(w), NEW j \in Entries(w), ComesBefore(w, i, j)'
      PROVE  LET p == Place(Append(w, i))
             IN  /\ ~Ahead(Append(w, i))' => Merged(p, Entry(w, i).idx)' # {}
                 /\ ~Ahead(Append(w, j))' => MergedBefore(p, Entry(w, i).idx, Entry(w, j).idx)'
  <2>1. ComesBefore(w, i, j)
    BY <1>2, <1>3, <1>1 DEF ComesBefore, SameField, HasChunk, StartsAt
  <2>2. PICK p, c, d, x, y : /\ p = Place(Append(w, i)) /\ x = Append(w, i) /\ y = Append(w, j)
                             /\ c = Entry(w, i).idx /\ d = Entry(w, j).idx
    OBVIOUS
  <2>3. /\ x \in Asked /\ y \in Asked /\ p = Place(x) /\ p = Place(y)
        /\ c = input[x].idx /\ d = input[y].idx /\ c # None /\ d # None
    BY <1>2, <2>1, <2>2, OrderedEntries
  <2>4. /\ ~Ahead(x) => Merged(p, c) # {}
        /\ ~Ahead(y) => MergedBefore(p, c, d)
    BY <1>2, <2>1, <2>2 DEF OrderInv
  <2>5. ASSUME ~Ahead(x)'
        PROVE  Merged(p, c)' # {}
    <3>1. CASE ~Ahead(x)
      BY <2>4, <3>1, StartMerges
    <3>2. CASE x = v
      <4>1. HasChunk(v) /\ p = Place(v) /\ c = input[v].idx
        BY <2>3, <3>2 DEF HasChunk
      <4>2. Merged(Place(v), input[v].idx)' # {}
        BY <4>1, StartMerges
      <4>3. p = Place(v)' /\ c = input'[v].idx
        BY <4>1, SameInput DEF StartsAt
      <4> QED BY <4>2, <4>3 DEF Merged
    <3> QED BY <2>3, <2>5, <3>1, <3>2 DEF StartsAt
  <2>6. ASSUME ~Ahead(y)'
        PROVE  MergedBefore(p, c, d)'
    <3>1. CASE ~Ahead(y)
      BY <2>4, <3>1, StartMerges
    <3>2. CASE y = v
      <4>1. HasChunk(v) /\ p = Place(v) /\ d = input[v].idx
        BY <2>3, <3>2 DEF HasChunk
      <4>2. ~Ahead(x)
        BY <2>1, <2>2, <3>2, EarlierIsBehind DEF StartsAt
      <4>3. Merged(Place(v), c) # {}
        BY <2>4, <4>1, <4>2
      <4>4. MergedBefore(Place(v), c, input[v].idx)'
        BY <4>1, <4>3, StartMerges
      <4>5. p = Place(v)' /\ d = input'[v].idx
        BY <4>1, SameInput DEF StartsAt
      <4> QED BY <4>4, <4>5 DEF MergedBefore
    <3> QED BY <2>3, <2>6, <3>1, <3>2 DEF StartsAt
  <2>7. p = Place(Append(w, i))' /\ c = Entry(w, i).idx' /\ d = Entry(w, j).idx'
    BY <1>1, <2>2
  <2> QED BY <2>2, <2>5, <2>6, <2>7 DEF Merged, MergedBefore
<1> QED BY <1>1, <1>3 DEF OrderInv

\* The counts are right after a call has started.
LEMMA CountStarted ==
    ASSUME MergingInv, NEW v, StartsAt(v), Ahead(v)
    PROVE  CountInv'
<1>1. CASE HasChunk(v)
  <2>1. input[v].idx \in Chunk
    <3>1. input[v] \in ChunkedField
      BY EntriesAreFields DEF StartsAt, Asked, MergingInv
    <3> QED BY <1>1, <3>1 DEF HasChunk, ChunkedField
  <2> QED BY <1>1, <2>1, CountMerged DEF StartsAt
<1>2. CASE ~HasChunk(v)
  <2>1. Asked' = Asked /\ \A p, c : Placements(p, c)' = Placements(p, c)
    BY SameInput DEF StartsAt
  <2>2. Grown(nodes, nodes')
    BY <1>2 DEF StartsAt, Grown
  <2>3. ASSUME NEW p, NEW c \in Chunk
        PROVE  Cardinality(Merged(p, c)') + Cardinality({w \in Placements(p, c) : Ahead(w)}')
                  = Cardinality(Placements(p, c)')
    <3>1. Merged(p, c)' = Merged(p, c)
      BY <2>2, MergedGrown
    <3>2. v \notin Placements(p, c)
      <4>1. None \notin Chunk
        BY MergerAssumption
      <4> QED BY <1>2, <4>1 DEF Placements, HasChunk
    <3>3. {w \in Placements(p, c) : Ahead(w)}' = Pending(p, c)
      BY <2>1, <3>2 DEF Pending, Placements, StartsAt
    <3> QED BY <2>1, <3>1, <3>3, CountEverywhere
  <2> QED BY <2>3 DEF CountInv
<1> QED BY <1>1, <1>2

------------------------------------------------------------------------------
(* The invariant *)

CallInv == call # None => /\ call.way \in Asked /\ call.at = Place(call.way)
                          /\ Len(call.way) = Len(stack) /\ LeadTo(call.way)

DoneInv == status = "OK" => call = None /\ stack = <<>>

\* StackInv by its parts.
LEMMA StackInvParts == Placed /\ FramesInv /\ CallInv /\ DoneInv => StackInv
<1> SUFFICES ASSUME Placed, FramesInv, CallInv, DoneInv
             PROVE  StackInv
  OBVIOUS
<1>1. DOMAIN stack = 1..Len(stack)
  BY LenProperties DEF Placed
<1> QED BY <1>1 DEF StackInv, FramesInv, CallInv, DoneInv

\* The same after a step.
LEMMA StackInvStep ==
    ASSUME Placed', FramesInv', CallInv', DoneInv'
    PROVE  StackInv'
<1>1. (Placed /\ FramesInv /\ CallInv /\ DoneInv)' => StackInv'
  BY StackInvParts, PTL
<1> QED BY <1>1

\* The nodes the running calls fill are there, whatever is added.
LEMMA TypeKept ==
    ASSUME TypeOK, <<>> \in DOMAIN nodes', DOMAIN nodes \subseteq DOMAIN nodes',
           \A p \in DOMAIN nodes' : nodes'[p] \in Seq(Chunk),
           stack' \in Seq(Frames),
           \A k \in DOMAIN stack' : stack'[k].at \in DOMAIN nodes',
           call' \in Calls \union {None}, call' # None => call'.at \in DOMAIN nodes',
           op' = op, status' = status
    PROVE  TypeOK'
BY DEF TypeOK

\* A call that starts: its own chunk is merged, and its loop is set up.
LEMMA StartInv ==
    ASSUME MergingInv, call # None, status = "running",
           NEW order, Start(MergeOwnChunk, order), Permitted(call.way, order),
           op = "READ" => OwnRecord = "good"
    PROVE  MergingInv'
<1>0. PICK n, c, q : n = Len(stack) /\ c = call.way /\ q = call.at
  OBVIOUS
<1>1. /\ input' = input /\ brings' = brings /\ op' = op /\ record' = record
      /\ status' = status /\ call' = None /\ nodes' = MergeOwnChunk
      /\ stack' = Append(stack, [way |-> call.way, at |-> call.at, todo |-> order])
  BY DEF Start, given
<1>2. /\ input \in Inputs /\ c \in Asked /\ c \in DOMAIN input /\ q = Place(c)
      /\ TypeOK /\ q \in DOMAIN nodes /\ n \in Nat
  BY <1>0, StackParts DEF MergingInv, TypeOK, Asked
<1>3. Pushed(order)
  <2>1. order \in Seq(Entries(call.way)) /\ Range(order) = Entries(call.way)
    BY DEF Permitted
  <2>2. Entries(call.way) \subseteq Nat
    BY DEF Entries
  <2>3. order \in Seq(Nat)
    BY <2>1, <2>2, SeqMonotonic
  <2> QED BY <1>1, <2>1, <2>3 DEF Pushed
<1>4. /\ Placed /\ Placed' /\ Len(stack') = n + 1
      /\ \A k \in 1..n : stack'[k] = stack[k]
      /\ stack'[n + 1] = [way |-> c, at |-> q, todo |-> order]
  BY <1>0, <1>3, PushedStack
<1>5. input[c] \in ChunkedField
  BY <1>2, EntriesAreFields
<1>6. \A w \in DOMAIN input : Ahead(w)' <=> Ahead(w) /\ w # c
  BY <1>0, <1>3, AheadPushed
<1>7. /\ DOMAIN nodes \subseteq DOMAIN nodes'
      /\ \A p \in DOMAIN nodes' : nodes'[p] \in Seq(Chunk)
      /\ IF HasChunk(c) THEN MergedThere(Place(c), input[c].idx) ELSE nodes' = nodes
  <2>1. CASE HasChunk(c)
    <3>1. PICK i : i = input[c].idx
      OBVIOUS
    <3>2. i \in Chunk
      BY <1>5, <2>1, <3>1 DEF HasChunk, ChunkedField
    <3>3. nodes' = MergeChunk(nodes, q, i)
      BY <1>0, <1>1, <2>1, <3>1 DEF MergeOwnChunk, OwnIndex, HasChunk
    <3>4. /\ DOMAIN nodes \subseteq DOMAIN nodes'
          /\ nodes'[q] = Append(nodes[q], i)
          /\ \A p \in DOMAIN nodes : p # q => nodes'[p] = nodes[p]
          /\ \A p \in DOMAIN nodes' : p \notin DOMAIN nodes => nodes'[p] = <<>>
      BY <1>2, <3>3, MergeChunkAppends
    <3>5. \A p \in DOMAIN nodes : nodes[p] \in Seq(Chunk)
      BY <1>2 DEF TypeOK
    <3>6. nodes'[q] \in Seq(Chunk) /\ <<>> \in Seq(Chunk)
      BY <1>2, <3>2, <3>4, <3>5, AppendProperties, EmptySeq
    <3>7. \A p \in DOMAIN nodes' : nodes'[p] \in Seq(Chunk)
      BY <3>4, <3>5, <3>6
    <3> QED BY <1>2, <2>1, <3>1, <3>4, <3>7 DEF MergedThere
  <2>2. CASE ~HasChunk(c)
    <3>1. nodes' = nodes
      BY <1>0, <1>1, <2>2 DEF MergeOwnChunk, OwnIndex, HasChunk
    <3> QED BY <1>2, <2>2, <3>1 DEF TypeOK
  <2> QED BY <2>1, <2>2
<1>8. StartsAt(c)
  BY <1>0, <1>1, <1>2, <1>6, <1>7 DEF StartsAt, Asked
<1>9. Ahead(c)
  <2>1. IsPrefix(c, c)
    <3>1. Len(c) \in Nat
      BY <1>2, InputWays, LenProperties DEF Way
    <3> QED BY <3>1 DEF IsPrefix
  <2> QED BY <1>0, <2>1 DEF Ahead
<1>10. TypeOK'
  <2>1. stack' \in Seq(Frames)
    BY <1>4 DEF Placed
  <2>2. DOMAIN stack' = 1..(n + 1) /\ DOMAIN stack = 1..n
    BY <1>0, <1>4, <2>1, LenProperties DEF Placed
  <2>3. ASSUME NEW k \in 1..(n + 1)
        PROVE  stack'[k].at \in DOMAIN nodes'
    <3>1. CASE k \in 1..n
      BY <1>2, <1>4, <1>7, <2>2, <3>1 DEF TypeOK
    <3>2. CASE k \notin 1..n
      <4>1. k = n + 1
        BY <1>2, <3>2
      <4>2. stack'[k].at = q
        BY <1>4, <4>1
      <4> QED BY <1>2, <1>7, <4>2
    <3> QED BY <3>1, <3>2
  <2>4. <<>> \in DOMAIN nodes'
    BY <1>2, <1>7 DEF TypeOK
  <2> QED BY <1>1, <1>2, <1>7, <2>1, <2>2, <2>3, <2>4, TypeKept
<1>11. StackInv'
  <2>1. FramesInv'
    BY <1>1, <1>3, FramesPushed
  <2>2. CallInv' /\ DoneInv'
    BY <1>1 DEF CallInv, DoneInv
  <2> QED BY <1>4, <2>1, <2>2, StackInvStep
<1>12. RecordInv'
  <2>1. SUFFICES ASSUME op = "READ", NEW w \in Asked
                 PROVE  /\ ~Ahead(w)' /\ HasChunk(w) => record[input[w].idx] = "good"
                        /\ \A i \in Entries(w) :
                              ~Ahead(Append(w, i))' =>
                                 record[ChunkIndex(input[Append(w, i)])] # "missing"
    <3>1. Asked' = Asked /\ \A w : Entries(w)' = Entries(w) /\ HasChunk(w)' = HasChunk(w)
      BY <1>1, SameInput
    <3> QED BY <1>1, <3>1 DEF RecordInv
  <2>2. /\ ~Ahead(w) /\ HasChunk(w) => record[input[w].idx] = "good"
        /\ \A i \in Entries(w) :
              ~Ahead(Append(w, i)) \/ (call # None /\ call.way = Append(w, i)) =>
                 record[ChunkIndex(input[Append(w, i)])] # "missing"
    BY <2>1 DEF MergingInv, RecordInv
  <2>3. HasChunk(c) => record[input[c].idx] = "good"
    BY <1>0, <2>1 DEF OwnRecord, OwnIndex, HasChunk
  <2>4. ~Ahead(w)' => ~Ahead(w) \/ w = c
    BY <1>6 DEF Asked
  <2>5. ASSUME NEW i \in Entries(w), ~Ahead(Append(w, i))'
        PROVE  ~Ahead(Append(w, i)) \/ Append(w, i) = c
    BY <1>2, <1>6, <2>5, EntriesAreFields DEF Asked
  <2> QED BY <1>0, <2>2, <2>3, <2>4, <2>5
<1>13. CountInv' /\ OrderInv'
  BY <1>8, <1>9, CountStarted, OrderStarted
<1> QED BY <1>1, <1>10, <1>11, <1>12, <1>13 DEF MergingInv

\* The loop goes past entry h of the message at u: whatever the entry was, the types and
\* the frames are kept if nodes are only added.
LEMMA TakenKeeps ==
    ASSUME MergingInv, NEW u, NEW h, Taken(u, h), Grown(nodes, nodes'),
           call' \in Calls \union {None}, call' # None => call'.at \in DOMAIN nodes',
           op' = op, status' = status
    PROVE  TypeOK' /\ FramesInv' /\ Placed'
<1>0. PICK n : n = Len(stack)
  OBVIOUS
<1>1. Placed /\ Placed' /\ n \in Nat /\ Len(stack') = n
  BY <1>0, TakenStack
<1>2. /\ FramesInv'
      /\ \A k \in DOMAIN stack : k \in DOMAIN stack' /\ stack'[k].at = stack[k].at
  BY FramesTaken
<1>3. DOMAIN stack = 1..n /\ DOMAIN stack' = 1..n /\ stack' \in Seq(Frames)
  BY <1>0, <1>1, LenProperties DEF Placed
<1>4. TypeOK
  BY DEF MergingInv
<1>5. /\ DOMAIN nodes \subseteq DOMAIN nodes' /\ <<>> \in DOMAIN nodes'
      /\ \A p \in DOMAIN nodes' : nodes'[p] \in Seq(Chunk)
  <2>1. \A p \in DOMAIN nodes : p \in DOMAIN nodes' /\ nodes'[p] = nodes[p] /\ nodes[p] \in Seq(Chunk)
    BY <1>4 DEF Grown, TypeOK
  <2>2. \A p \in DOMAIN nodes' : p \notin DOMAIN nodes => nodes'[p] = <<>>
    BY DEF Grown
  <2>3. <<>> \in Seq(Chunk)
    BY EmptySeq
  <2>4. <<>> \in DOMAIN nodes
    BY <1>4 DEF TypeOK
  <2> QED BY <2>1, <2>2, <2>3, <2>4
<1>6. \A k \in DOMAIN stack' : stack'[k].at \in DOMAIN nodes'
  BY <1>2, <1>3, <1>4, <1>5 DEF TypeOK
<1>7. TypeOK'
  BY <1>3, <1>4, <1>5, <1>6, TypeKept
<1> QED BY <1>1, <1>2, <1>7

\* An entry that is no message: it was set, or dropped.
LEMMA TakenInv ==
    ASSUME MergingInv, NEW u, NEW h, Taken(u, h), Grown(nodes, nodes'),
           call = None, call' = None, given' = given, status = "running", status' = status,
           ~OfMessage(Entry(u, h)),
           op = "READ" => record[ChunkIndex(Entry(u, h))] # "missing"
    PROVE  MergingInv'
<1>1. /\ input' = input /\ brings' = brings /\ op' = op /\ record' = record
      /\ input \in Inputs
  BY DEF given, MergingInv
<1>2. TypeOK' /\ FramesInv' /\ Placed'
  BY <1>1, TakenKeeps
<1>3. StackInv'
  <2>1. CallInv' /\ DoneInv'
    BY DEF CallInv, DoneInv
  <2> QED BY <1>2, <2>1, StackInvStep
<1>4. u \in Asked /\ u \in Seq(Nat) /\ Len(u) \in Nat /\ h \in Entries(u) /\ h \in Nat
  <2>1. PICK n : n = Len(stack)
    OBVIOUS
  <2>2. u \in Asked /\ h \in Entries(u)
    BY <2>1, TakenStack
  <2> QED BY <1>1, <2>2, InputWays, LenProperties DEF Asked, Way, Entries
<1>5. \A w \in Asked : ~Through(w, u, h)
  <2>1. SUFFICES ASSUME NEW w \in Asked, Through(w, u, h)
                 PROVE  FALSE
    OBVIOUS
  <2> DEFINE k == Len(u) + 1
  <2>2. Len(w) \in Nat
    BY <1>1, InputWays, LenProperties DEF Asked, Way
  <2>3. k \in 1..Len(w) /\ k - 1 = Len(u) /\ SubSeq(w, 1, Len(u)) = u /\ w[k] = h
    BY <1>4, <2>1, <2>2 DEF Through
  <2> HIDE DEF k
  <2>4. OfMessage(Entry(SubSeq(w, 1, k - 1), w[k]))
    BY <1>1, <2>3, AskedParts
  <2>5. SubSeq(w, 1, k - 1) = u
    BY <2>3
  <2> QED BY <2>3, <2>4, <2>5
<1>6. \A w \in DOMAIN input : Ahead(w) <=> Ahead(w)' \/ Through(w, u, h)
  <2>1. ASSUME NEW w \in DOMAIN input
        PROVE  Ahead(w) <=> Ahead(w)' \/ Through(w, u, h)
    <3>1. AheadForm' /\ (Ahead(w) <=> (\E k \in 1..Len(stack') : GetsTo(k, w)') \/ Through(w, u, h))
      BY AheadTaken
    <3>2. Ahead(w)' <=> \E k \in 1..Len(stack') : GetsTo(k, w)'
      BY <1>1, <3>1 DEF AheadForm
    <3> QED BY <3>1, <3>2
  <2> QED BY <2>1
<1>7. \A w \in Asked : Ahead(w)' <=> Ahead(w)
  BY <1>5, <1>6 DEF Asked
<1>8. CountInv' /\ OrderInv'
  BY <1>1, <1>7, CountKept, OrderKept
<1>9. RecordInv'
  <2>1. SUFFICES ASSUME op = "READ", NEW w \in Asked
                 PROVE  /\ ~Ahead(w)' /\ HasChunk(w) => record[input[w].idx] = "good"
                        /\ \A i \in Entries(w) :
                              ~Ahead(Append(w, i))' =>
                                 record[ChunkIndex(input[Append(w, i)])] # "missing"
    <3>1. Asked' = Asked /\ \A w : Entries(w)' = Entries(w) /\ HasChunk(w)' = HasChunk(w)
      BY <1>1, SameInput
    <3> QED BY <1>1, <3>1 DEF RecordInv
  <2>2. /\ ~Ahead(w) /\ HasChunk(w) => record[input[w].idx] = "good"
        /\ \A i \in Entries(w) :
              ~Ahead(Append(w, i)) => record[ChunkIndex(input[Append(w, i)])] # "missing"
    BY <2>1 DEF MergingInv, RecordInv
  <2>3. ASSUME NEW i \in Entries(w), Through(Append(w, i), u, h)
        PROVE  w = u /\ i = h
    <3> DEFINE v == Append(w, i)
               m == Len(u)
               l == Len(w)
    <3>1. w \in Seq(Nat) /\ l \in Nat /\ i \in Nat
      BY <1>1, InputWays, LenProperties DEF Asked, Way, Entries
    <3>2. /\ Len(v) = l + 1 /\ v[l + 1] = i /\ \A k \in 1..l : v[k] = w[k]
          /\ SubSeq(v, 1, l) = w /\ \A k \in 0..l : SubSeq(v, 1, k) = SubSeq(w, 1, k)
      BY <3>1, AppendProperties, PrefixOfAppend
    <3>3. Len(v) > m /\ SubSeq(v, 1, m) = u /\ v[m + 1] = h
      BY <2>3 DEF Through
    <3>4. m \in Nat
      BY <1>4
    <3> HIDE DEF v, m, l
    <3>5. m <= l
      BY <3>1, <3>2, <3>3, <3>4
    <3>6. CASE m = l
      BY <3>2, <3>3, <3>6
    <3>7. CASE m < l
      <4>1. m \in 0..l /\ m + 1 \in 1..l
        BY <3>1, <3>4, <3>7
      <4>2. SubSeq(w, 1, m) = u /\ w[m + 1] = h
        BY <3>2, <3>3, <4>1
      <4>3. Through(w, u, h)
        BY <3>7, <4>2 DEF Through, m, l
      <4> QED BY <1>5, <4>3
    <3> QED BY <3>1, <3>4, <3>5, <3>6, <3>7
  <2>4. ASSUME NEW i \in Entries(w), ~Ahead(Append(w, i))'
        PROVE  record[ChunkIndex(input[Append(w, i)])] # "missing"
    <3>1. CASE ~Ahead(Append(w, i))
      BY <2>2, <3>1
    <3>2. CASE Ahead(Append(w, i))
      <4>1. Append(w, i) \in DOMAIN input
        BY <1>1, EntriesAreFields DEF Asked
      <4>2. Through(Append(w, i), u, h)
        BY <1>6, <2>4, <3>2, <4>1
      <4>3. w = u /\ i = h
        BY <2>3, <4>2
      <4> QED BY <2>1, <4>3 DEF Entry
    <3> QED BY <3>1, <3>2
  <2> QED BY <1>7, <2>2, <2>4
<1> QED BY <1>1, <1>2, <1>3, <1>8, <1>9 DEF MergingInv

\* A message: its call is about to start.
LEMMA CalledInv ==
    ASSUME MergingInv, NEW u, NEW h, Taken(u, h), Grown(nodes, nodes'), NEW p,
           call = None, call' = Call(Append(u, h), p), given' = given,
           status = "running", status' = status,
           OfMessage(Entry(u, h)), p = Place(Append(u, h)), p \in DOMAIN nodes',
           op = "READ" => record[ChunkIndex(Entry(u, h))] # "missing"
    PROVE  MergingInv'
<1>0. PICK n, v : n = Len(stack) /\ v = Append(u, h)
  OBVIOUS
<1>1. /\ input' = input /\ brings' = brings /\ op' = op /\ record' = record
      /\ input \in Inputs
  BY DEF given, MergingInv
<1>2. /\ Placed /\ Placed' /\ n \in Nat /\ n # 0 /\ Len(stack') = n
      /\ stack[n].way = u /\ u \in Asked /\ Len(u) = n - 1 /\ h \in Entries(u)
  BY <1>0, TakenStack
<1>3. u \in Seq(Nat) /\ h \in Nat
  BY <1>1, <1>2, InputWays DEF Asked, Way, Entries
<1>4. /\ v \in Seq(Nat) /\ Len(v) = n /\ v[n] = h /\ SubSeq(v, 1, n - 1) = u
      /\ \A k \in 1..(n - 1) : v[k] = u[k]
      /\ \A k \in 0..(n - 1) : SubSeq(v, 1, k) = SubSeq(u, 1, k)
  <2>1. /\ v \in Seq(Nat) /\ Len(v) = Len(u) + 1 /\ v[Len(u) + 1] = h
        /\ \A k \in 1..Len(u) : v[k] = u[k]
    BY <1>0, <1>3, AppendProperties
  <2>2. SubSeq(v, 1, Len(u)) = u /\ \A k \in 0..Len(u) : SubSeq(v, 1, k) = SubSeq(u, 1, k)
    BY <1>0, <1>3, PrefixOfAppend
  <2>3. Len(u) + 1 = n
    BY <1>2
  <2> QED BY <1>2, <2>1, <2>2, <2>3
<1>5. v \in Asked /\ p = Place(v) /\ p \in Path
  <2>1. v \in Asked
    BY <1>0, <1>1, <1>2, AskedEntry
  <2> QED BY <1>0, <1>1, <2>1, PlaceEntry
<1>6. call' \in Calls /\ call' # None /\ call'.way = v /\ call'.at = p
  <2>1. call' = [way |-> v, at |-> p]
    BY <1>0 DEF Call
  <2>2. call' \in Calls
    BY <1>4, <1>5, <2>1 DEF Calls, Way
  <2>3. None \notin Calls
    BY MergerAssumption
  <2> QED BY <2>1, <2>2, <2>3
<1>7. TypeOK' /\ FramesInv' /\ Placed'
  BY <1>1, <1>6, TakenKeeps
<1>8. LeadTo(v)'
  <2>1. /\ \A k \in DOMAIN stack : /\ k \in DOMAIN stack'
                                   /\ stack'[k].way = stack[k].way
                                   /\ Range(stack'[k].todo) \subseteq Range(stack[k].todo)
        /\ h \notin Range(stack'[n].todo)
    BY <1>0, <1>1, FramesTaken
  <2>2. LeadTo(u) /\ DOMAIN stack = 1..n
    <3>1. n \in 1..n
      BY <1>2
    <3>2. LeadTo(stack[n].way) /\ DOMAIN stack = 1..n
      BY <1>0, <3>1, FrameLed
    <3>3. stack[n].way = u
      BY <1>2
    <3> QED BY <3>2, <3>3
  <2>3. DOMAIN u = 1..(n - 1) /\ DOMAIN v = 1..n
    BY <1>2, <1>3, <1>4, LenProperties
  <2>4. ASSUME NEW k \in 1..n
        PROVE  /\ k \in DOMAIN stack' /\ stack'[k].way = SubSeq(v, 1, k - 1)
               /\ v[k] \notin Range(stack'[k].todo)
    <3>1. CASE k = n
      BY <1>2, <1>4, <2>1, <2>2, <2>4, <3>1
    <3>2. CASE k # n
      <4>1. k \in 1..(n - 1) /\ k - 1 \in 0..(n - 1)
        BY <1>2, <3>2
      <4>2. stack[k].way = SubSeq(u, 1, k - 1) /\ u[k] \notin Range(stack[k].todo)
        BY <2>2, <2>3, <4>1 DEF LeadTo
      <4> QED BY <1>4, <2>1, <2>2, <4>1, <4>2
    <3> QED BY <3>1, <3>2
  <2> QED BY <2>3, <2>4 DEF LeadTo
<1>9. StackInv'
  <2>1. Asked' = Asked /\ Place(v)' = Place(v)
    BY <1>1, SameInput
  <2>2. v \in Asked' /\ p = Place(v)' /\ Len(v) = Len(stack')
    BY <1>2, <1>4, <1>5, <2>1
  <2>3. call.way' = v /\ call.at' = p
    BY <1>6
  <2>4. (call.way \in Asked /\ call.at = Place(call.way) /\ Len(call.way) = Len(stack)
           /\ LeadTo(call.way))'
    BY <1>8, <2>2, <2>3
  <2>6. CallInv'
    BY <2>4 DEF CallInv
  <2>5. DoneInv'
    BY DEF DoneInv
  <2> QED BY <1>7, <2>6, <2>5, StackInvStep
<1>10. \A w \in DOMAIN input : Ahead(w)' <=> Ahead(w)
  <2>1. ASSUME NEW w \in DOMAIN input
        PROVE  Ahead(w)' <=> Ahead(w)
    <3>1. AheadForm' /\ (Ahead(w) <=> (\E k \in 1..Len(stack') : GetsTo(k, w)') \/ Through(w, u, h))
      BY AheadTaken
    <3>2. Ahead(w)' <=> IsPrefix(v, w) \/ \E k \in 1..Len(stack') : GetsTo(k, w)'
      BY <1>1, <1>6, <3>1 DEF AheadForm
    <3>3. IsPrefix(v, w) <=> Through(w, u, h)
      BY <1>0, <1>1, <1>3, InputWays, EntryThrough DEF Way
    <3> QED BY <3>1, <3>2, <3>3
  <2> QED BY <2>1
<1>11. CountInv' /\ OrderInv'
  BY <1>1, <1>10, CountKept, OrderKept DEF Asked
<1>12. RecordInv'
  <2>1. SUFFICES ASSUME op = "READ", NEW w \in Asked
                 PROVE  /\ ~Ahead(w)' /\ HasChunk(w) => record[input[w].idx] = "good"
                        /\ \A i \in Entries(w) :
                              ~Ahead(Append(w, i))' \/ call'.way = Append(w, i) =>
                                 record[ChunkIndex(input[Append(w, i)])] # "missing"
    <3>1. Asked' = Asked /\ \A w : Entries(w)' = Entries(w) /\ HasChunk(w)' = HasChunk(w)
      BY <1>1, SameInput
    <3> QED BY <1>1, <3>1 DEF RecordInv
  <2>2. /\ ~Ahead(w) /\ HasChunk(w) => record[input[w].idx] = "good"
        /\ \A i \in Entries(w) :
              ~Ahead(Append(w, i)) => record[ChunkIndex(input[Append(w, i)])] # "missing"
    BY <2>1 DEF MergingInv, RecordInv
  <2>3. record[ChunkIndex(input[v])] # "missing"
    BY <1>0, <2>1 DEF Entry
  <2>4. \A i \in Entries(w) : Append(w, i) \in DOMAIN input
    BY <1>1, EntriesAreFields DEF Asked
  <2> QED BY <1>6, <1>10, <2>2, <2>3, <2>4 DEF Asked
<1> QED BY <1>1, <1>7, <1>9, <1>11, <1>12 DEF MergingInv

\* A call comes back.
LEMMA ReturnInv ==
    ASSUME MergingInv, Return
    PROVE  MergingInv'
<1>0. PICK n : n = Len(stack)
  OBVIOUS
<1>1. /\ input' = input /\ brings' = brings /\ op' = op /\ record' = record
      /\ nodes' = nodes /\ call = None /\ call' = None /\ input \in Inputs
      /\ status = "running" /\ status' = IF n = 1 THEN "OK" ELSE status
  BY <1>0 DEF Return, InLoop, Running, Outermost, given, MergingInv
<1>2. Popped
  BY <1>1 DEF Return, InLoop, Popped
<1>3. /\ FramesInv' /\ Placed' /\ Len(stack') = n - 1
      /\ \A k \in 1..(n - 1) : stack'[k] = stack[k]
      /\ \A w \in DOMAIN input : Ahead(w)' <=> Ahead(w)
  BY <1>0, <1>1, <1>2, FramesPopped
<1>4. TypeOK /\ n \in Nat /\ DOMAIN stack = 1..n
  BY <1>0, StackParts DEF MergingInv
<1>5. TypeOK'
  <2>1. stack' \in Seq(Frames) /\ DOMAIN stack' = 1..(n - 1)
    BY <1>3, LenProperties DEF Placed
  <2>2. \A k \in DOMAIN stack' : stack'[k].at \in DOMAIN nodes'
    BY <1>1, <1>3, <1>4, <2>1 DEF TypeOK
  <2> QED BY <1>1, <1>4, <2>1, <2>2 DEF TypeOK
<1>6. StackInv'
  <2>1. CallInv'
    BY <1>1 DEF CallInv
  <2>2. DoneInv'
    <3>1. stack' \in Seq(Frames)
      BY <1>3 DEF Placed
    <3>2. n = 1 => stack' = <<>>
      BY <1>3, <3>1, EmptySeq
    <3> QED BY <1>1, <3>2 DEF DoneInv
  <2> QED BY <1>3, <2>1, <2>2, StackInvStep
<1>7. \A w \in Asked : Ahead(w)' <=> Ahead(w)
  BY <1>3 DEF Asked
<1>8. Grown(nodes, nodes')
  BY <1>1 DEF Grown
<1>9. CountInv' /\ OrderInv'
  BY <1>1, <1>7, <1>8, CountKept, OrderKept
<1>10. RecordInv'
  <2>1. SUFFICES ASSUME op = "READ", NEW w \in Asked
                 PROVE  /\ ~Ahead(w)' /\ HasChunk(w) => record[input[w].idx] = "good"
                        /\ \A i \in Entries(w) :
                              ~Ahead(Append(w, i))' =>
                                 record[ChunkIndex(input[Append(w, i)])] # "missing"
    <3>1. Asked' = Asked /\ \A w : Entries(w)' = Entries(w) /\ HasChunk(w)' = HasChunk(w)
      BY <1>1, SameInput
    <3> QED BY <1>1, <3>1 DEF RecordInv
  <2>2. /\ ~Ahead(w) /\ HasChunk(w) => record[input[w].idx] = "good"
        /\ \A i \in Entries(w) :
              ~Ahead(Append(w, i)) => record[ChunkIndex(input[Append(w, i)])] # "missing"
    BY <2>1 DEF MergingInv, RecordInv
  <2>3. \A i \in Entries(w) : Append(w, i) \in DOMAIN input
    BY <1>1, EntriesAreFields DEF Asked
  <2> QED BY <1>3, <1>7, <2>2, <2>3
<1> QED BY <1>1, <1>5, <1>6, <1>9, <1>10 DEF MergingInv

\* Nothing happens, or an error or the end of the process, which change only the status.
LEMMA QuietInv ==
    ASSUME MergingInv, UNCHANGED <<given, nodes, call, stack>>,
           \/ status' = status
           \/ status' \in {"NotFound", "FailedPrecondition", "OutOfRange", "crash"}
    PROVE  MergingInv'
<1>1. /\ input' = input /\ brings' = brings /\ op' = op /\ record' = record
      /\ nodes' = nodes /\ call' = call /\ stack' = stack
      /\ status' = "OK" => status = "OK"
  BY DEF given
<1>2. TypeOK'
  BY <1>1 DEF MergingInv, TypeOK
<1>3. StackInv'
  <2>1. Asked' = Asked /\ \A w : Place(w)' = Place(w)
    BY <1>1, SameInput
  <2>2. \A k \in DOMAIN stack : LoopInv(k)'
    <3>1. \A k \in DOMAIN stack : LoopInv(k)
      BY DEF MergingInv, StackInv
    <3> QED BY <1>1, <3>1, KeptLoop
  <2>3. \A w : LeadTo(w)' <=> LeadTo(w)
    BY <1>1 DEF LeadTo
  <2> QED BY <1>1, <2>1, <2>2, <2>3 DEF MergingInv, StackInv
<1>4. \A w : Ahead(w)' <=> Ahead(w)
  BY <1>1 DEF Ahead
<1>5. Grown(nodes, nodes')
  BY <1>1 DEF Grown
<1>6. CountInv' /\ OrderInv'
  BY <1>1, <1>4, <1>5, CountKept, OrderKept
<1>7. RecordInv'
  <2>1. Asked' = Asked /\ \A w : Entries(w)' = Entries(w) /\ HasChunk(w)' = HasChunk(w)
    BY <1>1, SameInput
  <2> QED BY <1>1, <1>4, <2>1 DEF MergingInv, RecordInv
<1> QED BY <1>1, <1>2, <1>3, <1>6, <1>7 DEF MergingInv

\* What something was appended to is not empty.
LEMMA AppendNotEmpty ==
    ASSUME NEW s \in Seq(Nat), NEW e \in Nat
    PROVE  Append(s, e) # <<>>
BY AppendProperties

\* The outermost call is about to start: everything is ahead.
LEMMA InitInv == Init => MergingInv
<1> SUFFICES ASSUME Init
             PROVE  MergingInv
  OBVIOUS
<1>1. /\ input \in Inputs /\ brings \in Contents
      /\ op = "READ" => record \in Records
      /\ op \in {"MERGE", "READ"}
      /\ nodes = [p \in {<<>>} |-> <<>>] /\ call = Call(<<>>, <<>>) /\ stack = <<>>
      /\ status = "running"
  BY DEF Init
<1>2. Len(stack) = 0 /\ DOMAIN stack = {} /\ stack \in Seq(Frames)
  BY <1>1, EmptySeq
<1>3. call = [way |-> <<>>, at |-> <<>>] /\ call.way = <<>> /\ call.at = <<>>
  BY <1>1 DEF Call
<1>4. call \in Calls /\ call # None
  <2>1. <<>> \in Way /\ <<>> \in Path
    BY EmptySeq DEF Way, Path
  <2>2. call \in Calls
    BY <1>3, <2>1 DEF Calls
  <2>3. None \notin Calls
    BY MergerAssumption
  <2> QED BY <2>2, <2>3
<1>5. TypeOK
  <2>1. <<>> \in Seq(Chunk)
    BY EmptySeq
  <2> QED BY <1>1, <1>2, <1>3, <1>4, <2>1 DEF TypeOK
<1>6. \A w \in DOMAIN input : Ahead(w) /\ w \in Seq(Nat)
  <2>1. ASSUME NEW w \in DOMAIN input
        PROVE  Ahead(w) /\ w \in Seq(Nat)
    <3>1. w \in Seq(Nat) /\ Len(w) \in Nat
      BY <1>1, InputWays, LenProperties DEF Way
    <3>2. IsPrefix(<<>>, w)
      BY <3>1 DEF IsPrefix
    <3> QED BY <1>3, <1>4, <3>1, <3>2 DEF Ahead
  <2> QED BY <2>1
<1>7. StackInv
  <2>1. <<>> \in Asked /\ Place(<<>>) = <<>>
    BY <1>1, AskedRoot
  <2>2. LeadTo(<<>>)
    BY DEF LeadTo
  <2> QED BY <1>1, <1>2, <1>3, <2>1, <2>2 DEF StackInv
<1>8. CountInv
  <2>1. ASSUME NEW p, NEW c \in Chunk
        PROVE  Cardinality(Merged(p, c)) + Cardinality({w \in Placements(p, c) : Ahead(w)})
                  = Cardinality(Placements(p, c))
    <3>1. Merged(p, c) = {}
      BY <1>1 DEF Merged
    <3>2. {w \in Placements(p, c) : Ahead(w)} = Placements(p, c)
      BY <1>6 DEF Placements, Asked
    <3>3. IsFiniteSet(DOMAIN input) /\ Placements(p, c) \in SUBSET DOMAIN input
      BY <1>1, InputWays DEF Placements, Asked
    <3>4. IsFiniteSet(Placements(p, c))
      BY <3>3, FS_Subset
    <3>5. Cardinality(Placements(p, c)) \in Nat
      BY <3>4, FS_CardinalityType
    <3>6. Cardinality({}) = 0
      BY FS_EmptySet
    <3>7. Cardinality(Merged(p, c)) = 0
      BY <3>1, <3>6
    <3>8. Cardinality({w \in Placements(p, c) : Ahead(w)}) = Cardinality(Placements(p, c))
      BY <3>2
    <3> QED BY <3>5, <3>7, <3>8
  <2> QED BY <2>1 DEF CountInv
<1>9. \A w \in Asked : Ahead(w) /\ \A i \in Entries(w) : Ahead(Append(w, i))
                                                        /\ Append(w, i) # <<>>
  <2>1. ASSUME NEW w \in Asked, NEW i \in Entries(w)
        PROVE  Append(w, i) \in DOMAIN input /\ Append(w, i) # <<>>
    <3>1. w \in DOMAIN input /\ w \in Seq(Nat) /\ i \in Nat
      BY <1>6 DEF Asked, Entries
    <3>2. Append(w, i) \in DOMAIN input
      BY <1>1, <3>1, EntriesAreFields
    <3>3. Append(w, i) # <<>>
      BY <3>1, AppendNotEmpty
    <3> QED BY <3>2, <3>3
  <2> QED BY <1>6, <2>1 DEF Asked
<1>10. RecordInv /\ OrderInv
  BY <1>3, <1>9 DEF RecordInv, OrderInv
<1> QED BY <1>1, <1>5, <1>7, <1>8, <1>10 DEF MergingInv

------------------------------------------------------------------------------
(* One step per action *)

\* The order of the list is one that the loop of Merge may take.
LEMMA ListOrder ==
    ASSUME NEW w, input[w].size \in Nat, op = "MERGE"
    PROVE  Permitted(w, AsListed(w))
<1> DEFINE o == AsListed(w)
<1>1. o \in Seq(Entries(w)) /\ DOMAIN o = Entries(w) /\ \A i \in Entries(w) : o[i] = i
  BY DEF Entries, AsListed
<1>2. Range(o) = Entries(w) /\ IsInjective(o)
  BY <1>1 DEF Range, IsInjective
<1>3. \A m, n \in DOMAIN o : m < n => o[m] < o[n]
  BY <1>1
<1> HIDE DEF o
<1>4. Permitted(w, o)
  BY <1>1, <1>2, <1>3 DEF Permitted
<1> QED BY <1>4 DEF o

\* So is any that std::sort may leave for that of ReadFields.
LEMMA SortedOrder ==
    ASSUME NEW w, input[w].size \in Nat, op = "READ", NEW o \in Sorted(w)
    PROVE  Permitted(w, o)
<1>1. OrderOf(w, o, input[w].size) /\ Range(o) = Entries(w)
  BY SortedOrders
<1>2. DOMAIN o = 1..input[w].size
  BY <1>1, LenProperties DEF OrderOf
<1> QED BY <1>1, <1>2 DEF OrderOf, Permitted

\* What the entry is that a loop leaves behind, and where it leads: Navigate only adds
\* nodes, and for a message it ends at the message's place.
LEMMA TakenEntry ==
    ASSUME MergingInv, NEW u, NEW h, Taken(u, h)
    PROVE  /\ CurrentWay = Append(u, h) /\ Current = Entry(u, h)
           /\ u \in Asked /\ h \in Entries(u) /\ Entry(u, h) \in ChunkedField
           /\ Current.tag # <<>> =>
                 /\ Grown(nodes, Target.nodes) /\ Target.at \in DOMAIN Target.nodes
                 /\ OfMessage(Entry(u, h)) /\ Target.alive => Target.at = Place(Append(u, h))
<1>0. PICK n, at : n = Len(stack) /\ at = Last(stack).at
  OBVIOUS
<1>1. /\ n \in Nat /\ n # 0 /\ stack[n].way = u /\ Last(stack) = stack[n]
      /\ u \in Asked /\ h \in Entries(u)
  BY <1>0, TakenStack
<1>2. CurrentWay = Append(u, h) /\ Current = Entry(u, h)
  BY DEF Taken, CurrentWay, Current, Entry
<1>3. input \in Inputs /\ u \in DOMAIN input /\ Entry(u, h) \in ChunkedField
  BY <1>1, EntriesAreFields DEF MergingInv, Asked
<1>4. at = Place(u) /\ at \in Path /\ at \in DOMAIN nodes
  <2>1. LoopInv(n) /\ DOMAIN stack = 1..n /\ n \in 1..n
    BY <1>0, <1>1, StackParts
  <2>2. at = Place(u)
    BY <1>0, <1>1, <2>1 DEF LoopInv
  <2>3. at \in DOMAIN nodes
    BY <1>0, <1>1, <2>1 DEF MergingInv, TypeOK
  <2>4. at \in Path
    BY <1>1, <1>3, <2>2, PlaceEntry
  <2> QED BY <2>2, <2>3, <2>4
<1>5. ASSUME Current.tag # <<>>
      PROVE  /\ Grown(nodes, Target.nodes) /\ Target.at \in DOMAIN Target.nodes
             /\ OfMessage(Entry(u, h)) /\ Target.alive => Target.at = Place(Append(u, h))
  <2>1. PICK s : s = GetFieldTypes(Current.tag)
    OBVIOUS
  <2>2. Current.tag \in Tag
    BY <1>2, <1>3, FieldParts
  <2>3. PICK l \in Field : StepsOf(s, l)
    BY <1>5, <2>1, <2>2, FieldTypes
  <2>4. PICK k : k = Len(s)
    OBVIOUS
  <2>5. s \in Path /\ k \in Nat /\ k # 0 /\ s[k][1] = l
        /\ \A j \in 1..(k - 1) : Kind[s[j][1]] \in MessageKinds
    BY <2>3, <2>4, LenProperties, EmptySeq DEF StepsOf, Path
  <2>6. PICK t : t = Target
    OBVIOUS
  <2>7. t = Navigate(nodes, at, s)
    BY <1>0, <2>1, <2>6 DEF Target
  <2>8. AfterSteps(t, nodes, at, s, k)
    BY <1>4, <2>4, <2>5, <2>7, NavigateArrives
  <2>9. Grown(nodes, t.nodes) /\ t.at \in DOMAIN t.nodes
    BY <2>8 DEF AfterSteps
  <2>10. ASSUME OfMessage(Entry(u, h)), t.alive
         PROVE  t.at = Place(Append(u, h))
    <3>1. Last(s)[1] = l
      BY <2>4, <2>5 DEF Last
    <3>2. Kind[l] \in MessageKinds
      BY <1>2, <2>1, <2>10, <3>1 DEF OfMessage, LeafKind
    <3>3. \A j \in 1..k : Kind[s[j][1]] \in MessageKinds
      <4>1. ASSUME NEW j \in 1..k
            PROVE  Kind[s[j][1]] \in MessageKinds
        <5>1. j = k \/ j \in 1..(k - 1)
          BY <2>5
        <5> QED BY <2>5, <3>2, <5>1
      <4> QED BY <4>1
    <3>4. t.at = at \o SubSeq(s, 1, k)
      BY <2>8, <2>10, <3>3 DEF AfterSteps
    <3>5. SubSeq(s, 1, k) = s
      BY <2>4, <2>5, SubSeqFull DEF Path
    <3>6. Place(Append(u, h)) = Place(u) \o s
      BY <1>1, <1>2, <1>3, <2>1, <2>10, PlaceEntry
    <3> QED BY <1>4, <3>4, <3>5, <3>6
  <2> QED BY <2>6, <2>9, <2>10
<1> QED BY <1>1, <1>2, <1>3, <1>5

\* Every action keeps the invariant.
LEMMA StepInv == MergingInv /\ [Next]_vars => MergingInv'
<1> SUFFICES ASSUME MergingInv, [Next]_vars
             PROVE  MergingInv'
  OBVIOUS
<1>1. call # None => call.way \in DOMAIN input /\ input[call.way].size \in Nat
  <2>1. input \in Inputs /\ (call # None => call.way \in Asked)
    BY StackParts
  <2> QED BY <2>1, EntriesAreFields DEF Asked
<1>2. ASSUME Merge
      PROVE  MergingInv'
  <2>1. /\ call # None /\ status = "running" /\ op = "MERGE"
        /\ Start(MergeOwnChunk, AsListed(call.way))
    BY <1>2 DEF Merge, Running
  <2>2. Permitted(call.way, AsListed(call.way))
    BY <1>1, <2>1, ListOrder
  <2> QED BY <2>1, <2>2, StartInv
<1>3. ASSUME ReadFields
      PROVE  MergingInv'
  <2>1. /\ call # None /\ status = "running" /\ op = "READ" /\ OwnRecord = "good"
    BY <1>3 DEF ReadFields, Running
  <2>2. PICK order \in Sorted(call.way) : Start(MergeOwnChunk, order)
    BY <1>3 DEF ReadFields
  <2>3. Permitted(call.way, order)
    BY <1>1, <2>1, SortedOrder
  <2> QED BY <2>1, <2>2, <2>3, StartInv
<1>4. ASSUME ReadFieldsNoChunk \/ ReadFieldsGarbled
      PROVE  MergingInv'
  BY <1>4, QuietInv DEF ReadFieldsNoChunk, ReadFieldsGarbled, Stop
<1>5. ASSUME Return
      PROVE  MergingInv'
  BY <1>5, ReturnInv
<1>6. ASSUME ProcessFieldNoChunk \/ ProcessFieldCrash \/ ProcessFieldOutOfRange
      PROVE  MergingInv'
  BY <1>6, QuietInv DEF ProcessFieldNoChunk, ProcessFieldCrash, ProcessFieldOutOfRange, Stop
<1>7. ASSUME AtEntry, ChunkThere, Advance, given' = given, status' = status
      PROVE  /\ ProcessFieldOfParent => MergingInv'
             /\ ProcessFieldMessage => MergingInv'
             /\ ProcessFieldScalar => MergingInv'
  <2>1. PICK u, h : u = Last(stack).way /\ h = Head(Last(stack).todo)
    OBVIOUS
  <2>2. Taken(u, h) /\ call = None /\ status = "running"
    BY <1>7, <2>1 DEF Taken, AtEntry, InLoop, Running, given
  <2>3. /\ CurrentWay = Append(u, h) /\ Current = Entry(u, h)
        /\ Current.tag # <<>> =>
              /\ Grown(nodes, Target.nodes) /\ Target.at \in DOMAIN Target.nodes
              /\ OfMessage(Entry(u, h)) /\ Target.alive => Target.at = Place(Append(u, h))
    BY <2>2, TakenEntry
  <2>4. op = "READ" => record[ChunkIndex(Entry(u, h))] # "missing"
    BY <1>7, <2>3 DEF ChunkThere
  <2>5. ASSUME ProcessFieldOfParent
        PROVE  MergingInv'
    <3>1. nodes' = nodes /\ call' = None /\ ~OfMessage(Entry(u, h))
      BY <2>2, <2>3, <2>5 DEF ProcessFieldOfParent, OfMessage
    <3>2. Grown(nodes, nodes')
      BY <3>1 DEF Grown
    <3> QED BY <1>7, <2>2, <2>4, <3>1, <3>2, TakenInv
  <2>6. ASSUME ProcessFieldMessage
        PROVE  MergingInv'
    <3>1. PICK p : p = Target.at
      OBVIOUS
    <3>2. /\ Current.tag # <<>> /\ LeafKind(Current.tag) \in MessageKinds /\ Target.alive
          /\ nodes' = Target.nodes /\ call' = Call(CurrentWay, Target.at)
      BY <2>6 DEF ProcessFieldMessage
    <3>3. OfMessage(Entry(u, h))
      BY <2>3, <3>2 DEF OfMessage
    <3>4. /\ Grown(nodes, nodes') /\ p \in DOMAIN nodes' /\ p = Place(Append(u, h))
          /\ call' = Call(Append(u, h), p)
      BY <2>3, <3>1, <3>2, <3>3
    <3> QED BY <1>7, <2>2, <2>4, <3>3, <3>4, CalledInv
  <2>7. ASSUME ProcessFieldScalar
        PROVE  MergingInv'
    <3>1. /\ Current.tag # <<>> /\ LeafKind(Current.tag) \in {"string", "strings"}
          /\ nodes' = Target.nodes /\ call' = call
      BY <2>7 DEF ProcessFieldScalar
    <3>2. ~OfMessage(Entry(u, h))
      BY <2>3, <3>1 DEF OfMessage, MessageKinds
    <3>3. Grown(nodes, nodes') /\ call' = None
      BY <2>2, <2>3, <3>1
    <3> QED BY <1>7, <2>2, <2>4, <3>2, <3>3, TakenInv
  <2> QED BY <2>5, <2>6, <2>7
<1>8. ASSUME ProcessFieldOfParent
      PROVE  MergingInv'
  BY <1>7, <1>8 DEF ProcessFieldOfParent
<1>9. ASSUME ProcessFieldMessage
      PROVE  MergingInv'
  BY <1>7, <1>9 DEF ProcessFieldMessage
<1>10. ASSUME ProcessFieldScalar
       PROVE  MergingInv'
  BY <1>7, <1>10 DEF ProcessFieldScalar
<1>11. ASSUME UNCHANGED vars
       PROVE  MergingInv'
  BY <1>11, QuietInv DEF vars
<1> QED BY <1>2, <1>3, <1>4, <1>5, <1>6, <1>8, <1>9, <1>10, <1>11 DEF Next

------------------------------------------------------------------------------
(* Where the steps of a tag end *)

\* Where each step of s ends among the first n elements of a tag that has no keys.
Ends(t, s, e, n) ==
    /\ e \in [0..Len(s) -> 0..n] /\ e[0] = 0 /\ e[Len(s)] = n
    /\ \A m \in 1..Len(s) :
          /\ t[e[m - 1] + 1] = <<"field", s[m][1]>>
          /\ \/ Len(s[m]) = 1 /\ e[m] = e[m - 1] + 1
             \/ Len(s[m]) = 2 /\ e[m] = e[m - 1] + 2 /\ t[e[m]] = <<"index", s[m][2]>>

\* The next element is a field: a step of its own.
LEMMA EndsField ==
    ASSUME NEW t, NEW s \in Path, NEW e, NEW k \in Nat, Ends(t, s, e, k),
           NEW x \in Field, t[k + 1] = <<"field", x>>
    PROVE  \E g : Ends(t, Append(s, <<x>>), g, k + 1)
<1> DEFINE r == Append(s, <<x>>)
           l == Len(s)
           j == k + 1
           n == l + 1
           g == [m \in 0..n |-> IF m = n THEN j ELSE e[m]]
<1>1. s \in Seq(Seq(Element)) /\ l \in Nat /\ x \in Element
  BY MergerAssumption, LenProperties DEF Path, Element
<1>2. <<x>> \in Seq(Element) /\ Len(<<x>>) = 1 /\ <<x>>[1] = x
  BY <1>1
<1>3. Len(r) = n /\ r[n] = <<x>> /\ \A m \in 1..l : r[m] = s[m]
  BY <1>1, <1>2, AppendProperties
<1> HIDE DEF r
<1>4. e \in [0..l -> 0..k] /\ e[0] = 0 /\ e[l] = k
  BY DEF Ends
<1>5. g \in [0..n -> 0..j] /\ g[0] = 0 /\ g[n] = j /\ \A m \in 0..l : g[m] = e[m]
  BY <1>1, <1>4
<1> HIDE DEF g
<1>6. ASSUME NEW m \in 1..n
      PROVE  /\ t[g[m - 1] + 1] = <<"field", r[m][1]>>
             /\ \/ Len(r[m]) = 1 /\ g[m] = g[m - 1] + 1
                \/ Len(r[m]) = 2 /\ g[m] = g[m - 1] + 2 /\ t[g[m]] = <<"index", r[m][2]>>
  <2>1. CASE m \in 1..l
    <3>1. m \in 0..l /\ m - 1 \in 0..l
      BY <1>1, <2>1
    <3>2. g[m] = e[m] /\ g[m - 1] = e[m - 1] /\ r[m] = s[m]
      BY <1>3, <1>5, <2>1, <3>1
    <3> QED BY <2>1, <3>2 DEF Ends
  <2>2. CASE m = n
    <3>1. m - 1 = l /\ l \in 0..l
      BY <1>1, <2>2
    <3>2. g[m - 1] = k /\ g[m] = k + 1 /\ r[m] = <<x>>
      BY <1>3, <1>4, <1>5, <2>2, <3>1
    <3> QED BY <1>2, <3>2
  <2> QED BY <1>1, <2>1, <2>2
<1>7. Ends(t, r, g, j)
  BY <1>3, <1>5, <1>6 DEF Ends
<1> QED BY <1>7 DEF r

\* It is an index: the last step gets it.
LEMMA EndsIndex ==
    ASSUME NEW t, NEW s \in Path, NEW e, NEW k \in Nat, k # 0, Ends(t, s, e, k),
           t[k][1] = "field", NEW i \in Nat, t[k + 1] = <<"index", i>>
    PROVE  /\ s # <<>>
           /\ \E g : Ends(t, [s EXCEPT ![Len(s)] = Append(@, i)], g, k + 1)
<1> DEFINE l == Len(s)
           j == k + 1
           x == Append(s[l], i)
           r == [s EXCEPT ![l] = x]
           g == [e EXCEPT ![l] = j]
<1>1. s \in Seq(Seq(Element)) /\ l \in Nat /\ i \in Element
  BY LenProperties DEF Path, Element
<1>2. e \in [0..l -> 0..k] /\ e[0] = 0 /\ e[l] = k
  BY DEF Ends
<1>3. l # 0 /\ l \in 1..l /\ s # <<>>
  BY <1>1, <1>2
<1>4. s[l] \in Seq(Element)
  BY <1>1, <1>3, ElementOfSeq
<1>5. PICK b \in 0..k : b = e[l - 1]
  BY <1>2, <1>3
<1>6. t[b + 1] = <<"field", s[l][1]>> /\ Len(s[l]) = 1 /\ k = b + 1
  <2>1. /\ t[b + 1] = <<"field", s[l][1]>>
        /\ \/ Len(s[l]) = 1 /\ e[l] = b + 1
           \/ Len(s[l]) = 2 /\ e[l] = b + 2 /\ t[e[l]] = <<"index", s[l][2]>>
    BY <1>3, <1>5 DEF Ends
  <2>2. ~(t[k] = <<"index", s[l][2]>>)
    OBVIOUS
  <2> QED BY <1>2, <2>1, <2>2
<1>7. x \in Seq(Element) /\ Len(x) = 2 /\ x[1] = s[l][1] /\ x[2] = i
  <2>1. PICK y : y = s[l]
    OBVIOUS
  <2>2. y \in Seq(Element) /\ Len(y) = 1
    BY <1>4, <1>6, <2>1
  <2>3. Append(y, i) \in Seq(Element) /\ Len(Append(y, i)) = 2
        /\ Append(y, i)[1] = y[1] /\ Append(y, i)[2] = i
    <3>0. y \in Seq(Element) /\ i \in Element
      BY <1>1, <2>2
    <3>1. /\ Append(y, i) \in Seq(Element) /\ Len(Append(y, i)) = Len(y) + 1
          /\ \A m \in 1..Len(y) : Append(y, i)[m] = y[m]
          /\ Append(y, i)[Len(y) + 1] = i
      BY <3>0, AppendProperties
    <3>2. 1 \in 1..Len(y) /\ Len(y) + 1 = 2
      BY <2>2
    <3> QED BY <3>1, <3>2
  <2> QED BY <2>1, <2>3
<1> HIDE DEF x
<1>8. r \in Seq(Seq(Element)) /\ Len(r) = l /\ \A m \in 1..l : r[m] = IF m = l THEN x ELSE s[m]
  BY <1>1, <1>3, <1>7, ExceptSeq
<1> HIDE DEF r
<1>9. g \in [0..l -> 0..j] /\ g[0] = 0 /\ g[l] = j /\ \A m \in 0..l : m # l => g[m] = e[m]
  BY <1>1, <1>2, <1>3
<1> HIDE DEF g
<1>10. ASSUME NEW m \in 1..l
       PROVE  /\ t[g[m - 1] + 1] = <<"field", r[m][1]>>
              /\ \/ Len(r[m]) = 1 /\ g[m] = g[m - 1] + 1
                 \/ Len(r[m]) = 2 /\ g[m] = g[m - 1] + 2 /\ t[g[m]] = <<"index", r[m][2]>>
  <2>1. m \in 0..l /\ m - 1 \in 0..l /\ m - 1 # l
    BY <1>1
  <2>2. g[m - 1] = e[m - 1]
    BY <1>9, <2>1
  <2>3. CASE m # l
    <3>1. g[m] = e[m] /\ r[m] = s[m]
      BY <1>8, <1>9, <2>1, <2>3
    <3> QED BY <2>2, <3>1 DEF Ends
  <2>4. CASE m = l
    <3>1. g[m - 1] = b /\ g[m] = k + 1 /\ r[m] = x
      BY <1>5, <1>8, <1>9, <2>2, <2>4
    <3>2. g[m] = b + 2
      BY <1>6, <3>1
    <3> QED BY <1>6, <1>7, <3>1, <3>2
  <2> QED BY <2>3, <2>4
<1>11. Ends(t, r, g, j)
  BY <1>8, <1>9, <1>10 DEF Ends
<1> QED BY <1>3, <1>11 DEF r, x

\* A tag without keys, cut where its steps end.
LEMMA TagEnds ==
    ASSUME NEW t \in Tag, NoKeys(t)
    PROVE  GetFieldTypes(t) \in Path /\ \E e : Ends(t, GetFieldTypes(t), e, Len(t))
<1> DEFINE n == Len(t)
<1>1. n \in Nat /\ DOMAIN t = 1..n
  BY TagElements
<1>2. PICK f : Loops(f, "tag", t, <<>>, n) /\ GetFieldTypes(t) = f[n]
  BY <1>1, TagLoops
<1>3. f[0] = <<>> /\ \A k \in 0..(n - 1) : f[k + 1] = AddFieldIndex(f[k], t[k + 1])
  <2>1. f[0] = <<>> /\ \A k \in 0..(n - 1) : f[k + 1] = Round("tag", t, f[k], k + 1)
    BY <1>1, <1>2, LoopRounds
  <2> QED BY <2>1 DEF Round
<1> DEFINE P == {k \in Nat : k <= n => f[k] \in Path /\ \E e : Ends(t, f[k], e, k)}
<1>4. 0 \in P
  <2>1. <<>> \in Path /\ Len(<<>>) = 0
    BY EmptySeq DEF Path
  <2> DEFINE e == [m \in 0..0 |-> 0]
  <2>2. e \in [0..0 -> 0..0] /\ e[0] = 0
    OBVIOUS
  <2> HIDE DEF e
  <2>3. Ends(t, <<>>, e, 0)
    BY <2>1, <2>2 DEF Ends
  <2> QED BY <1>3, <2>1, <2>3
<1>5. ASSUME NEW k \in Nat, k \in P
      PROVE  k + 1 \in P
  <2> DEFINE d == k + 1
             x == t[d][2]
  <2> SUFFICES ASSUME d <= n
               PROVE  f[d] \in Path /\ \E e : Ends(t, f[d], e, d)
    OBVIOUS
  <2>1. d \in 1..n /\ k \in 0..(n - 1) /\ k <= n
    BY <1>1
  <2>2. f[d] = AddFieldIndex(f[k], t[d])
    BY <1>3, <2>1
  <2>3. PICK s, e : s = f[k] /\ s \in Path /\ Ends(t, s, e, k)
    BY <1>5, <2>1
  <2>4. /\ t[d] = <<t[d][1], x>> /\ t[d][1] \in {"field", "index"} /\ x \in Nat
        /\ t[d][1] = "field" => x \in Field
    BY <1>1, <2>1, TagElements DEF NoKeys
  <2>5. CASE t[d][1] = "field"
    <3>1. x \in Field /\ t[k + 1] = <<"field", x>>
      BY <2>4, <2>5
    <3>2. f[d] = Append(s, <<x>>)
      BY <2>2, <2>3, <2>5 DEF AddFieldIndex
    <3>3. \E g : Ends(t, Append(s, <<x>>), g, k + 1)
      <4> HIDE DEF x
      <4> QED BY <2>3, <3>1, EndsField
    <3>4. Append(s, <<x>>) \in Path
      <4>1. x \in Element /\ s \in Seq(Seq(Element))
        BY <2>3, <2>4 DEF Element, Path
      <4>2. <<x>> \in Seq(Element)
        BY <4>1
      <4> HIDE DEF x
      <4> QED BY <4>1, <4>2, AppendProperties DEF Path, Element
    <3> QED BY <3>2, <3>3, <3>4
  <2>6. CASE t[d][1] = "index"
    <3>1. t[k + 1] = <<"index", x>> /\ t[d][1] # "field"
      BY <2>4, <2>6
    <3>2. k # 0
      <4>1. CASE k = 0
        <5>1. d = 1 /\ t # <<>>
          <6>1. Len(<<>>) = 0
            BY EmptySeq
          <6> QED BY <2>1, <4>1, <6>1
        <5> QED BY <3>1, <5>1 DEF Tag, FollowsDescriptor
      <4> QED BY <4>1
    <3>3. t[k][1] = "field"
      BY <2>1, <3>1, <3>2, TagRules
    <3>4. /\ s # <<>>
          /\ \E g : Ends(t, [s EXCEPT ![Len(s)] = Append(@, x)], g, k + 1)
      <4> HIDE DEF x
      <4> QED BY <2>3, <2>4, <3>1, <3>2, <3>3, EndsIndex
    <3>5. f[d] = [s EXCEPT ![Len(s)] = Append(@, x)]
      BY <2>2, <2>3, <3>1 DEF AddFieldIndex
    <3>6. [s EXCEPT ![Len(s)] = Append(@, x)] \in Path
      <4> DEFINE l == Len(s)
                 y == Append(s[l], x)
      <4>1. s \in Seq(Seq(Element)) /\ x \in Element /\ l \in Nat /\ l # 0
        BY <2>3, <2>4, <3>4, EmptySeq, LenProperties DEF Element, Path
      <4>2. l \in 1..l /\ s[l] \in Seq(Element)
        BY <4>1, ElementOfSeq
      <4>3. y \in Seq(Element)
        <5> HIDE DEF x, l
        <5> QED BY <4>1, <4>2, AppendProperties
      <4> HIDE DEF y
      <4>4. [s EXCEPT ![l] = y] \in Seq(Seq(Element))
        BY <4>1, <4>2, <4>3, ExceptSeq
      <4> QED BY <4>4 DEF y, Path, Element
    <3> QED BY <3>4, <3>5, <3>6
  <2> QED BY <2>4, <2>5, <2>6
<1> HIDE DEF P
<1>6. Nat \subseteq P
  BY <1>4, <1>5, SetInduction
<1> QED BY <1>1, <1>2, <1>6 DEF P

\* Two paths have the first m steps in common.
SameSteps(s, r, m) == m <= Len(s) /\ m <= Len(r) /\ \A k \in 1..m : s[k] = r[k]

\* Tags whose first m steps are the same are the same up to where these end.
LEMMA SameEnds ==
    ASSUME NEW t1, NEW s1, NEW e1, NEW n1 \in Nat, Ends(t1, s1, e1, n1), Len(s1) \in Nat,
           NEW t2, NEW s2, NEW e2, NEW n2 \in Nat, Ends(t2, s2, e2, n2), Len(s2) \in Nat,
           NEW m \in Nat, SameSteps(s1, s2, m)
    PROVE  e1[m] = e2[m] /\ e1[m] \in 0..n1 /\ \A d \in 1..e1[m] : t1[d] = t2[d]
<1>0. m <= Len(s1) /\ m <= Len(s2) /\ \A k \in 1..m : s1[k] = s2[k]
  BY DEF SameSteps
<1> DEFINE P == {k \in Nat : k <= m => e1[k] = e2[k] /\ \A d \in 1..e1[k] : t1[d] = t2[d]}
<1>1. 0 \in P
  BY DEF Ends
<1>2. ASSUME NEW j \in Nat, j \in P
      PROVE  j + 1 \in P
  <2> DEFINE k == j + 1
  <2> SUFFICES ASSUME k <= m
               PROVE  e1[k] = e2[k] /\ \A d \in 1..e1[k] : t1[d] = t2[d]
    OBVIOUS
  <2>1. /\ k \in 1..m /\ k \in 1..Len(s1) /\ k \in 1..Len(s2) /\ k - 1 = j /\ j <= m
        /\ j \in 0..Len(s1)
    BY <1>0
  <2>2. s1[k] = s2[k]
    BY <1>0, <2>1
  <2>3. PICK b \in 0..n1 : b = e1[j]
    BY <2>1 DEF Ends
  <2>4. e2[j] = b /\ \A d \in 1..b : t1[d] = t2[d]
    BY <1>2, <2>1, <2>3
  <2> HIDE DEF k
  <2>5. /\ t1[b + 1] = <<"field", s1[k][1]>>
        /\ \/ Len(s1[k]) = 1 /\ e1[k] = b + 1
           \/ Len(s1[k]) = 2 /\ e1[k] = b + 2 /\ t1[b + 2] = <<"index", s1[k][2]>>
    BY <2>1, <2>3 DEF Ends
  <2>6. /\ t2[b + 1] = <<"field", s1[k][1]>>
        /\ \/ Len(s1[k]) = 1 /\ e2[k] = b + 1
           \/ Len(s1[k]) = 2 /\ e2[k] = b + 2 /\ t2[b + 2] = <<"index", s1[k][2]>>
    BY <2>1, <2>2, <2>4 DEF Ends
  <2>7. t1[b + 1] = t2[b + 1] /\ e1[k] = e2[k] /\ (e1[k] = b + 2 => t1[b + 2] = t2[b + 2])
        /\ e1[k] \in {b + 1, b + 2}
    BY <2>5, <2>6
  <2>8. ASSUME NEW d \in 1..e1[k]
        PROVE  t1[d] = t2[d]
    <3>1. d \in 1..b \/ d = b + 1 \/ (e1[k] = b + 2 /\ d = b + 2)
      BY <2>7
    <3> QED BY <2>4, <2>7, <3>1
  <2> QED BY <2>7, <2>8
<1> HIDE DEF P
<1>3. Nat \subseteq P
  BY <1>1, <1>2, SetInduction
<1>4. e1[m] \in 0..n1
  BY <1>0 DEF Ends
<1> QED BY <1>3, <1>4 DEF P

HasField(t, d, f) == t[d] = <<"field", f>>
HasIndex(t, d, i) == t[d] = <<"index", i>>

\* Where step m ends.
LEMMA EndsAt ==
    ASSUME NEW t, NEW s, NEW e, NEW n \in Nat, Ends(t, s, e, n), Len(s) \in Nat,
           NEW m \in 1..Len(s), NEW b, b = e[m - 1]
    PROVE  /\ b \in 0..n /\ e[m] \in 0..n
           /\ HasField(t, b + 1, s[m][1])
           /\ \/ Len(s[m]) = 1 /\ e[m] = b + 1
              \/ Len(s[m]) = 2 /\ e[m] = b + 2 /\ HasIndex(t, b + 2, s[m][2])
<1>1. m - 1 \in 0..Len(s) /\ m \in 0..Len(s)
  OBVIOUS
<1>2. b \in 0..n /\ e[m] \in 0..n
  BY <1>1 DEF Ends
<1> QED BY <1>2 DEF Ends, HasField, HasIndex

\* Step n is to element i of the list f.
ToElement(s, n, f, i) == /\ n <= Len(s) /\ Len(s[n]) = 2
                         /\ s[n][1] = f /\ s[n][2] = i /\ i \in Nat

\* The entry for the lower element of a list comes first.
LEMMA LowerElementLess ==
    ASSUME NEW a \in ChunkedField, NEW b \in ChunkedField, NoKeys(a.tag), NoKeys(b.tag),
           NEW s, NEW r, s = GetFieldTypes(a.tag), r = GetFieldTypes(b.tag),
           NEW m \in Nat, SameSteps(s, r, m), NEW f, NEW i, NEW j, i < j,
           ToElement(s, m + 1, f, i), ToElement(r, m + 1, f, j)
    PROVE  Less(a, b)
<1>1. a.tag \in Tag /\ b.tag \in Tag
  BY FieldParts
<1>2. PICK t1, t2, n1, n2 : t1 = a.tag /\ t2 = b.tag /\ n1 = Len(t1) /\ n2 = Len(t2)
  OBVIOUS
<1>3. /\ n1 \in Nat /\ DOMAIN t1 = 1..n1
      /\ n2 \in Nat /\ DOMAIN t2 = 1..n2
  BY <1>1, <1>2, TagElements
<1>4. PICK e1, e2 : Ends(t1, s, e1, n1) /\ Ends(t2, r, e2, n2)
  BY <1>1, <1>2, TagEnds
<1>5. s \in Path /\ r \in Path /\ Len(s) \in Nat /\ Len(r) \in Nat
  BY <1>1, TagEnds, LenProperties DEF Path
<1>6. e1[m] = e2[m] /\ e1[m] \in 0..n1 /\ \A d \in 1..e1[m] : t1[d] = t2[d]
  <2>1. /\ Ends(t1, s, e1, n1) /\ Ends(t2, r, e2, n2)
        /\ n1 \in Nat /\ n2 \in Nat /\ Len(s) \in Nat /\ Len(r) \in Nat
        /\ m \in Nat /\ SameSteps(s, r, m)
    BY <1>3, <1>4, <1>5
  <2> QED BY <2>1, SameEnds
<1>7. PICK c \in Nat : c = e1[m]
  BY <1>6
<1>8. PICK k : k = m + 1
  OBVIOUS
<1>9. /\ k \in 1..Len(s) /\ k \in 1..Len(r) /\ k - 1 = m
      /\ Len(s[k]) = 2 /\ s[k][1] = f /\ s[k][2] = i
      /\ Len(r[k]) = 2 /\ r[k][1] = f /\ r[k][2] = j
      /\ i \in Nat /\ j \in Nat
  BY <1>5, <1>8 DEF ToElement
<1>10. e1[k] = c + 2 /\ t1[c + 1] = <<"field", f>> /\ t1[c + 2] = <<"index", i>> /\ c + 2 \in 0..n1
  <2>1. c = e1[k - 1] /\ n1 \in Nat /\ Ends(t1, s, e1, n1) /\ Len(s) \in Nat /\ k \in 1..Len(s)
    BY <1>3, <1>4, <1>5, <1>7, <1>9
  <2>2. s[k][1] = f /\ s[k][2] = i /\ Len(s[k]) = 2
    BY <1>9
  <2>3. /\ e1[k] \in 0..n1
        /\ HasField(t1, c + 1, s[k][1])
        /\ \/ Len(s[k]) = 1 /\ e1[k] = c + 1
           \/ Len(s[k]) = 2 /\ e1[k] = c + 2 /\ HasIndex(t1, c + 2, s[k][2])
    BY <2>1, EndsAt
  <2> QED BY <2>2, <2>3 DEF HasField, HasIndex
<1>11. e2[k] = c + 2 /\ t2[c + 1] = <<"field", f>> /\ t2[c + 2] = <<"index", j>> /\ c + 2 \in 0..n2
  <2>1. c = e2[k - 1] /\ n2 \in Nat /\ Ends(t2, r, e2, n2) /\ Len(r) \in Nat /\ k \in 1..Len(r)
    BY <1>3, <1>4, <1>5, <1>6, <1>7, <1>9
  <2>2. r[k][1] = f /\ r[k][2] = j /\ Len(r[k]) = 2
    BY <1>9
  <2>3. /\ e2[k] \in 0..n2
        /\ HasField(t2, c + 1, r[k][1])
        /\ \/ Len(r[k]) = 1 /\ e2[k] = c + 1
           \/ Len(r[k]) = 2 /\ e2[k] = c + 2 /\ HasIndex(t2, c + 2, r[k][2])
    BY <2>1, EndsAt
  <2> QED BY <2>2, <2>3 DEF HasField, HasIndex
<1>12. PICK d : d = c + 2
  OBVIOUS
<1>13. d \in 1..n1 /\ d \in 1..n2 /\ t1[d] = <<"index", i>> /\ t2[d] = <<"index", j>>
  BY <1>10, <1>11, <1>12
<1>14. SameBefore(t1, t2, d)
  <2>1. ASSUME NEW x \in 1..(d - 1)
        PROVE  t1[x] = t2[x] /\ t1[x][1] # "key"
    <3>1. x \in 1..n1 /\ (x \in 1..c \/ x = c + 1)
      BY <1>3, <1>12, <1>13
    <3>2. t1[x] = t2[x]
      BY <1>6, <1>7, <1>10, <1>11, <3>1
    <3>3. t1[x][1] # "key"
      BY <1>2, <1>3, <3>1 DEF NoKeys
    <3> QED BY <3>2, <3>3
  <2> QED BY <2>1 DEF SameBefore
<1>15. Diverge(t1, t2, d)
  <2>1. t1[d] # t2[d]
    BY <1>9, <1>13
  <2> QED BY <1>2, <1>13, <1>14, <2>1 DEF Diverge
<1>16. t1[d][1] # "key" /\ t1[d][2] = i /\ t2[d][2] = j
  BY <1>13
<1> QED BY <1>2, <1>9, <1>15, <1>16, LessDiverging

\* The entry for a message comes before those for what is inside it.
LEMMA AroundLess ==
    ASSUME NEW a \in ChunkedField, NEW b \in ChunkedField, NoKeys(a.tag), NoKeys(b.tag),
           NEW s, NEW r, s = GetFieldTypes(a.tag), r = GetFieldTypes(b.tag),
           Len(s) < Len(r), SameSteps(s, r, Len(s))
    PROVE  Less(a, b)
<1>1. a.tag \in Tag /\ b.tag \in Tag
  BY FieldParts
<1>2. PICK t1, t2, n1, n2 : t1 = a.tag /\ t2 = b.tag /\ n1 = Len(t1) /\ n2 = Len(t2)
  OBVIOUS
<1>3. /\ n1 \in Nat /\ DOMAIN t1 = 1..n1
      /\ n2 \in Nat /\ DOMAIN t2 = 1..n2
  BY <1>1, <1>2, TagElements
<1>4. PICK e1, e2 : Ends(t1, s, e1, n1) /\ Ends(t2, r, e2, n2)
  BY <1>1, <1>2, TagEnds
<1>5. s \in Path /\ r \in Path /\ Len(s) \in Nat /\ Len(r) \in Nat
  BY <1>1, TagEnds, LenProperties DEF Path
<1>6. PICK m \in Nat : m = Len(s)
  BY <1>5
<1>7. e1[m] = e2[m] /\ \A d \in 1..e1[m] : t1[d] = t2[d]
  <2>1. m \in Nat /\ SameSteps(s, r, m)
    BY <1>6
  <2>2. n1 \in Nat /\ n2 \in Nat /\ Len(s) \in Nat /\ Len(r) \in Nat
    BY <1>3, <1>5
  <2> QED BY <1>4, <2>1, <2>2, SameEnds
<1>8. e1[m] = n1
  BY <1>4, <1>6 DEF Ends
<1>9. PICK k : k = m + 1
  OBVIOUS
<1>10. k \in 1..Len(r) /\ k - 1 = m /\ k \in 0..Len(r)
  BY <1>5, <1>6, <1>9
<1>11. e2[k] \in 0..n2 /\ e2[k] \in {n1 + 1, n1 + 2}
  <2>1. /\ n1 = e2[k - 1] /\ n2 \in Nat /\ n1 \in Nat
        /\ Ends(t2, r, e2, n2) /\ Len(r) \in Nat /\ k \in 1..Len(r)
    BY <1>3, <1>4, <1>5, <1>7, <1>8, <1>10
  <2>2. e2[k] \in 0..n2 /\ (e2[k] = n1 + 1 \/ e2[k] = n1 + 2)
    BY <2>1, EndsAt
  <2> QED BY <2>2
<1>12. n1 < n2
  BY <1>3, <1>11
<1>13. Agree(t1, t2)
  BY <1>2, <1>3, <1>7, <1>8 DEF Agree, NoKeys
<1> QED BY <1>2, <1>12, <1>13, AgreeingOrder

\* A step of a tag that Plain allows: into a message field, to an element of a list of
\* messages, or, at the end, to a string.
PlainStep(s, n) ==
    /\ s[n] \in Seq(Element) /\ s[n][1] \in Field
    /\ Kind[s[n][1]] \in {"message", "repeated", "string"}
    /\ Kind[s[n][1]] = "repeated" => /\ Len(s[n]) = 2 /\ s[n][2] \in Nat
                                     /\ s[n] = <<s[n][1], s[n][2]>>
    /\ Kind[s[n][1]] = "string" => Len(s[n]) = 1 /\ n = Len(s)

\* All its steps are such steps.
LEMMA PlainSteps ==
    ASSUME NEW t \in Tag, NoKeys(t), Settable(t), NEW n \in 1..Len(GetFieldTypes(t))
    PROVE  PlainStep(GetFieldTypes(t), n)
<1>1. PICK s : s = GetFieldTypes(t)
  OBVIOUS
<1>2. s \in Path /\ Len(s) \in Nat /\ DOMAIN t = 1..Len(t) /\ Len(t) \in Nat
  BY <1>1, TagEnds, TagElements, LenProperties DEF Path
<1>3. PICK l : l = Len(t)
  OBVIOUS
<1>4. PICK e : Ends(t, s, e, l)
  BY <1>1, <1>3, TagEnds
<1>5. s[n] \in Seq(Element)
  BY <1>1, <1>2, ElementOfSeq DEF Path, Element
<1>6. PICK b, f : b = e[n - 1] + 1 /\ f = s[n][1]
  OBVIOUS
<1>7. n \in 1..Len(s) /\ n - 1 \in 0..Len(s) /\ n \in 0..Len(s)
  BY <1>1, <1>2
<1>8. e[n - 1] \in 0..l /\ e[n] \in 0..l
  BY <1>4, <1>7 DEF Ends
<1>9. /\ t[b] = <<"field", f>>
      /\ \/ Len(s[n]) = 1 /\ e[n] = b
         \/ Len(s[n]) = 2 /\ e[n] = b + 1 /\ t[b + 1] = <<"index", s[n][2]>>
  <2>1. PICK a \in Nat : a = e[n - 1]
    BY <1>8
  <2>2. b = a + 1 /\ a + 2 = b + 1
    BY <1>6, <2>1
  <2>3. /\ HasField(t, a + 1, s[n][1])
        /\ \/ Len(s[n]) = 1 /\ e[n] = a + 1
           \/ Len(s[n]) = 2 /\ e[n] = a + 2 /\ HasIndex(t, a + 2, s[n][2])
    <3>1. l \in Nat /\ Len(s) \in Nat
      BY <1>2, <1>3
    <3> QED BY <1>4, <1>7, <2>1, <3>1, EndsAt
  <2> QED BY <1>6, <2>2, <2>3 DEF HasField, HasIndex
<1>10. b \in 1..l /\ b \in Nat
  BY <1>2, <1>3, <1>6, <1>8, <1>9
<1>11. f \in Field
  BY <1>3, <1>9, <1>10, TagElements
<1>12. /\ Kind[f] \in {"message", "repeated", "string"}
       /\ Kind[f] = "repeated" => b < l /\ t[b + 1][1] = "index"
  <2>1. (CASE Kind[t[b][2]] \in {"message", "string"} -> TRUE
           [] Kind[t[b][2]] = "repeated" -> b < Len(t) /\ t[b + 1][1] = "index"
           [] OTHER -> FALSE)
    BY <1>2, <1>3, <1>9, <1>10 DEF Settable
  <2> QED BY <1>3, <1>9, <2>1
<1>13. Len(s[n]) = 1 \/ (Kind[f] # "string" /\ s[n][2] \in Nat /\ Len(s[n]) = 2)
  <2>1. CASE Len(s[n]) = 2
    <3>1. PICK d : d = b + 1
      OBVIOUS
    <3>2. t[d] = <<"index", s[n][2]>> /\ d \in 2..Len(t) /\ d \in 1..Len(t) /\ d - 1 = b
      BY <1>2, <1>3, <1>8, <1>9, <1>10, <2>1, <3>1
    <3>3. s[n][2] \in Nat
      BY <3>2, TagElements
    <3>4. LET before  == Kind[FieldAt(t, d - 1)]
              isField == t[d - 1][1] = "field"
          IN  CASE t[d][1] = "field" -> IF isField THEN before = "message"
                                                   ELSE before \in {"repeated", "map"}
                [] t[d][1] = "index" -> isField /\ before \in {"repeated", "strings"}
                [] t[d][1] = "key"   -> isField /\ before \in {"map", "stringMap"}
      BY <3>2 DEF Tag, FollowsDescriptor
    <3>5. FieldAt(t, b) = f
      BY <1>9 DEF FieldAt
    <3>6. Kind[f] \in {"repeated", "strings"}
      BY <3>2, <3>4, <3>5
    <3> QED BY <2>1, <3>3, <3>6
  <2> QED BY <1>9, <2>1
<1>14. ASSUME Kind[f] = "repeated"
       PROVE  Len(s[n]) = 2
  <2>1. CASE Len(s[n]) = 1
    <3>1. e[n] = b
      BY <1>9, <2>1
    <3>2. CASE n = Len(s)
      <4>1. e[n] = l
        BY <1>4, <3>2 DEF Ends
      <4> QED BY <1>10, <1>12, <1>14, <3>1, <4>1
    <3>3. CASE n # Len(s)
      <4>1. PICK m : m = n + 1
        OBVIOUS
      <4>2. m \in 1..Len(s) /\ m - 1 = n
        BY <1>2, <1>7, <3>3, <4>1
      <4>3. t[b + 1] = <<"field", s[m][1]>>
        BY <1>4, <3>1, <4>2 DEF Ends
      <4> QED BY <1>12, <1>14, <4>3
    <3> QED BY <3>2, <3>3
  <2> QED BY <1>9, <2>1
<1>15. Len(s[n]) = 2 => s[n] = <<s[n][1], s[n][2]>>
  BY <1>5
<1>16. Kind[f] = "string" => n = Len(s)
  <2>1. t # <<>>
    <3>1. Len(t) # 0
      BY <1>2, <1>3, <1>10
    <3> QED BY <3>1, EmptySeq
  <2>2. PICK x \in Field : StepsOf(s, x)
    BY <1>1, <2>1, FieldTypes
  <2>3. n \in 1..(Len(s) - 1) => Kind[f] \in MessageKinds
    BY <1>6, <2>2 DEF StepsOf
  <2> QED BY <1>2, <1>7, <2>3 DEF MessageKinds
<1> QED BY <1>1, <1>5, <1>6, <1>11, <1>12, <1>13, <1>14, <1>15, <1>16 DEF PlainStep

------------------------------------------------------------------------------
(* Lists without gaps *)

\* Something is one step inside a message in one way only.
LEMMA OneInside ==
    ASSUME NEW at \in Path, NEW x \in Seq(Element)
    PROVE  /\ Append(at, x) \in Path /\ Append(at, x) # <<>> /\ Append(at, x) # at
           /\ Len(Append(at, x)) = Len(at) + 1
           /\ Front(Append(at, x)) = at /\ Last(Append(at, x)) = x
<1>1. at \in Seq(Seq(Element)) /\ Len(at) \in Nat
  BY LenProperties DEF Path, Element
<1>2. /\ Append(at, x) \in Seq(Seq(Element)) /\ Append(at, x) # <<>>
      /\ Len(Append(at, x)) = Len(at) + 1
  BY <1>1, AppendProperties
<1>3. Append(at, x) # at
  BY <1>1, <1>2
<1>4. Front(Append(at, x)) = at /\ Last(Append(at, x)) = x
  BY <1>1, PrefixOfAppend
<1> QED BY <1>2, <1>3, <1>4 DEF Path, Element

\* The first n elements of a list of messages.
FirstElements(at, f, n) == {Append(at, <<f, i>>) : i \in 0..(n - 1)}

\* They are n.
LEMMA FirstElementsCount ==
    ASSUME NEW at \in Path, NEW f \in Field, NEW n \in Nat
    PROVE  Cardinality(FirstElements(at, f, n)) = n
<1> DEFINE S == 0..(n - 1)
           T == FirstElements(at, f, n)
           g == [i \in S |-> Append(at, <<f, i>>)]
<1>1. ASSUME NEW i \in S
      PROVE  <<f, i>> \in Seq(Element) /\ Append(at, <<f, i>>) \in T
             /\ Last(Append(at, <<f, i>>)) = <<f, i>>
  <2>1. f \in Element /\ i \in Element
    BY MergerAssumption DEF Element
  <2>0. <<f, i>> \in Seq(Element)
    BY <2>1
  <2>2. PICK x : x = <<f, i>> /\ x \in Seq(Element)
    BY <2>0
  <2>3. Last(Append(at, x)) = x
    BY <2>2, OneInside
  <2> QED BY <2>2, <2>3 DEF FirstElements
<1>2. g \in [S -> T] /\ \A i \in S : g[i] = Append(at, <<f, i>>)
  BY <1>1
<1>3. ASSUME NEW i \in S, NEW j \in S, g[i] = g[j]
      PROVE  i = j
  <2>1. <<f, i>> = <<f, j>>
    BY <1>1, <1>2, <1>3
  <2> QED BY <2>1
<1>4. \A y \in T : \E i \in S : g[i] = y
  BY <1>2 DEF FirstElements
<1> HIDE DEF g
<1>5. g \in Bijection(S, T)
  BY <1>2, <1>3, <1>4 DEF Bijection, Injection, Surjection, IsInjective
<1>6. IsFiniteSet(S) /\ Cardinality(S) = n
  <2>1. 0 \in Int /\ n - 1 \in Int
    OBVIOUS
  <2>2. IsFiniteSet(S) /\ Cardinality(S) = IF 0 > n - 1 THEN 0 ELSE (n - 1) - 0 + 1
    BY <2>1, FS_Interval
  <2> QED BY <2>2
<1>7. Cardinality(T) = Cardinality(S)
  BY <1>5, <1>6, FS_Bijection DEF ExistsBijection
<1> QED BY <1>6, <1>7

\* What NoGaps says of a list.
LEMMA ListParts ==
    ASSUME NEW ns, NoGaps(ns), NEW at \in DOMAIN ns, NEW f \in ListFields
    PROVE  /\ SizeOf(ns, at, f) \in Nat
           /\ Elements(ns, at, f) = FirstElements(at, f, SizeOf(ns, at, f))
BY DEF NoGaps, FirstElements

\* The steps in X make `size` elements of the list f.
FillsUp(ns, at, X, f, size) ==
    /\ size \in Nat
    /\ \A x : (x \in X /\ x[1] = f) \/ (\E i \in 0..(SizeOf(ns, at, f) - 1) : x = <<f, i>>)
                 <=> \E i \in 0..(size - 1) : x = <<f, i>>

\* The steps in X lead to new messages inside the one at `at`, and make lists of `size`.
Grows(ns, ms, at, X, size) ==
    /\ X \in SUBSET Seq(Element)
    /\ DOMAIN ms = DOMAIN ns \union {Append(at, x) : x \in X}
    /\ \A f \in ListFields : FillsUp(ns, at, X, f, size[f])

\* Such new messages leave no index out.
LEMMA NoGapsGrow ==
    ASSUME NEW ns, NoGaps(ns), NEW at \in Path, at \in DOMAIN ns,
           NEW ms, NEW X, NEW size, Grows(ns, ms, at, X, size)
    PROVE  NoGaps(ms) /\ \A f \in ListFields : SizeOf(ms, at, f) = size[f]
<1>0. /\ X \in SUBSET Seq(Element)
      /\ DOMAIN ms = DOMAIN ns \union {Append(at, x) : x \in X}
      /\ \A f \in ListFields : FillsUp(ns, at, X, f, size[f])
  BY DEF Grows
<1>1. \A x \in X : /\ Append(at, x) \in Path /\ Append(at, x) # <<>> /\ Append(at, x) # at
                   /\ Len(Append(at, x)) = Len(at) + 1
                   /\ Front(Append(at, x)) = at /\ Last(Append(at, x)) = x
  BY <1>0, OneInside
<1>2. ASSUME NEW p, NEW f \in ListFields
      PROVE  /\ p # at => Elements(ms, p, f) = Elements(ns, p, f)
             /\ Elements(ms, at, f) = Elements(ns, at, f)
                                         \union {Append(at, x) : x \in {y \in X : y[1] = f}}
  BY <1>0, <1>1 DEF Elements
<1>3. ASSUME NEW f \in ListFields
      PROVE  /\ Elements(ms, at, f) = FirstElements(at, f, size[f])
             /\ SizeOf(ms, at, f) = size[f] /\ size[f] \in Nat
  <2>1. PICK n \in Nat : n = SizeOf(ns, at, f)
    BY ListParts
  <2>2. Elements(ns, at, f) = {Append(at, x) : x \in {<<f, i>> : i \in 0..(n - 1)}}
    <3>1. Elements(ns, at, f) = FirstElements(at, f, n)
      BY <2>1, ListParts
    <3>2. FirstElements(at, f, n) = {Append(at, x) : x \in {<<f, i>> : i \in 0..(n - 1)}}
      BY DEF FirstElements
    <3> QED BY <3>1, <3>2
  <2>3. {y \in X : y[1] = f} \union {<<f, i>> : i \in 0..(n - 1)} = {<<f, i>> : i \in 0..(size[f] - 1)}
    BY <1>0, <2>1 DEF FillsUp
  <2>4. Elements(ms, at, f) = {Append(at, x) : x \in {<<f, i>> : i \in 0..(size[f] - 1)}}
    BY <1>2, <2>2, <2>3
  <2>5. Elements(ms, at, f) = FirstElements(at, f, size[f])
    BY <2>4 DEF FirstElements
  <2>6. size[f] \in Nat /\ f \in Field /\ Kind[f] = "repeated"
    BY <1>0 DEF FillsUp, ListFields
  <2>7. Cardinality(FirstElements(at, f, size[f])) = size[f]
    BY <2>6, FirstElementsCount
  <2> QED BY <2>5, <2>6, <2>7 DEF SizeOf
<1>4. ASSUME NEW p \in DOMAIN ns, NEW f \in ListFields, p # at
      PROVE  /\ SizeOf(ms, p, f) \in Nat
             /\ Elements(ms, p, f) = FirstElements(p, f, SizeOf(ms, p, f))
  <2>1. Elements(ms, p, f) = Elements(ns, p, f)
    BY <1>2, <1>4
  <2>2. SizeOf(ms, p, f) = SizeOf(ns, p, f)
    BY <2>1 DEF SizeOf, ListFields
  <2> QED BY <2>1, <2>2, ListParts
<1>5. ASSUME NEW p \in DOMAIN ms, p \notin DOMAIN ns, NEW f \in ListFields
      PROVE  /\ SizeOf(ms, p, f) \in Nat
             /\ Elements(ms, p, f) = FirstElements(p, f, SizeOf(ms, p, f))
  <2>1. p # at /\ p \in Path
    <3>1. PICK x \in X : p = Append(at, x)
      BY <1>0, <1>5
    <3> QED BY <1>1, <3>1
  <2>2. Elements(ns, p, f) = {}
    <3>1. ASSUME NEW q \in Elements(ns, p, f)
          PROVE  FALSE
      <4>1. q \in DOMAIN ns /\ Len(q) = Len(p) + 1 /\ Front(q) = p
        BY <3>1 DEF Elements
      <4>2. Len(p) \in Nat
        BY <2>1, LenProperties DEF Path
      <4>3. q # <<>>
        <5>1. Len(<<>>) = 0
          OBVIOUS
        <5>2. Len(q) # 0
          BY <4>1, <4>2
        <5> QED BY <5>1, <5>2
      <4> QED BY <1>5, <4>1, <4>3 DEF NoGaps
    <3> QED BY <3>1
  <2>3. Elements(ms, p, f) = {}
    BY <1>2, <2>1, <2>2
  <2>4. SizeOf(ms, p, f) = 0
    BY <2>3, FS_EmptySet DEF SizeOf, ListFields
  <2>5. FirstElements(p, f, 0) = {}
    BY DEF FirstElements
  <2> QED BY <2>3, <2>4, <2>5
<1>6. ASSUME NEW p \in DOMAIN ms, p # <<>>
      PROVE  Front(p) \in DOMAIN ms
  <2>1. CASE p \in DOMAIN ns
    BY <1>0, <1>6, <2>1 DEF NoGaps
  <2>2. CASE p \notin DOMAIN ns
    BY <1>0, <1>1, <1>6, <2>2
  <2> QED BY <2>1, <2>2
<1>7. ASSUME NEW p \in DOMAIN ms, NEW f \in ListFields
      PROVE  /\ SizeOf(ms, p, f) \in Nat
             /\ Elements(ms, p, f) = FirstElements(p, f, SizeOf(ms, p, f))
  BY <1>3, <1>4, <1>5
<1>8. NoGaps(ms)
  BY <1>6, <1>7 DEF NoGaps, FirstElements
<1> QED BY <1>3, <1>8

\* The elements of a list are those below its size.
LEMMA BelowSize ==
    ASSUME NEW ns, NoGaps(ns), NEW at \in Path, at \in DOMAIN ns, NEW f \in ListFields, NEW i \in Nat
    PROVE  Append(at, <<f, i>>) \in DOMAIN ns <=> i < SizeOf(ns, at, f)
<1>1. PICK n \in Nat : n = SizeOf(ns, at, f) /\ Elements(ns, at, f) = FirstElements(at, f, n)
  BY ListParts
<1>2. PICK x : x = <<f, i>>
  OBVIOUS
<1>3. x \in Seq(Element) /\ x[1] = f
  <2>1. f \in Element /\ i \in Element
    BY MergerAssumption DEF Element, ListFields
  <2>2. <<f, i>> \in Seq(Element)
    BY <2>1
  <2> QED BY <1>2, <2>2
<1>4. Len(Append(at, x)) = Len(at) + 1 /\ Front(Append(at, x)) = at /\ Last(Append(at, x)) = x
  BY <1>3, OneInside
<1>5. Append(at, x) \in DOMAIN ns <=> Append(at, x) \in FirstElements(at, f, n)
  BY <1>1, <1>3, <1>4 DEF Elements
<1>6. ASSUME NEW j \in 0..(n - 1), Append(at, x) = Append(at, <<f, j>>)
      PROVE  i = j
  <2>1. <<f, j>> \in Seq(Element)
    <3>1. f \in Element /\ j \in Element
      BY MergerAssumption DEF Element, ListFields
    <3> QED BY <3>1
  <2>2. Last(Append(at, <<f, j>>)) = <<f, j>>
    BY <2>1, OneInside
  <2>3. <<f, i>> = <<f, j>>
    BY <1>2, <1>4, <1>6, <2>2
  <2> QED BY <2>3
<1>7. Append(at, x) \in FirstElements(at, f, n) <=> i \in 0..(n - 1)
  BY <1>2, <1>6 DEF FirstElements
<1> QED BY <1>1, <1>2, <1>5, <1>7

\* A message that is added inside the one at `at`.
LEMMA NodeNoGaps ==
    ASSUME NEW ns, NoGaps(ns), NEW at \in Path, at \in DOMAIN ns, NEW x \in Seq(Element),
           NEW l, NEW i, l = x[1], i = x[2], l \in ListFields => x = <<l, i>> /\ i \in Nat /\ i <= SizeOf(ns, at, l)
    PROVE  NoGaps(WithNode(ns, Append(at, x)))
<1> DEFINE X == {x}
           ms == WithNode(ns, Append(at, x))
           Size(f) == SizeOf(ns, at, f)
           size == [f \in ListFields |-> IF f = l /\ i = Size(f) THEN Size(f) + 1 ELSE Size(f)]
<1>1. DOMAIN ms = DOMAIN ns \union {Append(at, y) : y \in X}
  BY DEF WithNode, WithNodes
<1>2. ASSUME NEW f \in ListFields
      PROVE  FillsUp(ns, at, X, f, size[f])
  <2>1. PICK n \in Nat : n = Size(f)
    BY ListParts
  <2>2. size[f] = IF f = l /\ i = n THEN n + 1 ELSE n
    BY <2>1
  <2>3. size[f] \in Nat
    BY <2>2
  <2> HIDE DEF size
  <2>4. ASSUME NEW y
        PROVE  (y \in X /\ y[1] = f) \/ (\E j \in 0..(n - 1) : y = <<f, j>>)
                  <=> \E j \in 0..(size[f] - 1) : y = <<f, j>>
    <3>1. CASE f # l
      BY <2>2, <3>1
    <3>2. CASE f = l
      <4>1. x = <<f, i>> /\ i \in Nat /\ i <= n /\ x[1] = f
        BY <2>1, <3>2
      <4>2. y \in X /\ y[1] = f <=> y = <<f, i>>
        BY <4>1
      <4>3. CASE i = n
        <5>1. 0..(size[f] - 1) = 0..(n - 1) \union {i}
          BY <2>2, <3>2, <4>3
        <5> QED BY <4>2, <5>1
      <4>4. CASE i # n
        <5>1. size[f] = n /\ i \in 0..(n - 1)
          BY <2>2, <4>1, <4>4
        <5> QED BY <4>2, <5>1
      <4> QED BY <4>3, <4>4
    <3> QED BY <3>1, <3>2
  <2> QED BY <2>1, <2>3, <2>4 DEF FillsUp
<1> HIDE DEF size, ms
<1>3. X \in SUBSET Seq(Element)
  OBVIOUS
<1>4. NoGaps(ms)
  <2>1. Grows(ns, ms, at, X, size)
    BY <1>1, <1>2, <1>3 DEF Grows
  <2> QED BY <2>1, NoGapsGrow
<1> QED BY <1>4 DEF ms

\* A chunk that is merged: what it brings comes after what is there.
LEMMA ChunkNoGaps ==
    ASSUME NEW ns, NoGaps(ns), NEW at \in Path, at \in DOMAIN ns, NEW c,
           brings[c] \in [Field -> Nat]
    PROVE  LET ms == MergeChunk(ns, at, c)
           IN  /\ NoGaps(ms)
               /\ \A f \in ListFields, i \in Nat :
                     i < brings[c][f] => Append(at, <<f, i>>) \in DOMAIN ms
<1> DEFINE ms == MergeChunk(ns, at, c)
           Size(f) == SizeOf(ns, at, f)
           B(f) == brings[c][f]
           X == UNION {{<<f, Size(f) + i>> : i \in 0..(B(f) - 1)} : f \in ListFields}
           size == [f \in ListFields |-> Size(f) + B(f)]
<1>1. \A f \in ListFields : Size(f) \in Nat /\ B(f) \in Nat
  BY ListParts DEF ListFields
<1>2. X \in SUBSET Seq(Element)
  <2>1. ASSUME NEW f \in ListFields, NEW i \in 0..(B(f) - 1)
        PROVE  <<f, Size(f) + i>> \in Seq(Element)
    <3>1. f \in Element
      BY MergerAssumption DEF Element, ListFields
    <3>2. PICK j : j = Size(f) + i
      OBVIOUS
    <3>3. j \in Element
      BY <1>1, <3>2 DEF Element
    <3>4. <<f, j>> \in Seq(Element)
      BY <3>1, <3>3
    <3> QED BY <3>2, <3>4
  <2>2. ASSUME NEW x \in X
        PROVE  x \in Seq(Element)
    <3>1. PICK f \in ListFields : \E i \in 0..(B(f) - 1) : x = <<f, Size(f) + i>>
      OBVIOUS
    <3>2. PICK i \in 0..(B(f) - 1) : x = <<f, Size(f) + i>>
      BY <3>1
    <3>3. <<f, Size(f) + i>> \in Seq(Element)
      BY <2>1
    <3> QED BY <3>2, <3>3
  <2> HIDE DEF X
  <2> QED BY <2>2
<1>3. DOMAIN ms = DOMAIN ns \union {Append(at, x) : x \in X}
  <2>1. PICK new : new = UNION {{Append(at, <<f, SizeOf(ns, at, f) + i>>) : i \in 0..(brings[c][f] - 1)} :
                                  f \in {g \in Field : Kind[g] = "repeated"}}
    OBVIOUS
  <2>2. new = {Append(at, x) : x \in X}
    <3>1. \A y : y \in new <=> \E f \in ListFields : \E i \in 0..(B(f) - 1) :
                                 y = Append(at, <<f, Size(f) + i>>)
      BY <2>1 DEF ListFields
    <3>2. \A x : x \in X <=> \E f \in ListFields : \E i \in 0..(B(f) - 1) : x = <<f, Size(f) + i>>
      OBVIOUS
    <3> HIDE DEF X
    <3> QED BY <3>1, <3>2
  <2>3. DOMAIN ms = DOMAIN ns \union new
    BY <2>1 DEF MergeChunk, WithNodes
  <2> QED BY <2>2, <2>3
<1>4. ASSUME NEW f \in ListFields
      PROVE  FillsUp(ns, at, X, f, size[f])
  <2>1. PICK n \in Nat, b \in Nat : n = Size(f) /\ b = B(f)
    BY <1>1
  <2>2. size[f] = n + b
    BY <2>1
  <2>3. \A y : y \in X /\ y[1] = f <=> \E i \in 0..(b - 1) : y = <<f, n + i>>
    <3>1. \A y : y \in X <=> \E g \in ListFields : \E i \in 0..(B(g) - 1) : y = <<g, Size(g) + i>>
      OBVIOUS
    <3> HIDE DEF X
    <3> QED BY <2>1, <3>1
  <2> HIDE DEF X, size
  <2>4. ASSUME NEW y
        PROVE  (\E i \in 0..(b - 1) : y = <<f, n + i>>) \/ (\E j \in 0..(n - 1) : y = <<f, j>>)
                  <=> \E j \in 0..(n + b - 1) : y = <<f, j>>
    <3>1. ASSUME NEW i \in 0..(b - 1), y = <<f, n + i>>
          PROVE  \E j \in 0..(n + b - 1) : y = <<f, j>>
      <4>1. n + i \in 0..(n + b - 1)
        OBVIOUS
      <4> QED BY <3>1, <4>1
    <3>2. ASSUME NEW j \in 0..(n + b - 1), y = <<f, j>>
          PROVE  (\E i \in 0..(b - 1) : y = <<f, n + i>>) \/ (\E k \in 0..(n - 1) : y = <<f, k>>)
      <4>1. CASE j < n
        <5>1. j \in 0..(n - 1)
          BY <4>1
        <5> QED BY <3>2, <5>1
      <4>2. CASE ~(j < n)
        <5>1. j - n \in 0..(b - 1) /\ n + (j - n) = j
          BY <4>2
        <5>2. PICK i \in 0..(b - 1) : n + i = j
          BY <5>1
        <5> QED BY <3>2, <5>2
      <4> QED BY <4>1, <4>2
    <3>3. 0..(n - 1) \subseteq 0..(n + b - 1)
      OBVIOUS
    <3> QED BY <3>1, <3>2, <3>3
  <2> QED BY <2>1, <2>2, <2>3, <2>4 DEF FillsUp
<1>5. \A f \in ListFields : size[f] = Size(f) + B(f)
  OBVIOUS
<1>6. at \in DOMAIN ms
  BY <1>3
<1> HIDE DEF size, X, ms, Size, B
<1>7. NoGaps(ms) /\ \A f \in ListFields : SizeOf(ms, at, f) = size[f]
  <2>1. Grows(ns, ms, at, X, size)
    BY <1>2, <1>3, <1>4 DEF Grows
  <2> QED BY <2>1, NoGapsGrow
<1>8. ASSUME NEW f \in ListFields, NEW i \in Nat, i < brings[c][f]
      PROVE  Append(at, <<f, i>>) \in DOMAIN ms
  <2>1. i < SizeOf(ms, at, f)
    BY <1>1, <1>5, <1>7, <1>8 DEF Size, B
  <2> QED BY <1>6, <1>7, <2>1, BelowSize
<1> QED BY <1>7, <1>8 DEF ms

------------------------------------------------------------------------------
(* Navigate through what is there *)

\* One more step of a path.
LEMMA OneStepFurther ==
    ASSUME NEW at \in Seq(Seq(Element)), NEW q \in Seq(Seq(Element)), NEW e \in Seq(Element)
    PROVE  at \o Append(q, e) = Append(at \o q, e)
BY ConcatAppend

\* Element i of the list f of the message at p.
ElementThere(ns, p, f, i) == Append(p, <<f, i>>) \in DOMAIN ns

\* Before every element that the steps go through, the lower one is there.
LowerThere(ns, at, s) ==
    \A n \in 1..Len(s) :
        Kind[s[n][1]] = "repeated" /\ s[n][2] > 0 =>
            ElementThere(ns, at \o SubSeq(s, 1, n - 1), s[n][1], s[n][2] - 1)

\* The messages that the first k steps go through.
SteppedThere(ns, at, s, k) ==
    \A j \in 1..k : Kind[s[j][1]] \in MessageKinds => at \o SubSeq(s, 1, j) \in DOMAIN ns

\* The walk from `at` has survived k steps.
Alive(n, ns, at, s, k) ==
    AfterSteps(n, ns, at, s, k) /\ n.alive /\ NoGaps(n.nodes) /\ SteppedThere(n.nodes, at, s, k)

\* It survives a plain step.
LEMMA AliveStep ==
    ASSUME NEW ns, NEW at \in Path, NEW s \in Path, NEW k \in 0..(Len(s) - 1), NEW n,
           Alive(n, ns, at, s, k), \A j \in 1..Len(s) : PlainStep(s, j), LowerThere(ns, at, s)
    PROVE  Alive(NavigateStep(n, s[k + 1]), ns, at, s, k + 1)
<1>1. PICK d, step, m : d = k + 1 /\ step = s[d] /\ m = NavigateStep(n, step)
  OBVIOUS
<1>2. /\ Len(s) \in Nat /\ d \in 1..Len(s) /\ d - 1 = k /\ d \in Nat /\ k \in 0..Len(s)
      /\ 1..d = 1..k \union {d}
  BY <1>1, LenProperties DEF Path
<1>3. PICK ms, q : ms = n.nodes /\ q = n.at
  OBVIOUS
<1>4. /\ AfterSteps(n, ns, at, s, k) /\ n.alive /\ NoGaps(ms) /\ SteppedThere(ms, at, s, k)
      /\ Grown(ns, ms) /\ q \in Path /\ q \in DOMAIN ms
  BY <1>3 DEF Alive, AfterSteps
<1>5. AfterSteps(m, ns, at, s, d)
  BY <1>1, <1>4, OneStep
<1>6. PICK f : f = step[1]
  OBVIOUS
<1>7. /\ step \in Seq(Element) /\ f \in Field /\ Kind[f] \in {"message", "repeated", "string"}
      /\ Kind[f] = "repeated" => /\ Len(step) = 2 /\ step[2] \in Nat
                                 /\ step = <<f, step[2]>>
      /\ Kind[f] = "string" => Len(step) = 1 /\ d = Len(s)
  BY <1>1, <1>2, <1>6 DEF PlainStep
<1>8. q = at \o SubSeq(s, 1, k)
  <2>1. \A j \in 1..k : j \in 1..Len(s) /\ j # Len(s)
    BY <1>2
  <2>2. \A j \in 1..k : Kind[s[j][1]] \in MessageKinds
    BY <2>1 DEF PlainStep, MessageKinds
  <2> QED BY <1>3, <1>4, <2>2 DEF AfterSteps
<1>9. Kind[f] = "repeated" => step[2] <= SizeOf(ms, q, f)
  <2> SUFFICES ASSUME Kind[f] = "repeated"
               PROVE  step[2] <= SizeOf(ms, q, f)
    OBVIOUS
  <2>1. f \in ListFields
    BY <1>7 DEF ListFields
  <2>2. SizeOf(ms, q, f) \in Nat
    BY <1>4, <2>1, ListParts
  <2>3. PICK i \in Nat : i = step[2]
    BY <1>7
  <2>4. ASSUME i > 0
        PROVE  i - 1 < SizeOf(ms, q, f)
    <3>1. ElementThere(ns, q, f, i - 1)
      BY <1>1, <1>2, <1>6, <1>8, <2>3, <2>4 DEF LowerThere
    <3>2. Append(q, <<f, i - 1>>) \in DOMAIN ms
      BY <1>4, <3>1 DEF ElementThere, Grown
    <3>3. i - 1 \in Nat
      BY <2>4
    <3> QED BY <1>4, <2>1, <3>2, <3>3, BelowSize
  <2> QED BY <2>2, <2>3, <2>4
<1>10. Reachable(ms, q, step)
  BY <1>6, <1>7, <1>9 DEF Reachable, HasElement
<1>11. CASE Kind[f] = "string"
  <2>1. m = n
    BY <1>1, <1>3, <1>4, <1>6, <1>10, <1>11 DEF NavigateStep, MessageKinds
  <2>2. SteppedThere(ms, at, s, d)
    BY <1>1, <1>2, <1>4, <1>6, <1>11 DEF SteppedThere, MessageKinds
  <2>3. Alive(m, ns, at, s, d)
    BY <1>3, <1>4, <1>5, <2>1, <2>2 DEF Alive
  <2> QED BY <1>1, <2>3
<1>12. CASE Kind[f] # "string"
  <2>1. PICK p : p = Append(q, step)
    OBVIOUS
  <2>2. m = [alive |-> TRUE, at |-> p, nodes |-> WithNode(ms, p)]
    BY <1>1, <1>3, <1>4, <1>6, <1>7, <1>10, <1>12, <2>1 DEF NavigateStep, MessageKinds
  <2>3. m.alive /\ m.nodes = WithNode(ms, p)
    BY <2>2
  <2>4. NoGaps(WithNode(ms, p))
    <3>1. PICK i : i = step[2]
      OBVIOUS
    <3>2. f \in ListFields => step = <<f, i>> /\ i \in Nat /\ i <= SizeOf(ms, q, f)
      BY <1>7, <1>9, <3>1 DEF ListFields
    <3>3. NoGaps(WithNode(ms, Append(q, step)))
      BY <1>4, <1>6, <1>7, <3>1, <3>2, NodeNoGaps
    <3> QED BY <2>1, <3>3
  <2>5. p = at \o SubSeq(s, 1, d)
    <3>1. SubSeq(s, 1, d) = Append(SubSeq(s, 1, k), step)
      BY <1>1, <1>2, PrefixLast DEF Path
    <3>2. SubSeq(s, 1, k) \in Seq(Seq(Element))
      BY <1>2, PrefixElements DEF Path, Element
    <3>3. at \in Seq(Seq(Element))
      BY DEF Path, Element
    <3>4. at \o Append(SubSeq(s, 1, k), step) = Append(at \o SubSeq(s, 1, k), step)
      BY <1>7, <3>2, <3>3, ConcatAppend
    <3> QED BY <1>8, <2>1, <3>1, <3>4
  <2>6. p \in DOMAIN WithNode(ms, p) /\ DOMAIN ms \subseteq DOMAIN WithNode(ms, p)
    BY DEF WithNode, WithNodes
  <2>7. SteppedThere(WithNode(ms, p), at, s, d)
    BY <1>2, <1>4, <2>5, <2>6 DEF SteppedThere
  <2>8. Alive(m, ns, at, s, d)
    BY <1>5, <2>3, <2>4, <2>7 DEF Alive
  <2> QED BY <1>1, <2>8
<1> QED BY <1>11, <1>12

\* Navigate survives plain steps, if none of them leaves out an element.
LEMMA NavigateSurvives ==
    ASSUME NEW ns, NoGaps(ns), NEW at \in Path, at \in DOMAIN ns, NEW s \in Path,
           \A j \in 1..Len(s) : PlainStep(s, j), LowerThere(ns, at, s)
    PROVE  Alive(Navigate(ns, at, s), ns, at, s, Len(s))
<1> DEFINE n == Len(s)
           x == [alive |-> TRUE, at |-> at, nodes |-> ns]
<1>1. n \in Nat
  BY LenProperties DEF Path
<1>2. PICK f : Loops(f, "steps", s, x, n) /\ Navigate(ns, at, s) = f[n]
  BY <1>1, NavigateLoops
<1>3. f[0] = x /\ \A k \in 0..(n - 1) : f[k + 1] = NavigateStep(f[k], s[k + 1])
  BY <1>1, <1>2, LoopRounds DEF Round
<1> DEFINE P == {k \in Nat : k <= n => Alive(f[k], ns, at, s, k)}
<1>4. 0 \in P
  <2>1. SubSeq(s, 1, 0) = <<>>
    BY SubSeqEmpty
  <2>2. at \o <<>> = at
    BY ConcatEmptySeq DEF Path
  <2>3. Grown(ns, ns)
    BY DEF Grown
  <2>4. AfterSteps(x, ns, at, s, 0)
    BY <2>1, <2>2, <2>3 DEF AfterSteps
  <2>5. SteppedThere(ns, at, s, 0)
    BY DEF SteppedThere
  <2>6. x.alive /\ x.nodes = ns
    OBVIOUS
  <2>7. Alive(x, ns, at, s, 0)
    BY <2>4, <2>5, <2>6 DEF Alive
  <2> QED BY <1>3, <2>7
<1>5. ASSUME NEW k \in Nat, k \in P
      PROVE  k + 1 \in P
  <2> SUFFICES ASSUME k + 1 <= n
               PROVE  Alive(f[k + 1], ns, at, s, k + 1)
    OBVIOUS
  <2>1. k \in 0..(n - 1) /\ k <= n
    BY <1>1
  <2>2. Alive(f[k], ns, at, s, k)
    BY <1>5, <2>1
  <2>3. Alive(NavigateStep(f[k], s[k + 1]), ns, at, s, k + 1)
    BY <2>1, <2>2, AliveStep
  <2> QED BY <1>3, <2>1, <2>3
<1> HIDE DEF P
<1>6. Nat \subseteq P
  BY <1>4, <1>5, SetInduction
<1>7. Alive(f[n], ns, at, s, n)
  BY <1>1, <1>6 DEF P
<1> QED BY <1>2, <1>7

------------------------------------------------------------------------------
(* What is there when an entry's turn comes *)

\* An entry of something plain, and its steps.
LEMMA PlainEntry ==
    ASSUME input \in Inputs, Plain, NEW w \in DOMAIN input, NEW i \in Entries(w),
           NEW s, s = GetFieldTypes(Entry(w, i).tag)
    PROVE  /\ Entry(w, i) \in ChunkedField /\ NoKeys(Entry(w, i).tag)
           /\ s \in Path /\ Len(s) \in Nat /\ DOMAIN s = 1..Len(s)
           /\ \A k \in 1..Len(s) : PlainStep(s, k)
<1>1. Append(w, i) \in DOMAIN input /\ Entry(w, i) \in ChunkedField
  BY EntriesAreFields
<1>2. PICK t : t = Entry(w, i).tag
  OBVIOUS
<1>3. NoKeys(t) /\ Settable(t) /\ t \in Tag
  BY <1>1, <1>2, FieldParts DEF Plain, Entry
<1>4. s \in Path
  BY <1>2, <1>3, TagEnds
<1>5. Len(s) \in Nat /\ DOMAIN s = 1..Len(s)
  BY <1>4, LenProperties DEF Path
<1> QED BY <1>1, <1>2, <1>3, <1>4, <1>5, PlainSteps

\* Entry j goes to the element below that of step k.
LowerEntry(w, j, s, k) ==
    LET r == GetFieldTypes(Entry(w, j).tag)
    IN  k \in 1..Len(r) /\ SubSeq(r, 1, k) = Append(SubSeq(s, 1, k - 1), <<s[k][1], s[k][2] - 1>>)

\* Entry j is for the message that step k goes into, and brings that element.
AroundEntry(w, j, s, k) ==
    /\ OfMessage(Entry(w, j)) /\ GetFieldTypes(Entry(w, j).tag) = SubSeq(s, 1, k - 1)
    /\ HasChunk(Append(w, j)) /\ brings[Entry(w, j).idx][s[k][1]] >= s[k][2]

\* What a step to an element rests on.
LEMMA DenseParts ==
    ASSUME input \in Inputs, Plain, NEW w \in DOMAIN input, DenseAt(w), NEW i \in Entries(w),
           NEW s, s = GetFieldTypes(Entry(w, i).tag), NEW k \in 1..Len(s),
           Kind[s[k][1]] = "repeated", s[k][2] > 0
    PROVE  \/ \E j \in Entries(w) : LowerEntry(w, j, s, k) \/ AroundEntry(w, j, s, k)
           \/ k = 1 /\ HasChunk(w) /\ brings[input[w].idx][s[k][1]] >= s[k][2]
<1> DEFINE own    == {h \in Entries(w) : OfMessage(Entry(w, h))}
           steps  == {GetFieldTypes(Entry(w, h).tag) : h \in Entries(w)}
           places == UNION {{SubSeq(r, 1, n) : n \in DOMAIN r} : r \in steps}
           bring(q, f) == {brings[Entry(w, h).idx][f] :
                              h \in {j \in own : /\ GetFieldTypes(Entry(w, j).tag) = q
                                                 /\ HasChunk(Append(w, j))}}
                          \union (IF q = <<>> /\ HasChunk(w) THEN {brings[input[w].idx][f]} ELSE {})
           Needs(p) == LET f == Last(p)[1]
                           x == Last(p)[2]
                       IN  Kind[f] = "repeated" /\ Len(Last(p)) = 2 /\ x > 0 =>
                              \/ Append(Front(p), <<f, x - 1>>) \in places
                              \/ \E b \in bring(Front(p), f) : b >= x
<1>1. \A p \in places : Needs(p)
  BY DEF DenseAt
<1>2. /\ s \in Path /\ s \in Seq(Seq(Element)) /\ Len(s) \in Nat /\ DOMAIN s = 1..Len(s)
      /\ PlainStep(s, k)
  BY PlainEntry DEF Path, Element
<1>3. PICK p, q, f, x : p = SubSeq(s, 1, k) /\ q = SubSeq(s, 1, k - 1) /\ f = s[k][1] /\ x = s[k][2]
  OBVIOUS
<1>4. p \in places
  <2>1. s \in steps
    OBVIOUS
  <2>2. p \in {SubSeq(s, 1, n) : n \in DOMAIN s}
    BY <1>2, <1>3
  <2> HIDE DEF steps
  <2> QED BY <2>1, <2>2
<1>5. q \in Seq(Seq(Element)) /\ Len(q) = k - 1 /\ s[k] \in Seq(Element) /\ p = Append(q, s[k])
  <2>1. k - 1 \in 0..Len(s)
    BY <1>2
  <2> QED BY <1>2, <1>3, <2>1, PrefixElements, PrefixLast, ElementOfSeq
<1>6. Last(p) = s[k] /\ Front(p) = q /\ Len(p) = k
  BY <1>2, <1>5, PrefixOfAppend, AppendProperties
<1>7. Kind[f] = "repeated" /\ Len(Last(p)) = 2 /\ x > 0 /\ Last(p)[1] = f /\ Last(p)[2] = x /\ x \in Nat
  BY <1>2, <1>3, <1>6 DEF PlainStep
<1>8. PICK e : e = <<f, x - 1>>
  OBVIOUS
<1>9. Append(q, e) \in places \/ \E b \in bring(q, f) : b >= x
  <2> HIDE DEF places, bring
  <2> QED BY <1>1, <1>4, <1>6, <1>7, <1>8
<1>10. ASSUME Append(q, e) \in places
       PROVE  \E j \in Entries(w) : LowerEntry(w, j, s, k)
  <2>1. PICK j \in Entries(w) : \E n \in DOMAIN GetFieldTypes(Entry(w, j).tag) :
            Append(q, e) = SubSeq(GetFieldTypes(Entry(w, j).tag), 1, n)
    BY <1>10
  <2>2. PICK r : r = GetFieldTypes(Entry(w, j).tag)
    OBVIOUS
  <2>3. r \in Path /\ r \in Seq(Seq(Element)) /\ Len(r) \in Nat /\ DOMAIN r = 1..Len(r)
    BY <2>2, PlainEntry DEF Path, Element
  <2>4. PICK n \in 1..Len(r) : Append(q, e) = SubSeq(r, 1, n)
    BY <2>1, <2>2, <2>3
  <2>5. n = k
    <3>1. Len(SubSeq(r, 1, n)) = n
      BY <2>3, PrefixElements
    <3>2. Len(Append(q, e)) = k
      <4>1. e \in Seq(Element)
        <5>1. f \in Element /\ x - 1 \in Element
          BY <1>2, <1>3, <1>7, MergerAssumption DEF PlainStep, Element
        <5>2. <<f, x - 1>> \in Seq(Element)
          BY <5>1
        <5> QED BY <1>8, <5>2
      <4> QED BY <1>5, <4>1, AppendProperties
    <3> QED BY <2>4, <3>1, <3>2
  <2>6. LowerEntry(w, j, s, k)
    BY <1>3, <1>8, <2>2, <2>4, <2>5 DEF LowerEntry
  <2> QED BY <2>6
<1>11. ASSUME NEW b \in bring(q, f), b >= x
       PROVE  \/ \E j \in Entries(w) : AroundEntry(w, j, s, k)
              \/ k = 1 /\ HasChunk(w) /\ brings[input[w].idx][f] >= x
  <2>1. CASE q = <<>> /\ HasChunk(w) /\ b = brings[input[w].idx][f]
    <3>1. k = 1
      BY <1>2, <1>5, <2>1, EmptySeq
    <3> QED BY <1>11, <2>1, <3>1
  <2>2. CASE ~(q = <<>> /\ HasChunk(w) /\ b = brings[input[w].idx][f])
    <3>1. PICK j \in Entries(w) : /\ OfMessage(Entry(w, j)) /\ GetFieldTypes(Entry(w, j).tag) = q
                                  /\ HasChunk(Append(w, j)) /\ b = brings[Entry(w, j).idx][f]
      BY <2>2
    <3>2. AroundEntry(w, j, s, k)
      BY <1>3, <1>11, <3>1 DEF AroundEntry
    <3> QED BY <3>2
  <2> QED BY <2>1, <2>2
<1> HIDE DEF bring, places
<1>12. CASE Append(q, e) \in places
  BY <1>10, <1>12
<1>13. CASE Append(q, e) \notin places
  <2>1. PICK b \in bring(q, f) : b >= x
    BY <1>9, <1>13
  <2> QED BY <1>3, <1>11, <2>1
<1> QED BY <1>12, <1>13

\* Frame n is at entry h of the message at u.
AtEntryOf(n, u, h) == /\ n \in 1..Len(stack) /\ u = stack[n].way
                      /\ stack[n].todo # <<>> /\ h = Head(stack[n].todo)

\* What comes before it is behind.
LEMMA LessIsGone ==
    ASSUME MergingInv, op = "READ", NEW n, NEW u, NEW h, AtEntryOf(n, u, h),
           NEW j \in Entries(u), Less(Entry(u, j), Entry(u, h))
    PROVE  j \in Gone(n)
<1>1. PICK todo : todo = stack[n].todo
  OBVIOUS
<1>2. /\ todo \in Seq(Entries(u)) /\ u \in Asked /\ input \in Inputs
      /\ \A a, b \in DOMAIN todo : a < b => ~Less(Entry(u, todo[b]), Entry(u, todo[a]))
      /\ IsInjective(todo)
  BY <1>1, StackParts DEF AtEntryOf, LoopInv
<1>3. h = todo[1] /\ h \in Entries(u) /\ DOMAIN todo = 1..Len(todo) /\ 1 \in 1..Len(todo) /\ Len(todo) \in Nat
  <2>1. todo # <<>> /\ h = Head(todo)
    BY <1>1 DEF AtEntryOf
  <2>2. Len(todo) \in Nat /\ DOMAIN todo = 1..Len(todo) /\ Len(todo) # 0
    BY <1>2, <2>1, LenProperties, EmptySeq
  <2> QED BY <1>2, <2>1, <2>2, InjectiveTail
<1>4. ~Less(Entry(u, h), Entry(u, h))
  <2>1. ComparatorIsStrictWeak
    BY <1>2, StrictWeak
  <2>2. u \in DOMAIN input
    BY <1>2 DEF Asked
  <2> QED BY <1>3, <2>1, <2>2 DEF ComparatorIsStrictWeak
<1>5. ASSUME j \in Range(todo)
      PROVE  FALSE
  <2>1. PICK m \in 1..Len(todo) : todo[m] = j
    BY <1>3, <1>5 DEF Range
  <2>2. CASE m = 1
    BY <1>3, <1>4, <2>1, <2>2
  <2>3. CASE m # 1
    <3>1. 1 < m
      BY <1>3, <2>3
    <3>2. ~Less(Entry(u, todo[m]), Entry(u, todo[1]))
      BY <1>2, <1>3, <3>1
    <3> QED BY <1>3, <2>1, <3>2
  <2> QED BY <2>2, <2>3
<1> QED BY <1>1, <1>5 DEF Gone, AtEntryOf

\* The chunk of what is not ahead has been merged into its place.
LEMMA BehindIsMerged ==
    ASSUME MergingInv, NEW w \in Asked, HasChunk(w), ~Ahead(w)
    PROVE  input[w].idx \in Chunk /\ Merged(Place(w), input[w].idx) # {}
<1>1. PICK p, c : p = Place(w) /\ c = input[w].idx
  OBVIOUS
<1>2. c \in Chunk
  <2>1. input[w] \in ChunkedField
    BY EntriesAreFields DEF Asked, MergingInv
  <2> QED BY <1>1, <2>1 DEF HasChunk, ChunkedField
<1>3. w \in Placements(p, c) /\ w \notin Pending(p, c) /\ Pending(p, c) \in SUBSET Placements(p, c)
  BY <1>1 DEF Placements, Pending
<1>4. IsFiniteSet(Placements(p, c))
  <2>1. IsFiniteSet(DOMAIN input)
    BY InputWays DEF MergingInv
  <2>2. Placements(p, c) \in SUBSET DOMAIN input
    BY DEF Placements, Asked
  <2> QED BY <2>1, <2>2, FS_Subset
<1>5. Cardinality(Placements(p, c)) # Cardinality(Pending(p, c))
  BY <1>3, <1>4, FS_Subset
<1>6. Cardinality(Merged(p, c)) + Cardinality(Pending(p, c)) = Cardinality(Placements(p, c))
      /\ Cardinality(Pending(p, c)) \in Nat
  BY <1>2, CountEverywhere
<1>7. Merged(p, c) # {}
  <2>1. Cardinality({}) = 0
    BY FS_EmptySet
  <2> QED BY <1>5, <1>6, <2>1
<1> QED BY <1>1, <1>2, <1>7

\* What it brings is there.
LEMMA MergedBrings ==
    ASSUME MergingInv, BroughtIsThere, NEW p, NEW c \in Chunk, Merged(p, c) # {},
           NEW f \in ListFields, NEW x \in Nat, x > 0, brings[c][f] >= x
    PROVE  ElementThere(nodes, p, f, x - 1)
<1>1. p \in DOMAIN nodes /\ c \in Range(nodes[p])
  BY DEF Merged, Range
<1>2. brings[c][f] \in Nat
  <2>1. brings \in [Chunk -> [Field -> Nat]]
    BY MergerAssumption DEF MergingInv
  <2> QED BY <2>1 DEF ListFields
<1>3. x - 1 \in 0..(brings[c][f] - 1)
  BY <1>2
<1> QED BY <1>1, <1>3 DEF BroughtIsThere, ElementThere

\* The message a frame fills is not ahead, nor is what its loop has left behind.
LEMMA GoneIsBehind ==
    ASSUME MergingInv, call = None, NEW n, NEW u, NEW h, AtEntryOf(n, u, h), n = Len(stack)
    PROVE  /\ input \in Inputs /\ u \in Asked /\ h \in Entries(u) /\ stack[n].at = Place(u)
           /\ ~Ahead(u)
           /\ \A j \in Gone(n) : OfMessage(Entry(u, j)) =>
                 Append(u, j) \in Asked /\ ~Ahead(Append(u, j))
<1>1. /\ n \in Nat /\ n # 0 /\ u = stack[n].way /\ n \in 1..n /\ n \in DOMAIN stack
      /\ LoopInv(n) /\ u \in Asked /\ Len(u) = n - 1 /\ LeadTo(u) /\ input \in Inputs
      /\ stack[n].todo # <<>> /\ h = Head(stack[n].todo)
  BY StackParts DEF AtEntryOf
<1>2. stack[n].at = Place(u) /\ h \in Entries(u)
  <2>1. stack[n].todo \in Seq(Entries(u)) /\ IsInjective(stack[n].todo)
    BY <1>1 DEF LoopInv
  <2> QED BY <1>1, <2>1, InjectiveTail DEF LoopInv
<1>3. Placed /\ AheadForm
  <2>1. Placed
    BY <1>1, StackParts DEF Placed, MergingInv, TypeOK
  <2> QED BY <2>1, AheadFrames
<1>4. ASSUME NEW w \in DOMAIN input, LeadTo(w)
      PROVE  ~Ahead(w)
  BY <1>3, <1>4, LedTo DEF AheadForm
<1>5. ~Ahead(u)
  BY <1>1, <1>4 DEF Asked
<1>6. ASSUME NEW j \in Gone(n), OfMessage(Entry(u, j))
      PROVE  Append(u, j) \in Asked /\ ~Ahead(Append(u, j))
  <2>1. PICK v : v = Append(u, j)
    OBVIOUS
  <2>2. j \in Entries(u) /\ j \notin Range(stack[n].todo)
    BY <1>1 DEF Gone
  <2>3. v \in Asked /\ v \in DOMAIN input
    BY <1>1, <1>6, <2>1, <2>2, AskedEntry DEF Asked
  <2>4. u \in Seq(Nat) /\ j \in Nat /\ DOMAIN u = 1..Len(u)
    BY <1>1, <2>2, InputWays, LenProperties DEF Asked, Way, Entries
  <2>5. /\ Len(v) = n /\ DOMAIN v = 1..n /\ v[n] = j /\ \A k \in 1..(n - 1) : v[k] = u[k]
        /\ \A k \in 0..(n - 1) : SubSeq(v, 1, k) = SubSeq(u, 1, k)
        /\ SubSeq(v, 1, n - 1) = u
    <3>1. v \in Seq(Nat)
      BY <2>1, <2>4, AppendProperties
    <3> QED BY <1>1, <2>1, <2>4, <3>1, AppendProperties, PrefixOfAppend, LenProperties
  <2>6. ASSUME NEW k \in DOMAIN v
        PROVE  /\ k \in DOMAIN stack
               /\ stack[k].way = SubSeq(v, 1, k - 1)
               /\ v[k] \notin Range(stack[k].todo)
    <3>1. CASE k = n
      BY <1>1, <2>2, <2>5, <3>1
    <3>2. CASE k # n
      <4>1. k \in 1..(n - 1) /\ k - 1 \in 0..(n - 1) /\ k \in DOMAIN u
        BY <1>1, <2>4, <2>5, <3>2
      <4>2. /\ k \in DOMAIN stack /\ stack[k].way = SubSeq(u, 1, k - 1)
            /\ u[k] \notin Range(stack[k].todo)
        BY <1>1, <4>1 DEF LeadTo
      <4> QED BY <2>5, <4>1, <4>2
    <3> QED BY <3>1, <3>2
  <2>7. LeadTo(v)
    BY <2>6 DEF LeadTo
  <2> QED BY <1>4, <2>1, <2>3, <2>7
<1> QED BY <1>1, <1>2, <1>5, <1>6

\* Where the loop of a Read is at, the elements below those that its entry needs are there.
LEMMA LowerIsThere ==
    ASSUME MergingInv, DenseInv, DenseRead, call = None,
           NEW n, NEW u, NEW h, AtEntryOf(n, u, h), n = Len(stack),
           NEW s, s = GetFieldTypes(Entry(u, h).tag)
    PROVE  LowerThere(nodes, Place(u), s)
<1>1. /\ input \in Inputs /\ u \in Asked /\ h \in Entries(u) /\ stack[n].at = Place(u)
      /\ ~Ahead(u)
      /\ \A j \in Gone(n) : OfMessage(Entry(u, j)) =>
            Append(u, j) \in Asked /\ ~Ahead(Append(u, j))
  BY GoneIsBehind
<1>2. /\ BroughtIsThere /\ GoneIsThere(n) /\ op = "READ" /\ Plain /\ DenseAt(u)
      /\ u \in DOMAIN input /\ stack[n].way = u
  BY <1>1, StackParts DEF DenseInv, DenseRead, Dense, Asked, AtEntryOf
<1>3. PICK at : at = Place(u)
  OBVIOUS
<1>4. at \in Path /\ at \in Seq(Seq(Element))
  BY <1>1, <1>3, PlaceEntry DEF Path, Element
<1>5. /\ Entry(u, h) \in ChunkedField /\ NoKeys(Entry(u, h).tag)
      /\ s \in Path /\ s \in Seq(Seq(Element)) /\ Len(s) \in Nat
      /\ \A k \in 1..Len(s) : PlainStep(s, k)
  BY <1>1, <1>2, PlainEntry DEF Path, Element
<1>6. ASSUME NEW k \in 1..Len(s), Kind[s[k][1]] = "repeated", s[k][2] > 0
      PROVE  ElementThere(nodes, at \o SubSeq(s, 1, k - 1), s[k][1], s[k][2] - 1)
  <2>1. PICK f, x, q : f = s[k][1] /\ x = s[k][2] /\ q = SubSeq(s, 1, k - 1)
    OBVIOUS
  <2>2. f \in ListFields /\ x \in Nat /\ Len(s[k]) = 2
    BY <1>5, <1>6, <2>1 DEF PlainStep, ListFields
  <2>3. k - 1 \in 0..Len(s) /\ k - 1 \in Nat /\ q \in Seq(Seq(Element)) /\ Len(q) = k - 1
        /\ \A m \in 1..(k - 1) : q[m] = s[m]
    BY <1>5, <2>1, PrefixElements
  <2>4. ASSUME NEW j \in Entries(u), LowerEntry(u, j, s, k)
        PROVE  ElementThere(nodes, at \o q, f, x - 1)
    <3>1. PICK r, e : r = GetFieldTypes(Entry(u, j).tag) /\ e = <<f, x - 1>>
      OBVIOUS
    <3>2. /\ Entry(u, j) \in ChunkedField /\ NoKeys(Entry(u, j).tag)
          /\ r \in Path /\ r \in Seq(Seq(Element)) /\ Len(r) \in Nat /\ DOMAIN r = 1..Len(r)
      BY <1>1, <1>2, <3>1, PlainEntry DEF Path, Element
    <3>3. k \in 1..Len(r) /\ SubSeq(r, 1, k) = Append(q, e)
      BY <2>1, <2>4, <3>1 DEF LowerEntry
    <3>4. e \in Seq(Element) /\ Len(e) = 2 /\ e[1] = f /\ e[2] = x - 1 /\ x - 1 \in Nat
      <4>1. x - 1 \in Nat
        BY <1>6, <2>1, <2>2
      <4>2. f \in Element /\ x - 1 \in Element
        BY <2>2, <4>1, MergerAssumption DEF ListFields, Element
      <4>3. <<f, x - 1>> \in Seq(Element)
        BY <4>2
      <4> QED BY <3>1, <4>1, <4>3
    <3>5. r[k] = e /\ \A m \in 1..(k - 1) : r[m] = s[m]
      <4>1. \A m \in 1..k : SubSeq(r, 1, k)[m] = r[m]
        BY <3>2, <3>3, PrefixElements
      <4>2. Append(q, e)[k] = e /\ \A m \in 1..(k - 1) : Append(q, e)[m] = q[m]
        BY <2>3, <3>4, AppendProperties
      <4>3. k \in 1..k /\ \A m \in 1..(k - 1) : m \in 1..k
        BY <2>3
      <4> QED BY <2>3, <3>3, <4>1, <4>2, <4>3
    <3>6. Less(Entry(u, j), Entry(u, h))
      <4>1. PICK l \in Nat : l = k - 1
        BY <2>3
      <4>2. SameSteps(r, s, l)
        BY <1>5, <3>2, <3>3, <3>5, <4>1 DEF SameSteps
      <4>3. ToElement(r, l + 1, f, x - 1) /\ ToElement(s, l + 1, f, x)
        <5>1. l + 1 = k /\ k <= Len(r) /\ k <= Len(s)
          BY <1>5, <3>2, <3>3, <4>1
        <5>2. r[k][1] = f /\ r[k][2] = x - 1 /\ Len(r[k]) = 2
          BY <3>4, <3>5
        <5> QED BY <2>1, <2>2, <3>4, <5>1, <5>2 DEF ToElement
      <4>4. PICK y : y = x - 1
        OBVIOUS
      <4>5. y < x /\ ToElement(r, l + 1, f, y)
        BY <2>2, <4>3, <4>4
      <4>6. /\ Entry(u, j) \in ChunkedField /\ Entry(u, h) \in ChunkedField
            /\ NoKeys(Entry(u, j).tag) /\ NoKeys(Entry(u, h).tag)
            /\ SameSteps(r, s, l) /\ ToElement(r, l + 1, f, y) /\ ToElement(s, l + 1, f, x) /\ y < x
        BY <1>5, <3>2, <4>2, <4>3, <4>5
      <4> QED BY <3>1, <4>6, LowerElementLess
    <3>7. j \in Gone(n)
      BY <1>2, <2>4, <3>6, LessIsGone
    <3>8. Kind[r[k][1]] \in MessageKinds /\ k \in DOMAIN r
      BY <2>2, <3>2, <3>3, <3>4, <3>5 DEF ListFields, MessageKinds
    <3>9. at \o SubSeq(r, 1, k) \in DOMAIN nodes
      BY <1>1, <1>2, <1>3, <3>1, <3>7, <3>8 DEF GoneIsThere
    <3>10. at \o Append(q, e) = Append(at \o q, e)
      BY <1>4, <2>3, <3>4, OneStepFurther
    <3> QED BY <3>1, <3>3, <3>9, <3>10 DEF ElementThere
  <2>5. ASSUME NEW j \in Entries(u), AroundEntry(u, j, s, k)
        PROVE  ElementThere(nodes, at \o q, f, x - 1)
    <3>1. PICK v, c : v = Append(u, j) /\ c = Entry(u, j).idx
      OBVIOUS
    <3>2. /\ OfMessage(Entry(u, j)) /\ GetFieldTypes(Entry(u, j).tag) = q
          /\ HasChunk(v) /\ brings[c][f] >= x /\ input[v].idx = c
      BY <2>1, <2>5, <3>1 DEF AroundEntry, Entry
    <3>3. Entry(u, j) \in ChunkedField /\ NoKeys(Entry(u, j).tag)
      BY <1>1, <1>2, PlainEntry
    <3>4. Less(Entry(u, j), Entry(u, h))
      <4>1. Len(q) < Len(s)
        BY <1>5, <2>3
      <4>2. SameSteps(q, s, Len(q))
        BY <1>5, <2>3 DEF SameSteps
      <4> QED BY <1>5, <3>2, <3>3, <4>1, <4>2, AroundLess
    <3>5. j \in Gone(n)
      BY <1>2, <2>5, <3>4, LessIsGone
    <3>6. v \in Asked /\ ~Ahead(v)
      BY <1>1, <3>1, <3>2, <3>5
    <3>7. Place(v) = at \o q
      BY <1>1, <1>3, <2>5, <3>1, <3>2, PlaceEntry
    <3>8. c \in Chunk /\ Merged(at \o q, c) # {}
      BY <3>2, <3>6, <3>7, BehindIsMerged
    <3> QED BY <1>2, <1>6, <2>1, <2>2, <3>2, <3>8, MergedBrings
  <2>6. ASSUME k = 1, HasChunk(u), brings[input[u].idx][f] >= x
        PROVE  ElementThere(nodes, at \o q, f, x - 1)
    <3>1. q = <<>>
      BY <2>3, <2>6, EmptySeq
    <3>2. at \o q = at
      BY <1>4, <3>1, ConcatEmptySeq
    <3>3. input[u].idx \in Chunk /\ Merged(at, input[u].idx) # {}
      BY <1>1, <1>3, <2>6, BehindIsMerged
    <3>4. ElementThere(nodes, at, f, x - 1)
      <4>1. PICK c : c = input[u].idx
        OBVIOUS
      <4> QED BY <1>2, <1>6, <2>1, <2>2, <2>6, <3>3, <4>1, MergedBrings
    <3> QED BY <3>2, <3>4
  <2>7. \/ \E j \in Entries(u) : LowerEntry(u, j, s, k) \/ AroundEntry(u, j, s, k)
        \/ k = 1 /\ HasChunk(u) /\ brings[input[u].idx][s[k][1]] >= s[k][2]
    BY <1>1, <1>2, <1>6, DenseParts
  <2> QED BY <2>1, <2>4, <2>5, <2>6, <2>7
<1> QED BY <1>3, <1>6 DEF LowerThere

------------------------------------------------------------------------------
(* What is dense has no gaps *)

\* The premise does not change.
LEMMA SameDenseRead ==
    ASSUME given' = given
    PROVE  DenseRead' <=> DenseRead
<1>1. input' = input /\ brings' = brings /\ op' = op /\ record' = record
  BY DEF given
<1>2. Asked' = Asked /\ (HasChunk(<<>>)' <=> HasChunk(<<>>))
  BY <1>1, SameInput
<1>3. ASSUME NEW w
      PROVE  DenseAt(w)' <=> DenseAt(w)
  BY <1>1 DEF DenseAt, Entries, Entry, HasChunk
<1>4. Dense' <=> Dense
  BY <1>2, <1>3 DEF Dense
<1>5. Plain' <=> Plain
  BY <1>1 DEF Plain
<1> QED BY <1>1, <1>2, <1>4, <1>5 DEF DenseRead

\* NoGaps of what nodes will be.
LEMMA NoGapsNext ==
    ASSUME NEW ms, nodes' = ms, NoGaps(ms)
    PROVE  NoGaps(nodes)'
<1>1. ASSUME NEW p, NEW f \in ListFields
      PROVE  /\ Elements(nodes, p, f)' = Elements(ms, p, f)
             /\ SizeOf(nodes, p, f)' = SizeOf(ms, p, f)
  <2>1. Elements(nodes, p, f)' = Elements(ms, p, f)
    BY DEF Elements
  <2>2. SizeOf(nodes, p, f)' = Cardinality(Elements(nodes, p, f)')
    BY DEF SizeOf, ListFields
  <2> QED BY <2>1, <2>2 DEF SizeOf, ListFields
<1> QED BY <1>1 DEF NoGaps

\* What chunks have brought stays, and added nodes have no chunks.
LEMMA BroughtKept ==
    ASSUME BroughtIsThere, Grown(nodes, nodes'), brings' = brings
    PROVE  BroughtIsThere'
<1> SUFFICES ASSUME NEW p \in DOMAIN nodes', NEW c \in Range(nodes'[p]), NEW f \in ListFields,
                    NEW i \in 0..(brings[c][f] - 1)
             PROVE  Append(p, <<f, i>>) \in DOMAIN nodes'
  BY DEF BroughtIsThere
<1>1. p \in DOMAIN nodes
  <2>1. DOMAIN <<>> = {}
    BY EmptySeq
  <2> QED BY <2>1 DEF Grown, Range
<1> QED BY <1>1 DEF BroughtIsThere, Grown

\* So does what a loop has left behind.
LEMMA GoneKept ==
    ASSUME NEW k, GoneIsThere(k), input' = input, stack'[k] = stack[k],
           DOMAIN nodes \subseteq DOMAIN nodes'
    PROVE  GoneIsThere(k)'
<1>1. PICK f : f = stack[k]
  OBVIOUS
<1>2. \A w : Entries(w)' = Entries(w) /\ \A i : Entry(w, i)' = Entry(w, i)
  BY SameInput
<1> QED BY <1>1, <1>2 DEF GoneIsThere, Gone

\* A step that changes neither nodes nor stack.
LEMMA QuietDense ==
    ASSUME DenseInv, UNCHANGED <<given, nodes, stack>>, status' = status \/ status' # "crash"
    PROVE  DenseInv'
<1>1. DenseRead' <=> DenseRead
  BY SameDenseRead
<1> SUFFICES ASSUME DenseRead
             PROVE  /\ status' # "crash" /\ NoGaps(nodes)' /\ BroughtIsThere'
                    /\ \A k \in DOMAIN stack' : GoneIsThere(k)'
  BY <1>1 DEF DenseInv
<1>2. /\ status # "crash" /\ NoGaps(nodes) /\ BroughtIsThere
      /\ \A k \in DOMAIN stack : GoneIsThere(k)
  BY DEF DenseInv
<1>3. NoGaps(nodes)'
  BY <1>2, NoGapsNext
<1>4. BroughtIsThere'
  <2>1. Grown(nodes, nodes') /\ brings' = brings
    BY DEF Grown, given
  <2> QED BY <1>2, <2>1, BroughtKept
<1>5. \A k \in DOMAIN stack' : GoneIsThere(k)'
  <2>1. input' = input /\ stack' = stack /\ nodes' = nodes
    BY DEF given
  <2> QED BY <1>2, <2>1, GoneKept
<1> QED BY <1>2, <1>3, <1>4, <1>5

\* The innermost loop leaves an entry behind, and the messages on the way to it are there.
LEMMA TakenDense ==
    ASSUME MergingInv, DenseInv, NEW u, NEW h, Taken(u, h), given' = given, status' = status,
           Grown(nodes, nodes'), DenseRead => NoGaps(nodes'),
           DenseRead => SteppedThere(nodes', Place(u), GetFieldTypes(Entry(u, h).tag),
                                     Len(GetFieldTypes(Entry(u, h).tag)))
    PROVE  DenseInv'
<1>1. DenseRead' <=> DenseRead
  BY SameDenseRead
<1> SUFFICES ASSUME DenseRead
             PROVE  /\ status' # "crash" /\ NoGaps(nodes)' /\ BroughtIsThere'
                    /\ \A k \in DOMAIN stack' : GoneIsThere(k)'
  BY <1>1 DEF DenseInv
<1>2. /\ status # "crash" /\ BroughtIsThere
      /\ \A k \in DOMAIN stack : GoneIsThere(k)
      /\ input' = input /\ brings' = brings /\ DOMAIN nodes \subseteq DOMAIN nodes'
      /\ input \in Inputs /\ Plain
  BY DEF DenseInv, given, Grown, MergingInv, DenseRead
<1>3. NoGaps(nodes)'
  BY NoGapsNext
<1>4. BroughtIsThere'
  BY <1>2, BroughtKept
<1>5. PICK n : n = Len(stack)
  OBVIOUS
<1>6. /\ Placed' /\ n \in Nat /\ n # 0 /\ Len(stack') = n /\ n \in 1..n
      /\ \A k \in 1..n : k # n => stack'[k] = stack[k]
      /\ stack[n].way = u /\ u \in Asked /\ stack[n] \in Frames
      /\ stack'[n] = [stack[n] EXCEPT !.todo = Tail(@)]
      /\ h \in Entries(u) /\ h = Head(stack[n].todo) /\ stack[n].todo # <<>>
      /\ DOMAIN stack = 1..n /\ LoopInv(n)
  BY <1>5, TakenStack, StackParts
<1>7. DOMAIN stack' = 1..n
  BY <1>6, LenProperties DEF Placed
<1>8. GoneIsThere(n)'
  <2>1. stack'[n].way = u /\ stack'[n].at = Place(u) /\ stack[n].at = Place(u)
        /\ stack'[n].todo = Tail(stack[n].todo)
    BY <1>6 DEF Frames, LoopInv
  <2>2. Range(stack[n].todo) = {h} \union Range(Tail(stack[n].todo))
    <3>1. stack[n].todo \in Seq(Entries(u)) /\ IsInjective(stack[n].todo)
      BY <1>6 DEF LoopInv
    <3> QED BY <1>6, <3>1, InjectiveTail
  <2>3. \A w : Entries(w)' = Entries(w) /\ \A i : Entry(w, i)' = Entry(w, i)
    BY <1>2, SameInput
  <2>4. ASSUME NEW i \in Gone(n)'
        PROVE  i = h \/ i \in Gone(n)
    BY <1>6, <2>1, <2>2, <2>3, <2>4 DEF Gone
  <2>5. ASSUME NEW i \in Gone(n)', NEW s, s = GetFieldTypes(Entry(u, i).tag),
               NEW m \in DOMAIN s, Kind[s[m][1]] \in MessageKinds
        PROVE  Place(u) \o SubSeq(s, 1, m) \in DOMAIN nodes'
    <3>1. CASE i = h
      <4>1. u \in DOMAIN input
        BY <1>6 DEF Asked
      <4>2. DOMAIN s = 1..Len(s)
        BY <1>2, <1>6, <2>5, <3>1, <4>1, PlainEntry
      <4> QED BY <2>5, <3>1, <4>2 DEF SteppedThere
    <3>2. CASE i # h
      <4>1. i \in Gone(n) /\ GoneIsThere(n)
        BY <1>2, <1>6, <2>4, <2>5, <3>2
      <4>2. Place(u) \o SubSeq(s, 1, m) \in DOMAIN nodes
        BY <1>6, <2>1, <2>5, <4>1 DEF GoneIsThere
      <4> QED BY <1>2, <4>2
    <3> QED BY <3>1, <3>2
  <2> QED BY <2>1, <2>3, <2>5 DEF GoneIsThere
<1>9. ASSUME NEW k \in 1..n
      PROVE  GoneIsThere(k)'
  <2>1. CASE k = n
    BY <1>8, <2>1
  <2>2. CASE k # n
    <3>1. stack'[k] = stack[k] /\ GoneIsThere(k)
      BY <1>2, <1>6, <2>2
    <3> QED BY <1>2, <3>1, GoneKept
  <2> QED BY <2>1, <2>2
<1> QED BY <1>2, <1>3, <1>4, <1>7, <1>9

\* A call that starts merges its chunk, and has left nothing behind.
LEMMA StartDense ==
    ASSUME MergingInv, DenseInv, call # None, NEW order, Start(MergeOwnChunk, order),
           Permitted(call.way, order)
    PROVE  DenseInv'
<1>1. DenseRead' <=> DenseRead
  BY SameDenseRead DEF Start
<1> SUFFICES ASSUME DenseRead
             PROVE  /\ status' # "crash" /\ NoGaps(nodes)' /\ BroughtIsThere'
                    /\ \A k \in DOMAIN stack' : GoneIsThere(k)'
  BY <1>1 DEF DenseInv
<1>2. PICK n, v, at, c : n = Len(stack) /\ v = call.way /\ at = call.at /\ c = input[v].idx
  OBVIOUS
<1>3. /\ input' = input /\ brings' = brings /\ status' = status /\ call' = None
      /\ nodes' = MergeOwnChunk /\ given' = given
      /\ stack' = Append(stack, [way |-> call.way, at |-> call.at, todo |-> order])
  BY DEF Start, given
<1>4. /\ status # "crash" /\ NoGaps(nodes) /\ BroughtIsThere
      /\ \A k \in DOMAIN stack : GoneIsThere(k)
  BY DEF DenseInv
<1>5. /\ input \in Inputs /\ v \in Asked /\ v \in DOMAIN input /\ at = Place(v)
      /\ at \in DOMAIN nodes /\ n \in Nat /\ DOMAIN stack = 1..n
  BY <1>2, StackParts DEF MergingInv, TypeOK, Asked
<1>6. at \in Path
  BY <1>5, PlaceEntry
<1>7. /\ NoGaps(nodes') /\ DOMAIN nodes \subseteq DOMAIN nodes' /\ BroughtIsThere'
  <2>1. CASE c = None
    <3>1. nodes' = nodes
      BY <1>2, <1>3, <2>1 DEF MergeOwnChunk, OwnIndex
    <3>2. Grown(nodes, nodes')
      BY <3>1 DEF Grown
    <3> QED BY <1>3, <1>4, <3>1, <3>2, BroughtKept
  <2>2. CASE c # None
    <3>1. PICK ms : ms = MergeChunk(nodes, at, c)
      OBVIOUS
    <3>2. nodes' = ms
      BY <1>2, <1>3, <2>2, <3>1 DEF MergeOwnChunk, OwnIndex
    <3>3. c \in Chunk /\ brings[c] \in [Field -> Nat]
      <4>1. input[v] \in ChunkedField
        BY <1>5, EntriesAreFields
      <4>2. c \in Chunk
        BY <1>2, <2>2, <4>1 DEF ChunkedField
      <4>3. brings \in [Chunk -> [Field -> Nat]]
        BY MergerAssumption DEF MergingInv
      <4> QED BY <4>2, <4>3
    <3>4. /\ NoGaps(ms)
          /\ \A f \in ListFields, i \in Nat :
                i < brings[c][f] => Append(at, <<f, i>>) \in DOMAIN ms
      BY <1>4, <1>5, <1>6, <3>1, <3>3, ChunkNoGaps
    <3>5. /\ DOMAIN nodes \subseteq DOMAIN ms
          /\ ms[at] = Append(nodes[at], c)
          /\ \A p \in DOMAIN nodes : p # at => ms[p] = nodes[p]
          /\ \A p \in DOMAIN ms : p \notin DOMAIN nodes => ms[p] = <<>>
      BY <1>5, <3>1, MergeChunkAppends
    <3>6. ASSUME NEW p \in DOMAIN ms, NEW b \in Range(ms[p])
          PROVE  p \in DOMAIN nodes /\ (b \in Range(nodes[p]) \/ (p = at /\ b = c))
      <4>1. p \in DOMAIN nodes
        <5>1. Range(<<>>) = {}
          BY EmptySeq DEF Range
        <5> QED BY <3>5, <3>6, <5>1
      <4>2. CASE p # at
        BY <3>5, <3>6, <4>1, <4>2
      <4>3. CASE p = at
        <5>1. PICK s : s = nodes[at]
          OBVIOUS
        <5>2. s \in Seq(Chunk)
          BY <1>5, <5>1 DEF MergingInv, TypeOK
        <5>3. b \in Range(Append(s, c))
          BY <3>5, <3>6, <4>3, <5>1
        <5>4. PICK m \in DOMAIN Append(s, c) : b = Append(s, c)[m]
          BY <5>3 DEF Range
        <5>5. /\ Len(s) \in Nat /\ DOMAIN s = 1..Len(s)
              /\ DOMAIN Append(s, c) = 1..(Len(s) + 1)
              /\ Append(s, c)[Len(s) + 1] = c /\ \A j \in 1..Len(s) : Append(s, c)[j] = s[j]
          BY <3>3, <5>2, AppendProperties, LenProperties
        <5>6. m = Len(s) + 1 \/ m \in 1..Len(s)
          BY <5>4, <5>5
        <5> QED BY <4>1, <4>3, <5>1, <5>4, <5>5, <5>6 DEF Range
      <4> QED BY <4>2, <4>3
    <3>7. ASSUME NEW p \in DOMAIN ms, NEW b \in Range(ms[p]), NEW f \in ListFields,
                 NEW i \in 0..(brings[b][f] - 1)
          PROVE  Append(p, <<f, i>>) \in DOMAIN ms
      <4>1. CASE b \in Range(nodes[p])
        <5>1. Append(p, <<f, i>>) \in DOMAIN nodes
          BY <1>4, <3>6, <4>1 DEF BroughtIsThere
        <5> QED BY <3>5, <5>1
      <4>2. CASE p = at /\ b = c
        <5>1. brings[c][f] \in Nat
          BY <3>3 DEF ListFields
        <5>2. i \in Nat /\ i < brings[c][f]
          BY <4>2, <5>1
        <5> QED BY <3>4, <4>2, <5>2
      <4> QED BY <3>6, <4>1, <4>2
    <3>8. BroughtIsThere'
      BY <1>3, <3>2, <3>7 DEF BroughtIsThere
    <3> QED BY <3>2, <3>4, <3>5, <3>8
  <2> QED BY <2>1, <2>2
<1>8. NoGaps(nodes)'
  BY <1>7, NoGapsNext
<1>9. Pushed(order)
  <2>1. order \in Seq(Entries(call.way)) /\ Range(order) = Entries(call.way)
    BY DEF Permitted
  <2>2. Entries(call.way) \subseteq Nat
    BY DEF Entries
  <2>3. order \in Seq(Nat)
    BY <2>1, <2>2, SeqMonotonic
  <2> QED BY <1>3, <2>1, <2>3 DEF Pushed
<1>10. /\ Placed' /\ Len(stack') = n + 1
       /\ \A k \in 1..n : stack'[k] = stack[k]
       /\ stack'[n + 1] = [way |-> v, at |-> at, todo |-> order]
  BY <1>2, <1>9, PushedStack
<1>11. DOMAIN stack' = 1..(n + 1)
  BY <1>10, LenProperties DEF Placed
<1>12. ASSUME NEW k \in 1..(n + 1)
       PROVE  GoneIsThere(k)'
  <2>1. CASE k \in 1..n
    <3>1. GoneIsThere(k) /\ stack'[k] = stack[k]
      BY <1>4, <1>5, <1>10, <2>1
    <3> QED BY <1>3, <1>7, <3>1, GoneKept
  <2>2. CASE k = n + 1
    <3>1. stack'[k].way = v /\ stack'[k].todo = order
      BY <1>10, <2>2
    <3>2. Entries(v)' = Entries(v) /\ Range(order) = Entries(v)
      BY <1>2, <1>3, SameInput DEF Permitted
    <3>3. Gone(k)' = {}
      BY <3>1, <3>2 DEF Gone
    <3> QED BY <3>3 DEF GoneIsThere
  <2> QED BY <1>5, <2>1, <2>2
<1> QED BY <1>3, <1>4, <1>7, <1>8, <1>11, <1>12

\* The innermost loop is over.
LEMMA ReturnDense ==
    ASSUME MergingInv, DenseInv, Return
    PROVE  DenseInv'
<1>0. PICK n : n = Len(stack)
  OBVIOUS
<1>1. /\ input' = input /\ brings' = brings /\ op' = op /\ given' = given
      /\ nodes' = nodes /\ call = None /\ call' = None
      /\ status = "running" /\ status' = IF n = 1 THEN "OK" ELSE status
  BY <1>0 DEF Return, InLoop, Running, Outermost, given
<1>2. DenseRead' <=> DenseRead
  BY <1>1, SameDenseRead
<1> SUFFICES ASSUME DenseRead
             PROVE  /\ status' # "crash" /\ NoGaps(nodes)' /\ BroughtIsThere'
                    /\ \A k \in DOMAIN stack' : GoneIsThere(k)'
  BY <1>2 DEF DenseInv
<1>3. /\ NoGaps(nodes) /\ BroughtIsThere /\ \A k \in DOMAIN stack : GoneIsThere(k)
  BY DEF DenseInv
<1>4. Popped
  BY <1>1 DEF Return, InLoop, Popped
<1>5. /\ Placed' /\ Len(stack') = n - 1 /\ n \in Nat /\ DOMAIN stack = 1..n
      /\ \A k \in 1..(n - 1) : stack'[k] = stack[k]
  BY <1>0, <1>1, <1>4, FramesPopped, StackParts
<1>6. DOMAIN stack' = 1..(n - 1)
  BY <1>5, LenProperties DEF Placed
<1>7. ASSUME NEW k \in 1..(n - 1)
      PROVE  GoneIsThere(k)'
  <2>1. GoneIsThere(k) /\ stack'[k] = stack[k]
    BY <1>3, <1>5
  <2> QED BY <1>1, <2>1, GoneKept
<1>8. NoGaps(nodes)' /\ BroughtIsThere'
  <2>1. Grown(nodes, nodes')
    BY <1>1 DEF Grown
  <2> QED BY <1>1, <1>3, <2>1, NoGapsNext, BroughtKept
<1> QED BY <1>1, <1>6, <1>7, <1>8

\* The entry a loop is at can be reached, and leads to no number.
LEMMA EntrySurvives ==
    ASSUME MergingInv, DenseInv, DenseRead, AtEntry
    PROVE  /\ Target.alive /\ NoGaps(Target.nodes)
           /\ SteppedThere(Target.nodes, Place(Last(stack).way), GetFieldTypes(Current.tag),
                           Len(GetFieldTypes(Current.tag)))
           /\ Current.tag # <<>> => LeafKind(Current.tag) # "number"
<1>1. PICK n, u, h : n = Len(stack) /\ u = Last(stack).way /\ h = Head(Last(stack).todo)
  OBVIOUS
<1>2. call = None /\ stack # <<>> /\ Last(stack).todo # <<>>
  BY DEF AtEntry, InLoop
<1>3. Last(stack) = stack[n] /\ n \in 1..n /\ n \in DOMAIN stack
  <2>1. stack \in Seq(Frames)
    BY DEF MergingInv, TypeOK
  <2>2. n \in Nat /\ n # 0 /\ DOMAIN stack = 1..n
    BY <1>1, <1>2, <2>1, LenProperties, EmptySeq
  <2> QED BY <1>1, <2>2 DEF Last
<1>4. AtEntryOf(n, u, h)
  BY <1>1, <1>2, <1>3 DEF AtEntryOf
<1>5. Current = Entry(u, h)
  BY <1>1 DEF Current, CurrentWay, Entry
<1>6. PICK at, s : at = Place(u) /\ s = GetFieldTypes(Current.tag)
  OBVIOUS
<1>7. input \in Inputs /\ u \in Asked /\ u \in DOMAIN input /\ h \in Entries(u) /\ Last(stack).at = at
  BY <1>1, <1>2, <1>3, <1>4, <1>6, GoneIsBehind DEF Asked
<1>8. /\ Entry(u, h) \in ChunkedField /\ s \in Path /\ Len(s) \in Nat
      /\ \A k \in 1..Len(s) : PlainStep(s, k)
  BY <1>5, <1>6, <1>7, PlainEntry DEF DenseRead
<1>9. LowerThere(nodes, at, s)
  BY <1>1, <1>2, <1>4, <1>5, <1>6, LowerIsThere
<1>10. at \in Path /\ at \in DOMAIN nodes /\ NoGaps(nodes)
  <2>1. at \in Path
    BY <1>6, <1>7, PlaceEntry
  <2> QED BY <1>3, <1>7, <2>1 DEF DenseInv, MergingInv, TypeOK
<1>11. PICK t : t = Target
  OBVIOUS
<1>12. t = Navigate(nodes, at, s)
  BY <1>6, <1>7, <1>11 DEF Target
<1>13. Alive(t, nodes, at, s, Len(s))
  BY <1>8, <1>9, <1>10, <1>12, NavigateSurvives
<1>14. ASSUME Current.tag # <<>>
       PROVE  LeafKind(Current.tag) # "number"
  <2>1. Current.tag \in Tag
    BY <1>5, <1>8, FieldParts
  <2>2. PICK l \in Field : StepsOf(s, l)
    BY <1>6, <1>14, <2>1, FieldTypes
  <2>3. Len(s) \in 1..Len(s) /\ s[Len(s)][1] = l
    BY <1>8, <2>2, EmptySeq DEF StepsOf
  <2>4. Kind[l] # "number"
    BY <1>8, <2>3 DEF PlainStep
  <2> QED BY <1>6, <2>3, <2>4 DEF LeafKind, Last
<1> QED BY <1>1, <1>6, <1>11, <1>13, <1>14 DEF Alive

\* The record of the message whose call starts is there.
LEMMA OwnRecordThere ==
    ASSUME MergingInv, DenseRead, call # None
    PROVE  OwnRecord # "missing"
<1> SUFFICES ASSUME OwnIndex # None
             PROVE  record[OwnIndex] # "missing"
  BY DEF OwnRecord
<1>1. PICK v, k : v = call.way /\ k = Len(v)
  OBVIOUS
<1>2. v \in Asked /\ v \in DOMAIN input /\ input \in Inputs /\ OwnIndex = input[v].idx
  BY <1>1, StackParts DEF OwnIndex, Asked
<1>3. v \in Seq(Nat) /\ k \in Nat
  BY <1>1, <1>2, InputWays, LenProperties DEF Way
<1>4. CASE v = <<>>
  BY <1>2, <1>4 DEF DenseRead, HasChunk
<1>5. CASE v # <<>>
  <2>1. k \in 1..Len(v)
    BY <1>1, <1>3, <1>5, EmptySeq
  <2>2. PICK w, i : w = SubSeq(v, 1, k - 1) /\ i = v[k]
    OBVIOUS
  <2>3. w \in Asked /\ i \in Entries(w) /\ v = Append(w, i)
    <3>1. SubSeq(v, 1, k) = v
      BY <1>1, <1>3, SubSeqFull
    <3> QED BY <1>2, <2>1, <2>2, <3>1, AskedParts, WayParts
  <2>4. record[ChunkIndex(input[v])] # "missing"
    BY <1>1, <2>3 DEF MergingInv, RecordInv, DenseRead
  <2> QED BY <1>2, <2>4 DEF ChunkIndex
<1> QED BY <1>4, <1>5

\* Nothing is there yet but the message itself, and it has no lists.
LEMMA InitDense == Init => DenseInv
<1> SUFFICES ASSUME Init
             PROVE  /\ status # "crash" /\ NoGaps(nodes) /\ BroughtIsThere
                    /\ \A k \in DOMAIN stack : GoneIsThere(k)
  BY DEF DenseInv
<1>1. /\ status = "running" /\ DOMAIN nodes = {<<>>} /\ nodes[<<>>] = <<>>
      /\ stack = <<>>
  BY DEF Init
<1>2. NoGaps(nodes)
  <2>1. ASSUME NEW f \in ListFields
        PROVE  /\ SizeOf(nodes, <<>>, f) = 0 /\ Elements(nodes, <<>>, f) = {}
    <3>1. Elements(nodes, <<>>, f) = {}
      <4>1. Len(<<>>) = 0
        BY EmptySeq
      <4> QED BY <1>1, <4>1 DEF Elements
    <3> QED BY <3>1, FS_EmptySet DEF SizeOf, ListFields
  <2> QED BY <1>1, <2>1 DEF NoGaps
<1>3. BroughtIsThere
  <2>1. Range(nodes[<<>>]) = {}
    BY <1>1, EmptySeq DEF Range
  <2> QED BY <1>1, <2>1 DEF BroughtIsThere
<1>4. \A k \in DOMAIN stack : FALSE
  BY <1>1, EmptySeq
<1> QED BY <1>1, <1>2, <1>3, <1>4

\* Every action keeps what is dense without gaps.
LEMMA StepDense == MergingInv /\ DenseInv /\ [Next]_vars => DenseInv'
<1> SUFFICES ASSUME MergingInv, DenseInv, [Next]_vars
             PROVE  DenseInv'
  OBVIOUS
<1>1. ASSUME Merge
      PROVE  DenseInv'
  <2>1. given' = given /\ op = "MERGE"
    BY <1>1 DEF Merge, Start
  <2>2. DenseRead' <=> DenseRead
    BY <2>1, SameDenseRead
  <2> QED BY <2>1, <2>2 DEF DenseInv, DenseRead
<1>2. ASSUME ReadFields
      PROVE  DenseInv'
  <2>1. call # None /\ op = "READ"
    BY <1>2 DEF ReadFields
  <2>2. PICK order \in Sorted(call.way) : Start(MergeOwnChunk, order)
    BY <1>2 DEF ReadFields
  <2>3. call.way \in DOMAIN input /\ input[call.way].size \in Nat
    <3>1. input \in Inputs /\ call.way \in Asked
      BY <2>1, StackParts
    <3> QED BY <3>1, EntriesAreFields DEF Asked
  <2>4. Permitted(call.way, order)
    BY <2>1, <2>3, SortedOrder
  <2> QED BY <2>1, <2>2, <2>4, StartDense
<1>3. ASSUME ReadFieldsNoChunk
      PROVE  DenseInv'
  <2>1. call # None /\ OwnRecord = "missing" /\ given' = given
    BY <1>3 DEF ReadFieldsNoChunk, Stop
  <2>2. ~DenseRead
    BY <2>1, OwnRecordThere
  <2>3. DenseRead' <=> DenseRead
    BY <2>1, SameDenseRead
  <2> QED BY <2>2, <2>3 DEF DenseInv
<1>4. ASSUME ReadFieldsGarbled \/ ProcessFieldNoChunk \/ ProcessFieldOutOfRange \/ UNCHANGED vars
      PROVE  DenseInv'
  <2>1. UNCHANGED <<given, nodes, stack>> /\ (status' = status \/ status' # "crash")
    BY <1>4 DEF ReadFieldsGarbled, ProcessFieldNoChunk, ProcessFieldOutOfRange, Stop, vars
  <2> QED BY <2>1, QuietDense
<1>5. ASSUME Return
      PROVE  DenseInv'
  BY <1>5, ReturnDense
<1>6. ASSUME ProcessFieldCrash
      PROVE  DenseInv'
  <2>1. /\ AtEntry /\ Current.tag # <<>> /\ given' = given
        /\ ~Target.alive \/ LeafKind(Current.tag) = "number"
    BY <1>6 DEF ProcessFieldCrash, Stop
  <2>2. ~DenseRead
    BY <2>1, EntrySurvives
  <2>3. DenseRead' <=> DenseRead
    BY <2>1, SameDenseRead
  <2> QED BY <2>2, <2>3 DEF DenseInv
<1>7. ASSUME AtEntry, Advance, given' = given, status' = status,
             nodes' = IF Current.tag = <<>> THEN nodes ELSE Target.nodes
      PROVE  DenseInv'
  <2>1. PICK u, h : u = Last(stack).way /\ h = Head(Last(stack).todo)
    OBVIOUS
  <2>2. Taken(u, h)
    BY <1>7, <2>1 DEF Taken, AtEntry, InLoop, given
  <2>3. /\ Current = Entry(u, h)
        /\ Current.tag # <<>> => Grown(nodes, Target.nodes)
    BY <2>2, TakenEntry
  <2>4. PICK s : s = GetFieldTypes(Entry(u, h).tag)
    OBVIOUS
  <2>5. CASE Current.tag = <<>>
    <3>1. nodes' = nodes
      BY <1>7, <2>5
    <3>2. Grown(nodes, nodes')
      BY <3>1 DEF Grown
    <3>3. DenseRead => NoGaps(nodes')
      BY <3>1 DEF DenseInv
    <3>4. s = <<>>
      <4>1. Len(<<>>) = 0
        BY EmptySeq
      <4>2. PICK f : Loops(f, "tag", <<>>, <<>>, 0) /\ GetFieldTypes(<<>>) = f[0]
        BY <4>1, TagLoops
      <4>3. f[0] = <<>>
        BY <4>2, LoopRounds
      <4> QED BY <2>3, <2>4, <2>5, <4>2, <4>3
    <3>5. SteppedThere(nodes', Place(u), s, Len(s))
      BY <3>4, EmptySeq DEF SteppedThere
    <3> QED BY <1>7, <2>2, <2>4, <3>2, <3>3, <3>5, TakenDense
  <2>6. CASE Current.tag # <<>>
    <3>1. nodes' = Target.nodes /\ Grown(nodes, nodes')
      BY <1>7, <2>3, <2>6
    <3>2. DenseRead => NoGaps(nodes') /\ SteppedThere(nodes', Place(u), s, Len(s))
      BY <1>7, <2>1, <2>3, <2>4, <3>1, EntrySurvives
    <3> QED BY <1>7, <2>2, <2>4, <3>1, <3>2, TakenDense
  <2> QED BY <2>5, <2>6
<1>8. ASSUME ProcessFieldOfParent
      PROVE  DenseInv'
  BY <1>7, <1>8 DEF ProcessFieldOfParent
<1>9. ASSUME ProcessFieldMessage \/ ProcessFieldScalar
      PROVE  DenseInv'
  BY <1>7, <1>9 DEF ProcessFieldMessage, ProcessFieldScalar
<1> QED BY <1>1, <1>2, <1>3, <1>4, <1>5, <1>6, <1>8, <1>9 DEF Next

------------------------------------------------------------------------------
(* Theorems *)

\* What is merged and what is ahead make up what was asked for.
LEMMA MergingAlways == Spec => []MergingInv
<1>1. Init => MergingInv
  BY InitInv
<1>2. MergingInv /\ [Next]_vars => MergingInv'
  BY StepInv
<1> QED BY <1>1, <1>2, PTL DEF Spec

\* What Merge, ReadFields and ProcessField have merged and what their loops have still
\* ahead of them always make up what the ChunkedMessage asks for (merge.cc:59-78, 181-400);
\* and in a Read of something dense no list of the merged message ever has a gap, and
\* what the entries behind have created is there.
THEOREM Invariance == Spec => []MergerInv
<1>1. Init => MergerInv
  BY InitInv, InitDense DEF MergerInv
<1>2. MergerInv /\ [Next]_vars => MergerInv'
  BY StepInv, StepDense DEF MergerInv
<1> QED BY <1>1, <1>2, PTL DEF Spec

\* Every running call fills a node of the merged message that is there, and the status
\* is one that Merge or Read may return.
THEOREM Typing == Spec => []TypeOK
<1>1. MergingInv => TypeOK
  BY DEF MergingInv
<1> QED BY <1>1, MergingAlways, PTL

\* The comparator of merge.cc:205-231 is a strict weak order on the entries of any
\* message, with whatever tags: std::sort is defined.
THEOREM AlwaysStrictWeak == Spec => []ComparatorIsStrictWeak
<1>1. MergingInv => ComparatorIsStrictWeak
  BY StrictWeak DEF MergingInv
<1> QED BY <1>1, MergingAlways, PTL

\* In whatever order std::sort has left its entries, ReadFields merges a message before
\* anything that goes inside it (merge.cc:195-199).
THEOREM OuterAlwaysFirst == Spec => []OuterFirst
<1>1. MergingInv => OuterFirst
  <2> SUFFICES ASSUME MergingInv, op = "READ", NEW k \in DOMAIN stack,
                      NEW m \in DOMAIN stack[k].todo, NEW n \in DOMAIN stack[k].todo,
                      m < n, NoKeys(TodoTag(k, n)),
                      StrictPrefix(TodoTag(k, n), TodoTag(k, m))
               PROVE  FALSE
    BY DEF OuterFirst
  <2>1. PICK w, i, j : w = stack[k].way /\ i = stack[k].todo[m] /\ j = stack[k].todo[n]
    OBVIOUS
  <2>2. /\ input \in Inputs /\ w \in Asked /\ LoopInv(k)
        /\ stack[k].todo \in Seq(Entries(w))
    BY <2>1, StackParts DEF LoopInv
  <2>3. i \in Entries(w) /\ j \in Entries(w)
    BY <2>1, <2>2, LenProperties, ElementOfSeq
  <2>4. ~Less(Entry(w, j), Entry(w, i))
    BY <2>1, <2>2 DEF LoopInv
  <2>5. PICK a, b : a = Entry(w, j) /\ b = Entry(w, i)
    OBVIOUS
  <2>6. a \in ChunkedField /\ b \in ChunkedField /\ a.tag \in Tag /\ b.tag \in Tag
    BY <2>2, <2>3, <2>5, EntriesAreFields, FieldParts DEF Asked
  <2>7. NoKeys(a.tag) /\ Len(a.tag) < Len(b.tag) /\ IsPrefix(a.tag, b.tag)
    BY <2>1, <2>5 DEF TodoTag, StrictPrefix
  <2>8. /\ Len(a.tag) \in Nat /\ DOMAIN a.tag = 1..Len(a.tag)
        /\ Len(b.tag) \in Nat /\ DOMAIN b.tag = 1..Len(b.tag)
    BY <2>6, TagElements
  <2>9. \A d \in 1..Len(a.tag) : a.tag[d] = b.tag[d]
    BY <2>6, <2>7, <2>8 DEF IsPrefix, Tag
  <2>10. Agree(a.tag, b.tag)
    BY <2>7, <2>8, <2>9 DEF Agree, NoKeys
  <2>11. Less(a, b)
    BY <2>6, <2>7, <2>10, AgreeingOrder
  <2> QED BY <2>4, <2>5, <2>11
<1> QED BY <1>1, MergingAlways, PTL

\* Once every frame is popped nothing is ahead.
LEMMA NothingAhead ==
    ASSUME MergingInv, status = "OK"
    PROVE  call = None /\ \A w : ~Ahead(w)
<1>1. call = None /\ stack = <<>>
  BY DEF MergingInv, StackInv
<1> QED BY <1>1 DEF Ahead

\* In the end, what comes before an entry was merged before it.
LEMMA ComesInTurn ==
    ASSUME MergingInv, status = "OK", NEW w \in Asked, NEW i \in Entries(w),
           NEW j \in Entries(w), ComesBefore(w, i, j)
    PROVE  InTurn(w, i, j)
<1>1. \A v : ~Ahead(v)
  BY NothingAhead
<1> QED BY <1>1 DEF MergingInv, OrderInv, InTurn

\* When Merge or Read returns OK every chunk is in its own place as often as the
\* ChunkedMessage asks for, and nowhere else, at any depth of messages.
THEOREM EveryChunkMergedOnce == Spec => []EveryChunkOnce
<1>1. MergingInv => EveryChunkOnce
  <2> SUFFICES ASSUME MergingInv, status = "OK", NEW p, NEW c \in Chunk
               PROVE  Cardinality(Merged(p, c)) = Cardinality(Placements(p, c))
    BY DEF EveryChunkOnce
  <2>1. Pending(p, c) = {}
    BY NothingAhead DEF Pending
  <2>2. Cardinality(Pending(p, c)) = 0
    BY <2>1, FS_EmptySet
  <2> QED BY <2>2, CountEverywhere
<1> QED BY <1>1, MergingAlways, PTL

\* Read never returns OK without a chunk that it had to look up or merge
\* (merge.cc:185-193, 250-258).
THEOREM OKMissesNoChunk == Spec => []NoChunkMissingFromOK
<1>1. MergingInv => NoChunkMissingFromOK
  <2> SUFFICES ASSUME MergingInv, status = "OK", op = "READ", NEW w \in Asked
               PROVE  /\ HasChunk(w) => record[input[w].idx] = "good"
                      /\ \A i \in Entries(w) : record[ChunkIndex(Entry(w, i))] # "missing"
    BY DEF NoChunkMissingFromOK
  <2>1. \A v : ~Ahead(v)
    BY NothingAhead
  <2>2. /\ HasChunk(w) => record[input[w].idx] = "good"
        /\ \A i \in Entries(w) : record[ChunkIndex(input[Append(w, i)])] # "missing"
    BY <2>1 DEF MergingInv, RecordInv
  <2> QED BY <2>2 DEF Entry
<1> QED BY <1>1, MergingAlways, PTL

\* Merge merges chunks of the same message field in the order of the list, whatever else
\* is between them (merge.cc:71).
THEOREM SameFieldStaysInOrder == Spec => []SameFieldInOrder
<1>1. MergingInv => SameFieldInOrder
  <2> SUFFICES ASSUME MergingInv, status = "OK", op = "MERGE", NEW w \in Asked,
                      NEW i \in Entries(w), NEW j \in Entries(w), SameField(w, i, j), i < j
               PROVE  InTurn(w, i, j)
    BY DEF SameFieldInOrder
  <2>1. ComesBefore(w, i, j)
    BY DEF ComesBefore
  <2> QED BY <2>1, ComesInTurn
<1> QED BY <1>1, MergingAlways, PTL

\* Read merges them in the order of their chunk indices, which the comparator looks at
\* last (merge.cc:222-225), and so against the order of the list where the two differ.
THEOREM EarlierChunksStayFirst == Spec => []EarlierChunksFirst
<1>1. MergingInv => EarlierChunksFirst
  <2> SUFFICES ASSUME MergingInv, status = "OK", op = "READ", NEW w \in Asked,
                      NEW i \in Entries(w), NEW j \in Entries(w), SameField(w, i, j),
                      Entry(w, i).idx < Entry(w, j).idx, NoKeys(Entry(w, i).tag)
               PROVE  InTurn(w, i, j)
    BY DEF EarlierChunksFirst
  <2>1. ComesBefore(w, i, j)
    BY DEF ComesBefore
  <2> QED BY <2>1, ComesInTurn
<1> QED BY <1>1, MergingAlways, PTL

\* Read survives whatever is dense: no entry leads past the end of a list, because the
\* comparator of merge.cc:205-231 has put the lower element, or the chunk that brings it,
\* before it, so that ProcessField (merge.cc:276-322) always finds or can add the element.
THEOREM DenseReadAlwaysSurvives == Spec => []DenseReadSurvives
<1>1. MergerInv => DenseReadSurvives
  BY DEF MergerInv, DenseInv, DenseReadSurvives
<1> QED BY <1>1, Invariance, PTL
==============================================================================
