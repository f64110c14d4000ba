---------------------------- MODULE SequenceLemmas ----------------------------
(***************************************************************************)
(* What the lists of the splitters and the files do when something is      *)
(* inserted, appended or flushed, and where the last of equal elements is. *)
(***************************************************************************)
EXTENDS Sequences, SequencesExt, SequenceTheorems, WellFoundedInduction, TLAPS

\* t is s, which has n elements, with e put in at position p.
Inserted(t, s, n, p, e) ==
    \A j \in 1..(n + 1) : /\ j < p => t[j] = s[j]
                          /\ j = p => t[j] = e
                          /\ j > p => t[j] = s[j - 1]

\* InsertAt, which models vector::insert, inserts.
LEMMA InsertAtInserts ==
    ASSUME NEW S, NEW s \in Seq(S), NEW p \in 1..(Len(s) + 1), NEW e \in S
    PROVE  /\ InsertAt(s, p, e) \in Seq(S)
           /\ Len(InsertAt(s, p, e)) = Len(s) + 1
           /\ Inserted(InsertAt(s, p, e), s, Len(s), p, e)
<1> DEFINE front == SubSeq(s, 1, p - 1)
           back == SubSeq(s, p, Len(s))
<1>0. Len(s) \in Nat
  BY LenProperties
<1>1. /\ front \in Seq(S)
      /\ Len(front) = p - 1
      /\ \A i \in 1..(p - 1) : front[i] = s[i]
  <2>1. \A i \in 1..(p - 1) : s[i] \in S
    BY <1>0, ElementOfSeq
  <2>2. /\ front \in Seq(S)
        /\ Len(front) = IF 1 <= p - 1 THEN p - 1 - 1 + 1 ELSE 0
        /\ \A i \in 1..(p - 1 - 1 + 1) : front[i] = s[1 + i - 1]
    BY <1>0, <2>1, SubSeqProperties
  <2> QED BY <1>0, <2>2
<1>2. /\ back \in Seq(S)
      /\ Len(back) = Len(s) - p + 1
      /\ \A i \in 1..(Len(s) - p + 1) : back[i] = s[p + i - 1]
  <2>1. \A i \in p..Len(s) : s[i] \in S
    BY <1>0, ElementOfSeq
  <2>2. /\ back \in Seq(S)
        /\ Len(back) = IF p <= Len(s) THEN Len(s) - p + 1 ELSE 0
        /\ \A i \in 1..(Len(s) - p + 1) : back[i] = s[p + i - 1]
    BY <1>0, <2>1, SubSeqProperties
  <2> QED BY <1>0, <2>2
<1>3. <<e>> \in Seq(S) /\ Len(<<e>>) = 1 /\ <<e>>[1] = e
  OBVIOUS
<1> DEFINE mid == front \o <<e>>
<1> HIDE DEF front, back
<1>4. /\ mid \in Seq(S)
      /\ Len(mid) = p
      /\ \A i \in 1..p : mid[i] = IF i <= p - 1 THEN front[i] ELSE <<e>>[i - (p - 1)]
  BY <1>0, <1>1, <1>3, ConcatProperties
<1> HIDE DEF mid
<1>5. /\ mid \o back \in Seq(S)
      /\ Len(mid \o back) = Len(s) + 1
      /\ \A i \in 1..(Len(s) + 1) :
            (mid \o back)[i] = IF i <= p THEN mid[i] ELSE back[i - p]
  <2>1. /\ mid \o back \in Seq(S)
        /\ Len(mid \o back) = Len(mid) + Len(back)
        /\ \A i \in 1..(Len(mid) + Len(back)) :
              (mid \o back)[i] = IF i <= Len(mid) THEN mid[i] ELSE back[i - Len(mid)]
    BY <1>2, <1>4, ConcatProperties
  <2>2. Len(mid) = p /\ Len(mid) + Len(back) = Len(s) + 1
    BY <1>0, <1>2, <1>4
  <2> QED BY <2>1, <2>2, ZenonT(30)
<1>6. InsertAt(s, p, e) = mid \o back
  BY DEF InsertAt, front, back, mid
<1>7. ASSUME NEW i \in 1..(Len(s) + 1)
      PROVE  /\ i < p => (mid \o back)[i] = s[i]
             /\ i = p => (mid \o back)[i] = e
             /\ i > p => (mid \o back)[i] = s[i - 1]
  <2>1. CASE i < p
    <3>1. i \in 1..p /\ i \in 1..(p - 1) /\ i <= p /\ i <= p - 1
      BY <1>0, <2>1
    <3>2. (mid \o back)[i] = s[i]
      BY <1>1, <1>4, <1>5, <3>1, Zenon
    <3> QED BY <1>0, <2>1, <3>2
  <2>2. CASE i = p
    <3>1. i \in 1..p /\ i <= p /\ ~(i <= p - 1) /\ i - (p - 1) = 1
      BY <1>0, <2>2
    <3>2. (mid \o back)[i] = e
      BY <1>3, <1>4, <1>5, <3>1, Zenon
    <3> QED BY <1>0, <2>2, <3>2
  <2>3. CASE i > p
    <3>1. /\ ~(i <= p)
          /\ i - p \in 1..(Len(s) - p + 1)
          /\ p + (i - p) - 1 = i - 1
      BY <1>0, <2>3
    <3>2. (mid \o back)[i] = s[i - 1]
      BY <1>2, <1>5, <3>1, Zenon
    <3> QED BY <1>0, <2>3, <3>2
  <2>4. i < p \/ i = p \/ i > p
    BY <1>0
  <2> QED BY <2>1, <2>2, <2>3, <2>4, Zenon
<1> QED BY <1>5, <1>6, <1>7 DEF Inserted

\* push_back inserts at the end.
LEMMA AppendInserts ==
    ASSUME NEW S, NEW s \in Seq(S), NEW e \in S
    PROVE  /\ Append(s, e) \in Seq(S)
           /\ Len(Append(s, e)) = Len(s) + 1
           /\ Inserted(Append(s, e), s, Len(s), Len(s) + 1, e)
BY AppendProperties, LenProperties DEF Inserted

\* push_back is an insertion at the end.
LEMMA AppendIsInsertAt ==
    ASSUME NEW S, NEW s \in Seq(S), NEW e \in S
    PROVE  Append(s, e) = InsertAt(s, Len(s) + 1, e)
<1> DEFINE n == Len(s)
           t == InsertAt(s, n + 1, e)
<1>1. n \in Nat /\ n + 1 \in 1..(n + 1)
  BY LenProperties
<1>2. t \in Seq(S) /\ Len(t) = n + 1 /\ Inserted(t, s, n, n + 1, e)
  BY <1>1, InsertAtInserts
<1>3. /\ Append(s, e) \in Seq(S)
      /\ Len(Append(s, e)) = n + 1
      /\ Inserted(Append(s, e), s, n, n + 1, e)
  BY AppendInserts
<1> HIDE DEF t, n
<1>4. \A i \in 1..(n + 1) : Append(s, e)[i] = t[i]
  BY <1>1, <1>2, <1>3 DEF Inserted
<1>5. Append(s, e) = t
  BY <1>1, <1>2, <1>3, <1>4, SeqEqual
<1> QED BY <1>5 DEF t, n

\* Insertion adds its element to the set of elements, and no other.
LEMMA InsertedElements ==
    ASSUME NEW S, NEW s \in Seq(S), NEW t \in Seq(S), NEW e,
           NEW p \in 1..(Len(s) + 1),
           Len(t) = Len(s) + 1,
           Inserted(t, s, Len(s), p, e)
    PROVE  ToSet(t) = ToSet(s) \union {e}
<1> DEFINE n == Len(s)
<1>1. n \in Nat /\ DOMAIN s = 1..n /\ DOMAIN t = 1..(n + 1)
  BY LenProperties
<1>2. \A j \in 1..(n + 1) :
         /\ j < p => t[j] = s[j]
         /\ j = p => t[j] = e
         /\ j > p => t[j] = s[j - 1]
  BY Zenon DEF Inserted
<1> HIDE DEF n
<1>3. ASSUME NEW j \in 1..(n + 1)
      PROVE  t[j] \in ToSet(s) \union {e}
  <2>1. CASE j < p
    <3>1. j \in 1..n /\ t[j] = s[j]
      BY <1>1, <1>2, <2>1 DEF n
    <3> QED BY <1>1, <3>1 DEF ToSet
  <2>2. CASE j = p
    BY <1>2, <2>2
  <2>3. CASE j > p
    <3>1. j - 1 \in 1..n /\ t[j] = s[j - 1]
      BY <1>1, <1>2, <2>3 DEF n
    <3> QED BY <1>1, <3>1 DEF ToSet
  <2> QED BY <1>1, <2>1, <2>2, <2>3 DEF n
<1>4. ASSUME NEW j \in 1..n
      PROVE  s[j] \in ToSet(t)
  <2>1. CASE j < p
    <3>1. j \in 1..(n + 1) /\ t[j] = s[j]
      BY <1>1, <1>2, <2>1 DEF n
    <3> QED BY <1>1, <3>1 DEF ToSet
  <2>2. CASE j >= p
    <3>1. j + 1 \in 1..(n + 1) /\ t[j + 1] = s[j]
      BY <1>1, <1>2, <2>2 DEF n
    <3> QED BY <1>1, <3>1 DEF ToSet
  <2> QED BY <1>1, <2>1, <2>2 DEF n
<1>5. e \in ToSet(t)
  <2>1. p \in 1..(n + 1) /\ t[p] = e
    BY <1>1, <1>2 DEF n
  <2> QED BY <1>1, <2>1 DEF ToSet
<1> QED BY <1>1, <1>3, <1>4, <1>5 DEF ToSet

\* A sequence is a prefix of itself and of what has an element more.
LEMMA AppendKeepsPrefix ==
    ASSUME NEW S, NEW s \in Seq(S), NEW x \in S
    PROVE  IsPrefix(s, s) /\ IsPrefix(s, Append(s, x))
<1>1. Len(s) \in Nat /\ Append(s, x) \in Seq(S) /\ Len(Append(s, x)) = Len(s) + 1
  BY LenProperties, AppendProperties
<1>2. SubSeq(s, 1, Len(s)) = SubSeq(Append(s, x), 1, Len(s))
  <2>1. \A k \in 1..Len(s) : Append(s, x)[k] = s[k]
    BY AppendProperties
  <2> QED BY <1>1, <2>1, SMT
<1> QED BY <1>1, <1>2 DEF IsPrefix

\* What is appended to the second part of a sequence is appended to the whole.
LEMMA ConcatAppend ==
    ASSUME NEW S, NEW s \in Seq(S), NEW t \in Seq(S), NEW e \in S
    PROVE  s \o Append(t, e) = Append(s \o t, e)
BY AppendIsConcat, ConcatAssociative, AppendProperties

\* The first element of the second part may be the last of the first one.
LEMMA MoveHead ==
    ASSUME NEW S, NEW s \in Seq(S), NEW t \in Seq(S), t # <<>>
    PROVE  /\ Append(s, Head(t)) \in Seq(S)
           /\ Tail(t) \in Seq(S)
           /\ Append(s, Head(t)) \o Tail(t) = s \o t
OBVIOUS

\* An element of a sequence is somewhere the last time.
LEMMA LastOccurrence ==
    ASSUME NEW S, NEW s \in Seq(S), NEW e \in ToSet(s)
    PROVE  \E i \in DOMAIN s : s[i] = e /\ \A j \in DOMAIN s : j > i => s[j] # e
<1> DEFINE n == Len(s)
           T == {m \in Nat : \E i \in 1..n : s[i] = e /\ m = n - i}
           R == OpToRel(<, Nat)
<1>1. n \in Nat /\ DOMAIN s = 1..n
  BY LenProperties
<1>2. PICK i \in 1..n : s[i] = e
  BY <1>1 DEF ToSet
<1>3. n - i \in T
  BY <1>1, <1>2
<1>4. IsWellFoundedOn(R, Nat)
  BY NatLessThanWellFounded
<1>5. \A x, y \in Nat : y < x => <<y, x>> \in R
  BY DEF OpToRel
<1> HIDE DEF R
<1>6. T \subseteq Nat /\ T # {}
  BY <1>3
<1>7. PICK x \in T : \A y \in T : ~(<<y, x>> \in R)
  BY <1>4, <1>6, WFMin
<1>8. PICK k \in 1..n : s[k] = e /\ x = n - k
  OBVIOUS
<1>9. ASSUME NEW j \in 1..n, j > k, s[j] = e
      PROVE  FALSE
  <2>1. n - j \in T /\ n - j < x /\ x \in Nat /\ n - j \in Nat
    BY <1>1, <1>8, <1>9
  <2>2. <<n - j, x>> \in R
    BY <1>5, <2>1
  <2> QED BY <1>7, <2>1, <2>2
<1> QED BY <1>1, <1>8, <1>9
------------------------------------------------------------------------------
(* Induction over the natural numbers *)

\* Induction for a set of numbers, which unlike an operator can be a lemma's parameter.
LEMMA SetInduction ==
    ASSUME NEW P, 0 \in P, \A n \in Nat : n \in P => n + 1 \in P
    PROVE  Nat \subseteq P
<1> DEFINE T == Nat \ P
           R == OpToRel(<, Nat)
<1>1. SUFFICES ASSUME T # {} PROVE FALSE
  OBVIOUS
<1>2. IsWellFoundedOn(R, Nat)
  BY NatLessThanWellFounded
<1>3. \A x, y \in Nat : y < x => <<y, x>> \in R
  BY DEF OpToRel
<1> HIDE DEF R
<1>4. T \subseteq Nat
  OBVIOUS
<1>5. PICK x \in T : \A y \in T : ~(<<y, x>> \in R)
  BY <1>1, <1>2, <1>4, WFMin
<1>6. x # 0 /\ x \in Nat
  OBVIOUS
<1>7. x - 1 \in Nat /\ x - 1 < x /\ x - 1 + 1 = x
  BY <1>6
<1>8. x - 1 \in P
  BY <1>3, <1>5, <1>6, <1>7
<1> QED BY <1>5, <1>7, <1>8

------------------------------------------------------------------------------
(* FlattenSeq *)

\* f joins the first n sequences of ss.
Flattens(f, ss, n) ==
    f = [i \in 1..n |-> IF i = 1 THEN ss[i] ELSE f[i - 1] \o ss[i]]

\* The function FlattenSeq defines is there.
LEMMA FlattenExists ==
    ASSUME NEW ss, NEW n \in Nat
    PROVE  \E f : Flattens(f, ss, n)
<1> DEFINE P == {m \in Nat : \E f : Flattens(f, ss, m)}
<1>1. 0 \in P
  <2>1. Flattens(<<>>, ss, 0)
    BY DEF Flattens
  <2> QED BY <2>1
<1>2. ASSUME NEW m \in Nat, m \in P
      PROVE  m + 1 \in P
  <2>1. PICK f : f = [i \in 1..m |-> IF i = 1 THEN ss[i] ELSE f[i - 1] \o ss[i]]
    BY <1>2 DEF Flattens
  <2> DEFINE last == IF m + 1 = 1 THEN ss[m + 1] ELSE f[m] \o ss[m + 1]
             g == [i \in 1..(m + 1) |-> IF i = m + 1 THEN last ELSE f[i]]
  <2>2. \A i \in 1..m : f[i] = IF i = 1 THEN ss[i] ELSE f[i - 1] \o ss[i]
    BY <2>1
  <2>3. ASSUME NEW i \in 1..(m + 1)
        PROVE  g[i] = IF i = 1 THEN ss[i] ELSE g[i - 1] \o ss[i]
    <3>1. CASE i = 1 /\ i = m + 1
      BY <3>1
    <3>2. CASE i = 1 /\ i # m + 1
      <4>1. i \in 1..m
        BY <3>2
      <4> QED BY <2>2, <3>2, <4>1
    <3>3. CASE i # 1
      <4>1. i - 1 \in 1..m /\ i - 1 \in 1..(m + 1) /\ i - 1 # m + 1
        BY <3>3
      <4>2. g[i - 1] = f[i - 1]
        BY <4>1
      <4>3. CASE i = m + 1
        <5>1. g[i] = last /\ i - 1 = m
          BY <4>3
        <5>2. last = f[m] \o ss[m + 1]
          BY <3>3, <4>3
        <5> HIDE DEF g, last
        <5> QED BY <3>3, <4>2, <4>3, <5>1, <5>2
      <4>4. CASE i # m + 1
        <5>1. i \in 1..m /\ g[i] = f[i]
          BY <4>4
        <5> QED BY <2>2, <3>3, <4>2, <5>1
      <4> QED BY <4>3, <4>4
    <3> QED BY <3>1, <3>2, <3>3
  <2>4. g = [i \in 1..(m + 1) |-> IF i = 1 THEN ss[i] ELSE g[i - 1] \o ss[i]]
    <3>1. g = [i \in 1..(m + 1) |-> g[i]]
      OBVIOUS
    <3> HIDE DEF g
    <3> QED BY <2>3, <3>1
  <2>5. Flattens(g, ss, m + 1)
    <3> HIDE DEF g
    <3> QED BY <2>4 DEF Flattens
  <2> QED BY <2>5
<1> HIDE DEF P
<1>3. Nat \subseteq P
  BY <1>1, <1>2, SetInduction
<1> QED BY <1>3 DEF P

\* What FlattenSeq is, for a sequence that is not empty.
LEMMA FlattenDef ==
    ASSUME NEW S, NEW ss \in Seq(Seq(S)), ss # <<>>
    PROVE  \E f : Flattens(f, ss, Len(ss)) /\ FlattenSeq(ss) = f[Len(ss)]
<1> DEFINE n == Len(ss)
           f == CHOOSE h : h = [i \in 1..n |-> IF i = 1 THEN ss[i] ELSE h[i - 1] \o ss[i]]
<1>1. n \in Nat /\ n # 0
  BY EmptySeq
<1>2. \E h : h = [i \in 1..n |-> IF i = 1 THEN ss[i] ELSE h[i - 1] \o ss[i]]
  BY <1>1, FlattenExists DEF Flattens
<1>3. f = [i \in 1..n |-> IF i = 1 THEN ss[i] ELSE f[i - 1] \o ss[i]]
  BY <1>2
<1>4. FlattenSeq(ss) = f[n]
  BY <1>1 DEF FlattenSeq
<1> HIDE DEF f
<1> QED BY <1>3, <1>4 DEF Flattens

\* f and g agree up to n, on sequences over S.
SameTo(S, n, f, g) == \A i \in 1..n : f[i] \in Seq(S) /\ g[i] = f[i]

\* Two functions that join the same first parts agree on them.
LEMMA FlattensAgree ==
    ASSUME NEW S, NEW n \in Nat, NEW m \in Nat, n <= m, NEW ss, NEW tt, NEW f, NEW g,
           Flattens(f, ss, n), Flattens(g, tt, m),
           SameTo(S, n, ss, tt)
    PROVE  SameTo(S, n, f, g)
<1>0. \A i \in 1..n : ss[i] \in Seq(S) /\ tt[i] = ss[i]
  BY DEF SameTo
<1> DEFINE P == {k \in Nat : k \in 1..n => f[k] \in Seq(S) /\ g[k] = f[k]}
<1>1. \A k \in 1..n : f[k] = IF k = 1 THEN ss[k] ELSE f[k - 1] \o ss[k]
  BY DEF Flattens
<1>2. \A k \in 1..n : g[k] = IF k = 1 THEN tt[k] ELSE g[k - 1] \o tt[k]
  <2>1. \A k \in 1..m : g[k] = IF k = 1 THEN tt[k] ELSE g[k - 1] \o tt[k]
    BY DEF Flattens
  <2> QED BY <2>1
<1>3. 0 \in P
  OBVIOUS
<1>4. ASSUME NEW k \in Nat, k \in P
      PROVE  k + 1 \in P
  <2> SUFFICES ASSUME k + 1 \in 1..n
               PROVE  f[k + 1] \in Seq(S) /\ g[k + 1] = f[k + 1]
    OBVIOUS
  <2>1. CASE k = 0
    BY <1>0, <1>1, <1>2, <2>1
  <2>2. CASE k # 0
    <3>1. k \in 1..n /\ k + 1 - 1 = k /\ k + 1 # 1
      BY <2>2
    <3>2. f[k] \in Seq(S) /\ g[k] = f[k]
      BY <1>4, <3>1
    <3>3. f[k + 1] = f[k] \o ss[k + 1] /\ g[k + 1] = g[k] \o tt[k + 1]
      <4> DEFINE j == k + 1
      <4>1. j \in 1..n /\ j # 1 /\ j - 1 = k
        BY <3>1
      <4> HIDE DEF j
      <4>2. f[j] = f[j - 1] \o ss[j] /\ g[j] = g[j - 1] \o tt[j]
        BY <1>1, <1>2, <4>1
      <4>3. f[j] = f[k] \o ss[j] /\ g[j] = g[k] \o tt[j]
        BY <4>1, <4>2
      <4> QED BY <4>3 DEF j
    <3>4. ss[k + 1] \in Seq(S) /\ tt[k + 1] = ss[k + 1]
      BY <1>0
    <3>5. f[k] \o ss[k + 1] \in Seq(S)
      BY <3>2, <3>4, ConcatProperties
    <3> QED BY <3>2, <3>3, <3>4, <3>5
  <2> QED BY <2>1, <2>2
<1> HIDE DEF P
<1>5. Nat \subseteq P
  BY <1>3, <1>4, SetInduction
<1> QED BY <1>5 DEF P, SameTo

\* A part that is appended is joined to the others.
LEMMA FlattenAppend ==
    ASSUME NEW S, NEW ss \in Seq(Seq(S)), NEW s \in Seq(S)
    PROVE  /\ FlattenSeq(ss) \in Seq(S)
           /\ FlattenSeq(Append(ss, s)) = FlattenSeq(ss) \o s
<1> DEFINE n == Len(ss)
           tt == Append(ss, s)
<1>1. n \in Nat
  BY LenProperties
<1>2. /\ tt \in Seq(Seq(S)) /\ tt # <<>> /\ Len(tt) = n + 1
      /\ \A i \in 1..n : tt[i] = ss[i]
      /\ tt[n + 1] = s
  BY AppendProperties
<1> HIDE DEF tt
<1>3. PICK g : Flattens(g, tt, n + 1) /\ FlattenSeq(tt) = g[n + 1]
  BY <1>2, FlattenDef
<1>4. g[n + 1] = IF n + 1 = 1 THEN tt[n + 1] ELSE g[n + 1 - 1] \o tt[n + 1]
  <2>1. \A i \in 1..(n + 1) : g[i] = IF i = 1 THEN tt[i] ELSE g[i - 1] \o tt[i]
    BY <1>3 DEF Flattens
  <2> DEFINE j == n + 1
  <2>2. j \in 1..j
    BY <1>1
  <2>3. \A i \in 1..j : g[i] = IF i = 1 THEN tt[i] ELSE g[i - 1] \o tt[i]
    BY <2>1
  <2>4. g[j] = IF j = 1 THEN tt[j] ELSE g[j - 1] \o tt[j]
    <3> HIDE DEF j
    <3> QED BY <2>2, <2>3
  <2> QED BY <2>4
<1>5. CASE ss = <<>>
  <2>1. FlattenSeq(ss) = <<>> /\ n = 0
    BY <1>5, EmptySeq DEF FlattenSeq
  <2>2. <<>> \in Seq(S) /\ <<>> \o s = s
    BY EmptySeq, ConcatEmptySeq
  <2> QED BY <1>2, <1>3, <1>4, <2>1, <2>2 DEF tt
<1>6. CASE ss # <<>>
  <2>1. PICK f : Flattens(f, ss, n) /\ FlattenSeq(ss) = f[n]
    BY <1>6, FlattenDef
  <2>2. n # 0 /\ n \in 1..n
    BY <1>6, EmptySeq
  <2>3. \A i \in 1..n : ss[i] \in Seq(S) /\ tt[i] = ss[i]
    BY <1>2, ElementOfSeq
  <2>4. \A i \in 1..n : f[i] \in Seq(S) /\ g[i] = f[i]
    <3>1. PICK m : m = n + 1
      OBVIOUS
    <3> HIDE DEF n
    <3>2. /\ n \in Nat /\ m \in Nat /\ n <= m
          /\ Flattens(f, ss, n) /\ Flattens(g, tt, m)
      BY <1>1, <1>3, <2>1, <3>1
    <3>3. SameTo(S, n, ss, tt)
      BY <2>3 DEF SameTo
    <3>4. SameTo(S, n, f, g)
      BY <3>2, <3>3, FlattensAgree
    <3> QED BY <3>4 DEF SameTo
  <2>5. g[n + 1] = f[n] \o s
    <3>1. n + 1 # 1 /\ n + 1 - 1 = n
      BY <2>2, <1>1
    <3> QED BY <1>2, <1>4, <2>2, <2>4, <3>1
  <2> QED BY <1>3, <2>1, <2>2, <2>4, <2>5 DEF tt
<1> QED BY <1>5, <1>6


------------------------------------------------------------------------------
(* Prefixes *)

\* A prefix has the first elements.
LEMMA PrefixElements ==
    ASSUME NEW S, NEW s \in Seq(S), NEW k \in 0..Len(s)
    PROVE  /\ SubSeq(s, 1, k) \in Seq(S)
           /\ Len(SubSeq(s, 1, k)) = k
           /\ \A i \in 1..k : SubSeq(s, 1, k)[i] = s[i]
<1>1. Len(s) \in Nat /\ k \in Nat /\ \A i \in 1..k : s[i] \in S
  <2>1. Len(s) \in Nat
    BY LenProperties
  <2> QED BY <2>1, ElementOfSeq
<1>2. /\ SubSeq(s, 1, k) \in Seq(S)
      /\ Len(SubSeq(s, 1, k)) = IF 1 <= k THEN k - 1 + 1 ELSE 0
      /\ \A i \in 1..(k - 1 + 1) : SubSeq(s, 1, k)[i] = s[1 + i - 1]
  BY <1>1, SubSeqProperties
<1>3. \A i \in 1..k : SubSeq(s, 1, k)[i] = s[i]
  BY <1>1, <1>2
<1> QED BY <1>1, <1>2, <1>3

\* Two prefixes of equal length are equal if their elements are.
LEMMA SamePrefix ==
    ASSUME NEW S, NEW s \in Seq(S), NEW t \in Seq(S), NEW k \in 0..Len(s), k \in 0..Len(t),
           \A i \in 1..k : s[i] = t[i]
    PROVE  SubSeq(s, 1, k) = SubSeq(t, 1, k)
<1> DEFINE p == SubSeq(s, 1, k)
           q == SubSeq(t, 1, k)
<1>1. p \in Seq(S) /\ Len(p) = k /\ \A i \in 1..k : p[i] = s[i]
  BY PrefixElements
<1>2. q \in Seq(S) /\ Len(q) = k /\ \A i \in 1..k : q[i] = t[i]
  BY PrefixElements
<1> HIDE DEF p, q
<1>3. p = q
  BY <1>1, <1>2, SeqEqual
<1> QED BY <1>3 DEF p, q

\* A prefix of a prefix.
LEMMA PrefixOfPrefix ==
    ASSUME NEW S, NEW s \in Seq(S), NEW k \in 0..Len(s), NEW j \in 0..k
    PROVE  SubSeq(SubSeq(s, 1, k), 1, j) = SubSeq(s, 1, j)
<1> DEFINE p == SubSeq(s, 1, k)
<1>1. Len(s) \in Nat
  BY LenProperties
<1>2. p \in Seq(S) /\ Len(p) = k /\ \A i \in 1..k : p[i] = s[i]
  BY PrefixElements
<1> HIDE DEF p
<1>3. j \in 0..Len(p) /\ j \in 0..Len(s) /\ \A i \in 1..j : p[i] = s[i]
  BY <1>1, <1>2
<1>4. SubSeq(p, 1, j) = SubSeq(s, 1, j)
  BY <1>2, <1>3, SamePrefix
<1> QED BY <1>4 DEF p

\* The whole sequence is the prefix before the last element, and that.
LEMMA PrefixOfAppend ==
    ASSUME NEW S, NEW s \in Seq(S), NEW e \in S
    PROVE  /\ Front(Append(s, e)) = s /\ Last(Append(s, e)) = e
           /\ \A k \in 0..Len(s) : SubSeq(Append(s, e), 1, k) = SubSeq(s, 1, k)
           /\ SubSeq(Append(s, e), 1, Len(s)) = s
           /\ SubSeq(Append(s, e), 1, Len(s) + 1) = Append(s, e)
<1> DEFINE t == Append(s, e)
           n == Len(s)
           m == n + 1
<1>1. n \in Nat /\ m \in Nat /\ m - 1 = n
  BY LenProperties
<1>2. t \in Seq(S) /\ Len(t) = m /\ t[m] = e /\ \A i \in 1..n : t[i] = s[i]
  BY AppendProperties
<1>3. SubSeq(s, 1, n) = s /\ SubSeq(t, 1, m) = t
  BY <1>2, SubSeqFull
<1> HIDE DEF t
<1>4. ASSUME NEW k \in 0..n
      PROVE  SubSeq(t, 1, k) = SubSeq(s, 1, k)
  <2>1. k \in 0..Len(t) /\ k \in 0..Len(s) /\ \A i \in 1..k : t[i] = s[i]
    BY <1>1, <1>2
  <2> QED BY <1>2, <2>1, SamePrefix
<1>5. SubSeq(t, 1, n) = s
  BY <1>1, <1>3, <1>4
<1>6. Front(t) = s /\ Last(t) = e
  BY <1>1, <1>2, <1>5 DEF Front, Last
<1> QED BY <1>3, <1>4, <1>5, <1>6 DEF t

\* A prefix is the one before, and one element.
LEMMA PrefixLast ==
    ASSUME NEW S, NEW s \in Seq(S), NEW k \in 1..Len(s)
    PROVE  SubSeq(s, 1, k) = Append(SubSeq(s, 1, k - 1), s[k])
<1> DEFINE j == k - 1
           p == SubSeq(s, 1, k)
           q == SubSeq(s, 1, j)
           t == Append(q, s[k])
<1>1. Len(s) \in Nat /\ k \in Nat /\ j \in Nat /\ k = j + 1
      /\ k \in 0..Len(s) /\ j \in 0..Len(s)
  BY LenProperties
<1>2. s[k] \in S
  BY ElementOfSeq
<1> HIDE DEF j
<1>3. p \in Seq(S) /\ Len(p) = k /\ \A i \in 1..k : p[i] = s[i]
  BY <1>1, PrefixElements
<1>4. q \in Seq(S) /\ Len(q) = j /\ \A i \in 1..j : q[i] = s[i]
  BY <1>1, PrefixElements
<1>5. t \in Seq(S) /\ Len(t) = k /\ t[k] = s[k] /\ \A i \in 1..j : t[i] = q[i]
  <2> HIDE DEF q
  <2> QED BY <1>1, <1>2, <1>4, AppendProperties
<1> HIDE DEF p, q, t
<1>6. \A i \in 1..k : p[i] = t[i]
  BY <1>1, <1>3, <1>4, <1>5
<1>7. p = t
  BY <1>3, <1>5, <1>6, SeqEqual
<1> QED BY <1>7 DEF p, q, t, j
==============================================================================
