------------------------- MODULE RepeatedField_proofs -------------------------
(***************************************************************************)
(* Proofs about RepeatedField, for any sizes of elements, any number of    *)
(* factories and of attempts, and any limit: no element is lost or put in  *)
(* another order, a slice is within the limit, and it is as large as it    *)
(* can be unless a return value wrapped.                                   *)
(***************************************************************************)
EXTENDS RepeatedField, SequenceLemmas

(* Slices of a sequence *)

\* What a slice holds, when the split points are in order.
LEMMA SliceElements ==
    ASSUME NEW S, NEW w \in Seq(S), NEW a \in Nat, NEW b \in 0..Len(w), a <= b
    PROVE  /\ Slice(w, a, b) \in Seq(S)
           /\ Len(Slice(w, a, b)) = b - a
           /\ \A j \in 1..(b - a) : Slice(w, a, b)[j] = w[a + j]
<1>1. Len(w) \in Nat /\ b \in Nat
  BY LenProperties
<1>2. \A j \in (a + 1)..b : w[j] \in S
  BY <1>1, ElementOfSeq
<1>3. /\ SubSeq(w, a + 1, b) \in Seq(S)
      /\ Len(SubSeq(w, a + 1, b)) = IF a + 1 <= b THEN b - (a + 1) + 1 ELSE 0
      /\ \A j \in 1..(b - (a + 1) + 1) : SubSeq(w, a + 1, b)[j] = w[a + 1 + j - 1]
  BY <1>1, <1>2, SubSeqProperties
<1> DEFINE s == SubSeq(w, a + 1, b)
<1> HIDE DEF s
<1>4. /\ s \in Seq(S)
      /\ Len(s) = IF a + 1 <= b THEN b - (a + 1) + 1 ELSE 0
      /\ \A j \in 1..(b - (a + 1) + 1) : s[j] = w[a + 1 + j - 1]
  BY <1>3 DEF s
<1>5. Len(s) = b - a
  BY <1>1, <1>4
<1>6. \A j \in 1..(b - a) : s[j] = w[a + j]
  <2>1. b - (a + 1) + 1 = b - a /\ \A j \in 1..(b - a) : a + 1 + j - 1 = a + j
    BY <1>1
  <2> QED BY <1>4, <2>1
<1> QED BY <1>4, <1>5, <1>6 DEF Slice, s

\* An empty slice, and the slice that is everything.
LEMMA SliceEnds ==
    ASSUME NEW S, NEW w \in Seq(S), NEW a \in 0..Len(w)
    PROVE  /\ Slice(w, a, a) = <<>>
           /\ Slice(w, 0, Len(w)) = w
<1>1. Len(w) \in Nat /\ a \in Nat /\ Len(w) \in 0..Len(w) /\ 0 <= Len(w)
  BY LenProperties
<1>2. Slice(w, a, a) \in Seq(S) /\ Len(Slice(w, a, a)) = 0
  BY <1>1, SliceElements
<1>3. /\ Slice(w, 0, Len(w)) \in Seq(S) /\ Len(Slice(w, 0, Len(w))) = Len(w)
      /\ \A j \in 1..Len(w) : Slice(w, 0, Len(w))[j] = w[j]
  <2>1. /\ Slice(w, 0, Len(w)) \in Seq(S) /\ Len(Slice(w, 0, Len(w))) = Len(w) - 0
        /\ \A j \in 1..(Len(w) - 0) : Slice(w, 0, Len(w))[j] = w[0 + j]
    BY <1>1, SliceElements
  <2>2. Len(w) - 0 = Len(w) /\ \A j \in 1..Len(w) : 0 + j = j
    BY <1>1
  <2> QED BY <2>1, <2>2
<1>4. Slice(w, a, a) = <<>>
  BY <1>2, EmptySeq
<1>5. Slice(w, 0, Len(w)) = w
  BY <1>3, SeqEqual
<1> QED BY <1>4, <1>5

\* One element more.
LEMMA SliceExtended ==
    ASSUME NEW S, NEW w \in Seq(S), NEW a \in Nat, NEW b \in 0..(Len(w) - 1), a <= b
    PROVE  Slice(w, a, b + 1) = Append(Slice(w, a, b), w[b + 1])
<1>1. Len(w) \in Nat /\ b \in Nat /\ b \in 0..Len(w) /\ b + 1 \in 0..Len(w) /\ a <= b + 1
  BY LenProperties
<1> DEFINE s == Slice(w, a, b)
           t == Slice(w, a, b + 1)
           e == w[b + 1]
<1>2. /\ s \in Seq(S) /\ Len(s) = b - a
      /\ \A j \in 1..(b - a) : s[j] = w[a + j]
  BY <1>1, SliceElements
<1>3. /\ t \in Seq(S) /\ Len(t) = b + 1 - a
      /\ \A j \in 1..(b + 1 - a) : t[j] = w[a + j]
  <2> DEFINE c == b + 1
  <2>1. c \in 0..Len(w) /\ a <= c
    BY <1>1
  <2> HIDE DEF c
  <2>2. /\ Slice(w, a, c) \in Seq(S) /\ Len(Slice(w, a, c)) = c - a
        /\ \A j \in 1..(c - a) : Slice(w, a, c)[j] = w[a + j]
    BY <2>1, SliceElements
  <2> QED BY <2>2 DEF c
<1>4. e \in S
  BY <1>1, ElementOfSeq
<1> HIDE DEF s, t
<1>5. /\ Append(s, e) \in Seq(S) /\ Len(Append(s, e)) = Len(s) + 1
      /\ \A j \in 1..Len(s) : Append(s, e)[j] = s[j]
      /\ Append(s, e)[Len(s) + 1] = e
  BY <1>2, <1>4, AppendProperties
<1>6. ASSUME NEW j \in 1..(b + 1 - a)
      PROVE  t[j] = Append(s, e)[j]
  <2>1. CASE j = b + 1 - a
    <3>1. j = Len(s) + 1 /\ a + j = b + 1
      BY <1>1, <1>2, <2>1
    <3> QED BY <1>3, <1>5, <3>1
  <2>2. CASE j # b + 1 - a
    <3>1. j \in 1..(b - a) /\ j \in 1..Len(s)
      BY <1>1, <1>2, <2>2
    <3> QED BY <1>2, <1>3, <1>5, <3>1
  <2> QED BY <2>1, <2>2
<1>7. Len(t) = Len(Append(s, e))
  BY <1>1, <1>2, <1>3, <1>5
<1>8. t = Append(s, e)
  BY <1>3, <1>5, <1>6, <1>7, SeqEqual
<1> QED BY <1>8 DEF s, t

\* A slice of a slice is a slice.
LEMMA SliceOfSlice ==
    ASSUME NEW S, NEW w \in Seq(S), NEW a \in Nat, NEW c \in 0..Len(w), a <= c,
           NEW x \in Nat, NEW y \in 0..(c - a), x <= y
    PROVE  Slice(Slice(w, a, c), x, y) = Slice(w, a + x, a + y)
<1> DEFINE s == Slice(w, a, c)
           t == Slice(s, x, y)
           u == Slice(w, a + x, a + y)
<1>1. /\ Len(w) \in Nat /\ a + x \in Nat /\ a + y \in 0..Len(w) /\ a + x <= a + y
      /\ y \in Nat /\ c \in Nat
  BY LenProperties
<1>2. s \in Seq(S) /\ Len(s) = c - a /\ \A j \in 1..(c - a) : s[j] = w[a + j]
  BY <1>1, SliceElements
<1> HIDE DEF s
<1>3. y \in 0..Len(s) /\ x \in Nat /\ x <= y /\ s \in Seq(S)
  BY <1>2
<1>4. t \in Seq(S) /\ Len(t) = y - x /\ \A j \in 1..(y - x) : t[j] = s[x + j]
  BY <1>3, SliceElements
<1>5. /\ u \in Seq(S) /\ Len(u) = a + y - (a + x)
      /\ \A j \in 1..(a + y - (a + x)) : u[j] = w[a + x + j]
  <2> DEFINE p == a + x
             q == a + y
  <2>1. p \in Nat /\ q \in 0..Len(w) /\ p <= q
    BY <1>1
  <2> HIDE DEF p, q
  <2>2. /\ Slice(w, p, q) \in Seq(S) /\ Len(Slice(w, p, q)) = q - p
        /\ \A j \in 1..(q - p) : Slice(w, p, q)[j] = w[p + j]
    BY <2>1, SliceElements
  <2> QED BY <2>2 DEF p, q
<1>6. a + y - (a + x) = y - x
  BY <1>1
<1> HIDE DEF t, u
<1>7. ASSUME NEW j \in 1..(y - x)
      PROVE  t[j] = u[j]
  <2>1. x + j \in 1..(c - a) /\ a + (x + j) = a + x + j
    BY <1>1
  <2> QED BY <1>2, <1>4, <1>5, <1>6, <2>1
<1>8. t = u
  BY <1>4, <1>5, <1>6, <1>7, SeqEqual
<1> QED BY <1>8 DEF s, t, u

\* Two slices that meet.
LEMMA SlicesJoined ==
    ASSUME NEW S, NEW w \in Seq(S), NEW b \in 0..Len(w)
    PROVE  Slice(w, 0, b) \o Slice(w, b, Len(w)) = w
<1> DEFINE s == Slice(w, 0, b)
           t == Slice(w, b, Len(w))
<1>1. Len(w) \in Nat /\ b \in Nat /\ b <= Len(w) /\ Len(w) \in 0..Len(w) /\ 0 <= b
  BY LenProperties
<1>2. s \in Seq(S) /\ Len(s) = b - 0 /\ \A j \in 1..(b - 0) : s[j] = w[0 + j]
  BY <1>1, SliceElements
<1>3. t \in Seq(S) /\ Len(t) = Len(w) - b /\ \A j \in 1..(Len(w) - b) : t[j] = w[b + j]
  BY <1>1, SliceElements
<1> HIDE DEF s, t
<1>4. /\ s \o t \in Seq(S) /\ Len(s \o t) = Len(s) + Len(t)
      /\ \A j \in 1..(Len(s) + Len(t)) :
            (s \o t)[j] = IF j <= Len(s) THEN s[j] ELSE t[j - Len(s)]
  BY <1>2, <1>3, ConcatProperties
<1>5. Len(s) = b /\ Len(s) + Len(t) = Len(w)
  BY <1>1, <1>2, <1>3
<1>6. ASSUME NEW j \in 1..Len(w)
      PROVE  (s \o t)[j] = w[j]
  <2>1. CASE j <= b
    <3>1. j \in 1..(b - 0) /\ 0 + j = j
      BY <1>1, <2>1
    <3> QED BY <1>2, <1>4, <1>5, <2>1, <3>1
  <2>2. CASE ~(j <= b)
    <3>1. j - b \in 1..(Len(w) - b) /\ b + (j - b) = j
      BY <1>1, <2>2
    <3> QED BY <1>3, <1>4, <1>5, <2>2, <3>1
  <2> QED BY <2>1, <2>2
<1>7. s \o t = w
  BY <1>4, <1>5, <1>6, SeqEqual
<1> QED BY <1>7 DEF s, t

\* Sequences that agree up to an element have the same slices up to it.
LEMMA SliceUnchanged ==
    ASSUME NEW S, NEW w \in Seq(S), NEW v \in Seq(S), Len(v) = Len(w),
           NEW a \in Nat, NEW b \in 0..Len(w), a <= b,
           \A j \in 1..b : v[j] = w[j]
    PROVE  Slice(v, a, b) = Slice(w, a, b)
<1> DEFINE s == Slice(w, a, b)
           t == Slice(v, a, b)
<1>1. Len(w) \in Nat /\ b \in Nat /\ b \in 0..Len(v)
  BY LenProperties
<1>2. s \in Seq(S) /\ Len(s) = b - a /\ \A j \in 1..(b - a) : s[j] = w[a + j]
  BY SliceElements
<1>3. t \in Seq(S) /\ Len(t) = b - a /\ \A j \in 1..(b - a) : t[j] = v[a + j]
  BY <1>1, SliceElements
<1> HIDE DEF s, t
<1>4. \A j \in 1..(b - a) : a + j \in 1..b
  BY <1>1
<1>5. s = t
  BY <1>2, <1>3, <1>4, SeqEqual
<1> QED BY <1>5 DEF s, t

------------------------------------------------------------------------------
(* The bytes of a slice *)

\* f adds up the first n numbers of c.
Sums(f, c, n) == f = [k \in 0..n |-> IF k = 0 THEN 0 ELSE f[k - 1] + c[k]]

\* The function SumOf defines is there.
LEMMA SumsExist ==
    ASSUME NEW c, NEW n \in Nat
    PROVE  \E f : Sums(f, c, n)
<1> DEFINE P == {m \in Nat : \E f : Sums(f, c, m)}
<1>1. 0 \in P
  <2> DEFINE f == [k \in 0..0 |-> 0]
  <2>1. f = [k \in 0..0 |-> IF k = 0 THEN 0 ELSE f[k - 1] + c[k]]
    OBVIOUS
  <2> HIDE DEF f
  <2>2. Sums(f, c, 0)
    BY <2>1 DEF Sums
  <2> QED BY <2>2
<1>2. ASSUME NEW m \in Nat, m \in P
      PROVE  m + 1 \in P
  <2>1. PICK f : f = [k \in 0..m |-> IF k = 0 THEN 0 ELSE f[k - 1] + c[k]]
    BY <1>2 DEF Sums
  <2> DEFINE last == f[m] + c[m + 1]
             g == [k \in 0..(m + 1) |-> IF k = m + 1 THEN last ELSE f[k]]
  <2>2. \A k \in 0..m : f[k] = IF k = 0 THEN 0 ELSE f[k - 1] + c[k]
    BY <2>1
  <2>3. ASSUME NEW k \in 0..(m + 1)
        PROVE  g[k] = IF k = 0 THEN 0 ELSE g[k - 1] + c[k]
    <3>1. CASE k = 0
      <4>1. k \in 0..m /\ k # m + 1
        BY <3>1
      <4>2. g[k] = f[k]
        BY <4>1
      <4> HIDE DEF g
      <4> QED BY <2>2, <3>1, <4>1, <4>2
    <3>2. CASE k # 0
      <4>1. k - 1 \in 0..m /\ k - 1 \in 0..(m + 1) /\ k - 1 # m + 1
        BY <3>2
      <4>2. g[k - 1] = f[k - 1]
        BY <4>1
      <4>3. CASE k = m + 1
        <5>1. g[k] = last /\ k - 1 = m
          BY <4>3
        <5> HIDE DEF g
        <5> QED BY <3>2, <4>2, <4>3, <5>1
      <4>4. CASE k # m + 1
        <5>1. k \in 0..m /\ g[k] = f[k]
          BY <4>4
        <5> HIDE DEF g
        <5> QED BY <2>2, <3>2, <4>2, <5>1
      <4> QED BY <4>3, <4>4
    <3> QED BY <3>1, <3>2
  <2>4. g = [k \in 0..(m + 1) |-> g[k]]
    OBVIOUS
  <2> HIDE DEF g
  <2>5. Sums(g, c, m + 1)
    BY <2>3, <2>4 DEF Sums
  <2> QED BY <2>5
<1> HIDE DEF P
<1>3. Nat \subseteq P
  BY <1>1, <1>2, SetInduction
<1> QED BY <1>3 DEF P

\* What SumOf is.
LEMMA SumDef ==
    ASSUME NEW S, NEW c \in Seq(S)
    PROVE  \E f : Sums(f, c, Len(c)) /\ SumOf(c) = f[Len(c)]
<1> DEFINE n == Len(c)
           f == CHOOSE h : h = [k \in 0..n |-> IF k = 0 THEN 0 ELSE h[k - 1] + c[k]]
<1>1. n \in Nat
  BY LenProperties
<1>2. \E h : h = [k \in 0..n |-> IF k = 0 THEN 0 ELSE h[k - 1] + c[k]]
  BY <1>1, SumsExist DEF Sums
<1>3. f = [k \in 0..n |-> IF k = 0 THEN 0 ELSE f[k - 1] + c[k]]
  BY <1>2
<1>4. SumOf(c) = f[n]
  BY DEF SumOf
<1> HIDE DEF f
<1> QED BY <1>3, <1>4 DEF Sums

\* What the sum of the first numbers is, for all the numbers of them at once.
LEMMA SumsStep ==
    ASSUME NEW n \in Nat, NEW c, NEW f, Sums(f, c, n)
    PROVE  f[0] = 0 /\ \A k \in 1..n : f[k] = f[k - 1] + c[k]
<1>1. \A k \in 0..n : f[k] = IF k = 0 THEN 0 ELSE f[k - 1] + c[k]
  BY DEF Sums
<1>2. 0 \in 0..n /\ \A k \in 1..n : k \in 0..n /\ k # 0
  OBVIOUS
<1> QED BY <1>1, <1>2

\* Of two functions that add up, the one that adds up the smaller numbers is smaller.
LEMMA SumsBelow ==
    ASSUME NEW n \in Nat, NEW m \in Nat, n <= m, NEW l \in Nat, n <= l,
           NEW c, NEW d, NEW f, NEW g, Sums(f, c, l), Sums(g, d, m),
           \A k \in 1..n : c[k] \in Nat /\ d[k] \in Nat /\ c[k] <= d[k]
    PROVE  \A k \in 0..n : f[k] \in Nat /\ g[k] \in Nat /\ f[k] <= g[k]
<1> DEFINE P == {k \in Nat : k \in 0..n => f[k] \in Nat /\ g[k] \in Nat /\ f[k] <= g[k]}
<1>1. /\ f[0] = 0 /\ g[0] = 0
      /\ \A k \in 1..n : f[k] = f[k - 1] + c[k]
      /\ \A k \in 1..n : g[k] = g[k - 1] + d[k]
  <2>1. \A k \in 1..n : k \in 1..m /\ k \in 1..l
    OBVIOUS
  <2>2. f[0] = 0 /\ \A k \in 1..l : f[k] = f[k - 1] + c[k]
    BY SumsStep
  <2>3. g[0] = 0 /\ \A k \in 1..m : g[k] = g[k - 1] + d[k]
    BY SumsStep
  <2> QED BY <2>1, <2>2, <2>3
<1>2. 0 \in P
  BY <1>1
<1>3. ASSUME NEW k \in Nat, k \in P
      PROVE  k + 1 \in P
  <2> SUFFICES ASSUME k + 1 \in 0..n
               PROVE  f[k + 1] \in Nat /\ g[k + 1] \in Nat /\ f[k + 1] <= g[k + 1]
    OBVIOUS
  <2> DEFINE j == k + 1
  <2>1. j \in 1..n /\ j - 1 = k /\ k \in 0..n
    OBVIOUS
  <2>2. f[k] \in Nat /\ g[k] \in Nat /\ f[k] <= g[k]
    BY <1>3, <2>1
  <2> HIDE DEF j
  <2>3. /\ f[j] = f[k] + c[j]
        /\ g[j] = g[k] + d[j]
        /\ c[j] \in Nat /\ d[j] \in Nat /\ c[j] <= d[j]
    BY <1>1, <2>1
  <2>4. f[j] \in Nat /\ g[j] \in Nat /\ f[j] <= g[j]
    BY <2>2, <2>3, SMT
  <2> QED BY <2>4 DEF j
<1> HIDE DEF P
<1>4. Nat \subseteq P
  BY <1>2, <1>3, SetInduction
<1> QED BY <1>4 DEF P

\* Two functions that add up the same numbers agree.
LEMMA SumsAgree ==
    ASSUME NEW n \in Nat, NEW m \in Nat, n <= m, NEW c, NEW d, NEW f, NEW g,
           Sums(f, c, n), Sums(g, d, m),
           \A k \in 1..n : c[k] \in Nat /\ d[k] = c[k]
    PROVE  \A k \in 0..n : f[k] \in Nat /\ g[k] = f[k]
<1>1. \A k \in 1..n : /\ c[k] \in Nat /\ d[k] \in Nat
                      /\ c[k] <= d[k] /\ d[k] <= c[k]
  OBVIOUS
<1>2. \A k \in 0..n : f[k] \in Nat /\ g[k] \in Nat /\ f[k] <= g[k]
  BY <1>1, SumsBelow
<1>3. \A k \in 0..n : g[k] <= f[k]
  BY <1>1, SumsBelow
<1> QED BY <1>2, <1>3

\* What the estimate counts for each element.
Estimated(s) == [k \in DOMAIN s |-> s[k].size + ExtraBytes]

\* There is one number for each element.
LEMMA EstimatedIs ==
    ASSUME NEW s \in Seq(Element)
    PROVE  /\ Estimated(s) \in Seq(Nat) /\ Len(Estimated(s)) = Len(s)
           /\ \A k \in 1..Len(s) : /\ s[k].size \in Nat
                                    /\ Estimated(s)[k] = s[k].size + ExtraBytes
<1>1. Len(s) \in Nat /\ DOMAIN s = 1..Len(s) /\ ExtraBytes \in Nat
  BY LenProperties, RepeatedFieldAssumption
<1>2. \A k \in 1..Len(s) : s[k].size \in Nat
  <2>1. \A k \in 1..Len(s) : s[k] \in Element
    BY ElementOfSeq
  <2> QED BY <2>1 DEF Element
<1> DEFINE n == Len(s)
<1> HIDE DEF n
<1>3. Estimated(s) = [k \in 1..n |-> s[k].size + ExtraBytes]
  BY <1>1 DEF Estimated, n
<1>4. \A k \in 1..n : s[k].size + ExtraBytes \in Nat
  BY <1>1, <1>2 DEF n
<1>5. Estimated(s) \in [1..n -> Nat] /\ n \in Nat
  BY <1>1, <1>3, <1>4 DEF n
<1>6. Estimated(s) \in Seq(Nat) /\ Len(Estimated(s)) = n
  BY <1>5
<1> QED BY <1>2, <1>3, <1>6 DEF n

\* No elements have no bytes; one element more adds its size and what its encoding
\* takes.
LEMMA BytesAppend ==
    /\ BytesOf(<<>>) = 0
    /\ \A s \in Seq(Element), e \in Element :
          /\ BytesOf(s) \in Nat
          /\ BytesOf(Append(s, e)) = BytesOf(s) + e.size + ExtraBytes
<1>1. BytesOf(<<>>) = 0
  <2>1. <<>> \in Seq(Element) /\ Len(<<>>) = 0
    BY EmptySeq
  <2>2. Estimated(<<>>) \in Seq(Nat) /\ Len(Estimated(<<>>)) = 0
    BY <2>1, EstimatedIs
  <2>3. PICK f : Sums(f, Estimated(<<>>), 0) /\ SumOf(Estimated(<<>>)) = f[0]
    BY <2>2, SumDef
  <2> QED BY <2>3, SumsStep DEF BytesOf, Estimated
<1>2. ASSUME NEW s \in Seq(Element), NEW e \in Element
      PROVE  /\ BytesOf(s) \in Nat
             /\ BytesOf(Append(s, e)) = BytesOf(s) + e.size + ExtraBytes
  <2> DEFINE n == Len(s)
             t == Append(s, e)
             m == n + 1
             c == Estimated(s)
             d == Estimated(t)
  <2>1. n \in Nat /\ m \in Nat /\ n <= m /\ m \in 1..m /\ m - 1 = n /\ n \in 0..n
        /\ \A k \in 1..n : k \in 1..m
    BY LenProperties
  <2>2. /\ t \in Seq(Element) /\ Len(t) = m
        /\ \A k \in 1..n : t[k] = s[k]
        /\ t[m] = e
    BY AppendProperties
  <2>3. /\ c \in Seq(Nat) /\ Len(c) = n
        /\ \A k \in 1..n : s[k].size \in Nat /\ c[k] = s[k].size + ExtraBytes
    BY EstimatedIs
  <2> HIDE DEF c
  <2>4. /\ d \in Seq(Nat) /\ Len(d) = m
        /\ \A k \in 1..m : d[k] = t[k].size + ExtraBytes
    <3> HIDE DEF t
    <3> QED BY <2>2, EstimatedIs
  <2> HIDE DEF t, m, d
  <2>5. PICK f : Sums(f, c, n) /\ SumOf(c) = f[n]
    BY <2>3, SumDef
  <2>6. PICK g : Sums(g, d, m) /\ SumOf(d) = g[m]
    BY <2>4, SumDef
  <2> HIDE DEF n
  <2>7. \A k \in 1..n : c[k] \in Nat /\ d[k] = c[k]
    <3>1. ExtraBytes \in Nat
      BY RepeatedFieldAssumption
    <3>2. ASSUME NEW k \in 1..n
          PROVE  c[k] \in Nat /\ d[k] = c[k]
      <4>1. k \in 1..m /\ t[k] = s[k]
        BY <2>1, <2>2
      <4>2. s[k].size \in Nat /\ c[k] = s[k].size + ExtraBytes
        BY <2>3
      <4>3. d[k] = t[k].size + ExtraBytes
        BY <2>4, <4>1
      <4> QED BY <3>1, <4>1, <4>2, <4>3
    <3> QED BY <3>2
  <2>8. f[n] \in Nat /\ g[n] = f[n]
    BY <2>1, <2>5, <2>6, <2>7, SumsAgree
  <2>9. g[m] = g[m - 1] + d[m] /\ d[m] = e.size + ExtraBytes
    <3>1. \A k \in 1..m : g[k] = g[k - 1] + d[k]
      BY <2>1, <2>6, SumsStep
    <3>2. g[m] = g[m - 1] + d[m]
      BY <2>1, <3>1
    <3>3. d[m] = t[m].size + ExtraBytes
      BY <2>1, <2>4
    <3> QED BY <2>2, <3>2, <3>3
  <2>10. BytesOf(s) = f[n] /\ BytesOf(t) = g[m]
    BY <2>5, <2>6 DEF BytesOf, c, d, Estimated
  <2>11. BytesOf(t) = BytesOf(s) + e.size + ExtraBytes
    <3>1. e.size \in Nat /\ ExtraBytes \in Nat
      BY RepeatedFieldAssumption DEF Element
    <3> QED BY <2>1, <2>8, <2>9, <2>10, <3>1
  <2> QED BY <2>8, <2>10, <2>11 DEF t
<1> QED BY <1>1, <1>2

\* What the encoding takes for each element.
Encoded(s) == [k \in DOMAIN s |-> s[k].size + EncodingBytes[s[k].size]]

\* There is one number for each element here, too.
LEMMA EncodedIs ==
    ASSUME NEW s \in Seq(Elem)
    PROVE  /\ s \in Seq(Element)
           /\ Encoded(s) \in Seq(Nat) /\ Len(Encoded(s)) = Len(s)
           /\ \A k \in 1..Len(s) : /\ s[k].size \in Nat /\ EncodingBytes[s[k].size] \in Nat
                                    /\ Encoded(s)[k] = s[k].size + EncodingBytes[s[k].size]
<1>1. Len(s) \in Nat /\ DOMAIN s = 1..Len(s)
  BY LenProperties
<1>2. ElementSize \subseteq Nat
  BY PowersOfTwo DEF ElementSize
<1>3. \A k \in 1..Len(s) : s[k] \in Elem
  BY ElementOfSeq
<1>4. \A k \in 1..Len(s) : s[k].size \in ElementSize
  BY <1>3 DEF Elem
<1>5. \A k \in 1..Len(s) : s[k].size \in Nat /\ EncodingBytes[s[k].size] \in Nat
  BY <1>2, <1>4, RepeatedFieldAssumption
<1>6. s \in Seq(Element)
  <2>1. Elem \subseteq Element
    BY <1>2 DEF Elem, Element
  <2> QED BY <2>1
<1> DEFINE n == Len(s)
<1> HIDE DEF n
<1>7. Encoded(s) = [k \in 1..n |-> s[k].size + EncodingBytes[s[k].size]]
  BY <1>1 DEF Encoded, n
<1>8. \A k \in 1..n : s[k].size + EncodingBytes[s[k].size] \in Nat
  BY <1>5 DEF n
<1>9. Encoded(s) \in [1..n -> Nat] /\ n \in Nat
  BY <1>1, <1>7, <1>8 DEF n
<1>10. Encoded(s) \in Seq(Nat) /\ Len(Encoded(s)) = n
  BY <1>9
<1> QED BY <1>5, <1>6, <1>7, <1>10 DEF n

\* The estimate leaves out no more than what the encoding of the last element takes, as
\* long as it is enough for the others.
LEMMA EncodedWithinEstimate ==
    ASSUME NEW s \in Seq(Elem), Len(s) > 1, \A k \in 1..(Len(s) - 1) : Covered(s[k])
    PROVE  /\ EncodingBytes[Last(s).size] \in Nat
           /\ EncodedBytes(s) \in Nat /\ Estimate(s) \in Nat
           /\ EncodedBytes(s) <= Estimate(s) + EncodingBytes[Last(s).size]
<1> DEFINE n == Len(s)
           p == Len(s) - 1
           c == Encoded(s)
           d == Estimated(s)
           size == Last(s).size
           enc == EncodingBytes[Last(s).size]
<1>1. /\ n \in Nat /\ p \in Nat /\ p <= n /\ n \in 1..n /\ n - 1 = p /\ p \in 0..p
      /\ \A k \in 1..p : k \in 1..n
  BY LenProperties
<1>2. /\ c \in Seq(Nat) /\ Len(c) = n
      /\ \A k \in 1..n : /\ s[k].size \in Nat /\ EncodingBytes[s[k].size] \in Nat
                         /\ c[k] = s[k].size + EncodingBytes[s[k].size]
  BY EncodedIs
<1>3. /\ d \in Seq(Nat) /\ Len(d) = n
      /\ \A k \in 1..n : d[k] = s[k].size + ExtraBytes
  BY EncodedIs, EstimatedIs
<1>4. Last(s) = s[n] /\ ExtraBytes \in Nat
  BY RepeatedFieldAssumption DEF Last
<1>5. \A k \in 1..p : EncodingBytes[s[k].size] <= ExtraBytes
  BY DEF Covered
<1>6. EncodedBytes(s) = SumOf(c) /\ Estimate(s) = SumOf(d) - ExtraBytes
  BY DEF EncodedBytes, Estimate, BytesOf, Encoded, Estimated
<1>7. size \in Nat /\ enc \in Nat /\ c[n] = size + enc /\ d[n] = size + ExtraBytes
  BY <1>1, <1>2, <1>3, <1>4
<1> HIDE DEF n, p, c, d, size, enc
<1>8. PICK f : Sums(f, c, n) /\ SumOf(c) = f[n]
  BY <1>2, SumDef
<1>9. PICK g : Sums(g, d, n) /\ SumOf(d) = g[n]
  BY <1>3, SumDef
<1>10. \A k \in 1..p : c[k] \in Nat /\ d[k] \in Nat /\ c[k] <= d[k]
  <2>1. ASSUME NEW k \in 1..p
        PROVE  c[k] \in Nat /\ d[k] \in Nat /\ c[k] <= d[k]
    <3>1. k \in 1..n /\ EncodingBytes[s[k].size] <= ExtraBytes
      BY <1>1, <1>5
    <3>2. /\ s[k].size \in Nat /\ EncodingBytes[s[k].size] \in Nat
          /\ c[k] = s[k].size + EncodingBytes[s[k].size] /\ d[k] = s[k].size + ExtraBytes
      BY <1>2, <1>3, <3>1
    <3> QED BY <1>4, <3>1, <3>2
  <2> QED BY <2>1
<1>11. f[p] \in Nat /\ g[p] \in Nat /\ f[p] <= g[p]
  <2>1. \A k \in 0..p : f[k] \in Nat /\ g[k] \in Nat /\ f[k] <= g[k]
    <3>1. n \in Nat /\ p \in Nat /\ p <= n /\ Sums(f, c, n) /\ Sums(g, d, n)
      BY <1>1, <1>8, <1>9
    <3> QED BY ONLY <3>1, <1>10, SumsBelow
  <2> QED BY <1>1, <2>1
<1>12. f[n] = f[n - 1] + c[n] /\ g[n] = g[n - 1] + d[n]
  <2>1. /\ \A k \in 1..n : f[k] = f[k - 1] + c[k]
        /\ \A k \in 1..n : g[k] = g[k - 1] + d[k]
    BY <1>1, <1>8, <1>9, SumsStep
  <2> QED BY <1>1, <2>1
<1>13. /\ f[n] = f[p] + (size + enc) /\ g[n] = g[p] + (size + ExtraBytes)
  BY <1>1, <1>7, <1>12
<1>14. f[n] \in Nat /\ g[n] - ExtraBytes \in Nat /\ f[n] <= (g[n] - ExtraBytes) + enc
  BY <1>4, <1>7, <1>11, <1>13
<1> QED BY <1>6, <1>7, <1>8, <1>9, <1>14 DEF size, enc

------------------------------------------------------------------------------
(* Words and ints *)

\* A size_t is less than W; an int is at least -H and less than H.
W == 2^(2 * IntBits)
H == 2^(IntBits - 1)

\* A number that fits is kept by the conversions; the conversion to int of a size is
\* never more than the size.
LEMMA Widths ==
    /\ W \in Nat \ {0} /\ H \in Nat \ {0}
    /\ \A x \in 0..(W - 1) : Word(x) = x
    /\ \A x \in Int : Word(x) \in 0..(W - 1)
    /\ \A d \in Nat : /\ ToInt(d) \in Int /\ ToInt(d) <= d /\ ToInt(d) >= -H
                      /\ d < H => ToInt(d) = d
<1>1. W \in Nat \ {0} /\ H \in Nat \ {0} /\ 2^IntBits = 2 * H
  BY PowersOfTwo DEF W, H
<1>2. ASSUME NEW x \in Int
      PROVE  Word(x) = x % W /\ ToInt(x) = ((x + H) % (2 * H)) - H
  BY <1>1 DEF Word, ToInt, W, H
<1> DEFINE w == W
           h == H
<1>3. w \in Nat \ {0} /\ h \in Nat \ {0}
  BY <1>1
<1> HIDE DEF w, h
<1>4. ASSUME NEW x \in Int
      PROVE  x % w \in 0..(w - 1) /\ (x \in 0..(w - 1) => x % w = x)
  BY <1>3
<1>5. ASSUME NEW d \in Nat
      PROVE  /\ ((d + h) % (2 * h)) - h \in Int
             /\ ((d + h) % (2 * h)) - h <= d
             /\ ((d + h) % (2 * h)) - h >= -h
             /\ d < h => ((d + h) % (2 * h)) - h = d
  <2> DEFINE y == d + h
             z == 2 * h
  <2>1. y \in Nat /\ z \in Nat \ {0}
    BY <1>3
  <2>2. y % z \in 0..(z - 1) /\ y % z <= y /\ (y < z => y % z = y)
    <3> HIDE DEF y, z
    <3> QED BY <2>1
  <2> QED BY <1>3, <2>2
<1>6. \A x \in Int : Word(x) = x % w /\ ToInt(x) = ((x + h) % (2 * h)) - h
  BY <1>2 DEF w, h
<1>7. \A x \in 0..(w - 1) : x \in Int
  BY <1>3
<1>8. /\ \A x \in 0..(w - 1) : Word(x) = x
      /\ \A x \in Int : Word(x) \in 0..(w - 1)
  <2>1. ASSUME NEW x \in Int
        PROVE  Word(x) \in 0..(w - 1) /\ (x \in 0..(w - 1) => Word(x) = x)
    <3>1. Word(x) = x % w
      BY <1>6
    <3>2. x % w \in 0..(w - 1) /\ (x \in 0..(w - 1) => x % w = x)
      BY <1>4
    <3> QED BY <3>1, <3>2, Zenon
  <2> QED BY <1>7, <2>1, Zenon
<1>9. ASSUME NEW d \in Nat
      PROVE  /\ ToInt(d) \in Int /\ ToInt(d) <= d /\ ToInt(d) >= -h
             /\ d < h => ToInt(d) = d
  <2>1. ToInt(d) = ((d + h) % (2 * h)) - h
    BY <1>6
  <2> QED BY <1>5, <2>1, Zenon
<1> QED BY <1>1, <1>8, <1>9, Zenon DEF w, h

\* A word is in the range of the words.
LEMMA WordInRange ==
    ASSUME NEW x \in Int
    PROVE  Word(x) \in 0..(W - 1)
BY Widths

\* A product with a larger factor is larger.
LEMMA TimesMonotonic ==
    ASSUME NEW a \in Nat, NEW b \in Nat, a <= b, NEW h \in Nat
    PROVE  a * h \in Nat /\ b * h \in Nat /\ a * h <= b * h
<1>1. a * h \in Nat /\ b * h \in Nat /\ (b - a) * h \in Nat
  OBVIOUS
<1>2. b * h = a * h + (b - a) * h
  OBVIOUS
<1> QED BY <1>1, <1>2

\* What node_size may be after the factories so far.
NodeBound(node_, k) == \E n \in ElementSize : node_ <= n + k * H

\* It is far from the width of size_t, also after one factory more.
LEMMA NodeIsSmall ==
    ASSUME NEW k \in 0..Factories, NEW x \in Nat, NodeBound(x, k)
    PROVE  2 * x + MaxSize + ExtraBytes < W
<1>1. PICK n \in ElementSize : x <= n + k * H
  BY DEF NodeBound
<1>2. n \in Nat /\ 2 * (n + Factories * H) + MaxSize + ExtraBytes < W
  BY PowersOfTwo DEF ElementSize, W, H
<1>3. k * H \in Nat /\ Factories * H \in Nat /\ k * H <= Factories * H
  BY Widths, TimesMonotonic, RepeatedFieldAssumption
<1>4. MaxSize \in Nat /\ ExtraBytes \in Nat /\ W \in Nat
  BY RepeatedFieldAssumption, PowersOfTwo DEF W
<1> HIDE DEF W
<1> DEFINE p == k * H
           q == Factories * H
<1> HIDE DEF p, q
<1>5. p \in Nat /\ q \in Nat /\ p <= q
  BY <1>3 DEF p, q
<1>6. x <= n + p /\ 2 * (n + q) + MaxSize + ExtraBytes < W
  BY <1>1, <1>2 DEF p, q
<1> QED BY <1>2, <1>4, <1>5, <1>6

\* A nested splitter that cuts bytes out of an element leaves node_size at least as
\* large as the element, exactly as large if its return value did not wrap, and at
\* most H larger than before.
LEMMA NodeStaysAbove ==
    ASSUME NEW x \in Nat, NEW size \in 0..x, NEW bytes \in 0..size,
           NEW k \in 0..(Factories - 1), NodeBound(x, k)
    PROVE  /\ NodeAfterNested(x, bytes) \in Nat
           /\ size - bytes <= NodeAfterNested(x, bytes)
           /\ x = size /\ bytes < H => NodeAfterNested(x, bytes) = size - bytes
           /\ NodeBound(NodeAfterNested(x, bytes), k + 1)
<1> DEFINE d == ToInt(bytes)
           y == x - d
           kk == k + 1
<1>1. /\ bytes \in Nat /\ size \in Nat
      /\ Factories \in Nat /\ k \in Nat /\ kk \in 0..Factories /\ kk \in Nat
  BY RepeatedFieldAssumption
<1>2. d \in Int /\ d <= bytes /\ d >= -H /\ (bytes < H => d = bytes)
  BY <1>1, Widths
<1>3. H \in Nat /\ W \in Nat \ {0}
  BY Widths
<1> HIDE DEF d
<1>4. y \in Nat /\ y <= x + H /\ size - bytes <= y
      /\ (x = size /\ bytes < H => y = size - bytes)
  BY <1>1, <1>2, <1>3
<1>5. NodeBound(y, kk)
  <2>1. PICK n \in ElementSize : x <= n + k * H
    BY DEF NodeBound
  <2>2. k * H \in Nat /\ kk * H = k * H + H
    BY <1>1, <1>3
  <2>3. n \in Nat
    BY PowersOfTwo DEF ElementSize
  <2> HIDE DEF y, kk
  <2> DEFINE p == k * H
             q == kk * H
  <2>4. p \in Nat /\ q = p + H /\ x <= n + p
    BY <2>1, <2>2
  <2> HIDE DEF p, q
  <2>5. y <= n + q
    BY <1>3, <1>4, <2>3, <2>4
  <2> QED BY <2>5 DEF NodeBound, q
<1>6. 2 * y + MaxSize + ExtraBytes < W
  <2> HIDE DEF y, kk
  <2> QED BY <1>1, <1>4, <1>5, NodeIsSmall
<1>7. MaxSize \in Nat /\ ExtraBytes \in Nat
  BY RepeatedFieldAssumption, PowersOfTwo
<1> HIDE DEF y
<1>8. y \in 0..(W - 1)
  BY <1>3, <1>4, <1>6, <1>7
<1>9. NodeAfterNested(x, bytes) = Word(y)
  BY DEF NodeAfterNested, y, d
<1>10. NodeAfterNested(x, bytes) = y
  BY <1>8, <1>9, Widths
<1> QED BY <1>4, <1>5, <1>10 DEF kk

\* total_size is far from the width of size_t.
TotalBound(x) == \/ x <= MaxSize + ExtraBytes
                 \/ 2 * (x - ExtraBytes) + MaxSize + ExtraBytes < W

\* When an element is added to it, the test for a new slice and the total after it are
\* what they would be without a width.
LEMMA TotalIsExact ==
    ASSUME NEW t \in Nat, TotalBound(t),
           NEW x \in Nat, 2 * x + MaxSize + ExtraBytes < W
    PROVE  /\ Word(t + x) = t + x
           /\ Word(0 + x + ExtraBytes) = x + ExtraBytes
           /\ TotalBound(x + ExtraBytes)
           /\ t + x <= MaxSize => /\ Word(t + x + ExtraBytes) = t + x + ExtraBytes
                                  /\ TotalBound(t + x + ExtraBytes)
<1>1. MaxSize \in Nat /\ MaxSize >= 1 /\ ExtraBytes \in Nat /\ W \in Nat \ {0}
  BY RepeatedFieldAssumption, Widths, PowersOfTwo
<1>2. t + x \in 0..(W - 1)
  BY <1>1 DEF TotalBound
<1>3. x + ExtraBytes \in 0..(W - 1) /\ 0 + x + ExtraBytes = x + ExtraBytes
  BY <1>1
<1>4. TotalBound(x + ExtraBytes)
  BY <1>1 DEF TotalBound
<1>5. t + x <= MaxSize => /\ t + x + ExtraBytes \in 0..(W - 1)
                          /\ TotalBound(t + x + ExtraBytes)
  BY <1>1 DEF TotalBound
<1> QED BY <1>2, <1>3, <1>4, <1>5, Widths

------------------------------------------------------------------------------
(* What an action keeps *)

DataInv == FieldInv /\ ElementsInOrder /\ SlicesEstimated /\ OnlyFirstEmpty /\ Greedy

\* An element in memory is an element.
LEMMA ElemIsElement ==
    /\ \A e \in Elem : e \in Element
    /\ \A s : s \in Seq(Elem) => s \in Seq(Element)
<1>1. ElementSize \subseteq Nat
  BY PowersOfTwo DEF ElementSize
<1>2. \A e \in Elem : e \in Element
  BY <1>1 DEF Elem, Element
<1> QED BY <1>2

\* What is said of the elements stands as long as they stay where they are.
LEMMA ElementsStay ==
    ASSUME DataInv, UNCHANGED <<input, field, extracted, slices, pieces, addFailed>>
    PROVE  DataInv'
<1>1. FieldInv'
  BY DEF DataInv, FieldInv
<1>2. ElementsInOrder'
  BY DEF DataInv, ElementsInOrder, Ids
<1>3. SlicesEstimated' /\ OnlyFirstEmpty'
  BY DEF DataInv, SlicesEstimated, OnlyFirstEmpty
<1>4. Greedy'
  BY DEF DataInv, Greedy, NoneWrapped
<1> QED BY <1>1, <1>2, <1>3, <1>4 DEF DataInv

\* What is said of the splits stands as long as they, the elements and the return
\* values do.
LEMMA SplitsStay ==
    ASSUME UNCHANGED <<field, i, split, total, pieces>>
    PROVE  /\ SplitInv(field) => SplitInv(field)'
           /\ OpenInv => OpenInv'
           /\ TotalInv => TotalInv'
<1>1. SplitInv(field) => SplitInv(field)'
  BY DEF SplitInv, Packed, NoneWrapped
<1>2. OpenInv => OpenInv'
  BY DEF OpenInv, NoneWrapped
<1>3. TotalInv => TotalInv'
  BY DEF TotalInv
<1> QED BY <1>1, <1>2, <1>3

\* node_size starts as the size of the element.
LEMMA VisitNodeInv ==
    ASSUME RepeatedFieldInv, VisitNode
    PROVE  RepeatedFieldInv'
<1>1. /\ status = "running" /\ extracted = None /\ i < Len(field) /\ node = None
      /\ node' = field[i + 1].size /\ factory' = 1
      /\ UNCHANGED <<input, field, i, split, total, extracted, slices, pieces,
                     status, tries, addFailed>>
  BY DEF VisitNode, Scanning
<1>2. DataInv'
  BY <1>1, ElementsStay DEF RepeatedFieldInv, DataInv
<1>3. ScanInv
  BY <1>1 DEF RepeatedFieldInv, Scanning
<1>4. node' \in ElementSize /\ node' \in Nat /\ node' \in 0..(W - 1)
  <2>1. i + 1 \in 1..Len(field)
    BY <1>1, <1>3, LenProperties DEF ScanInv, RepeatedFieldInv, FieldInv
  <2>2. field[i + 1] \in Elem
    BY <2>1, ElementOfSeq DEF RepeatedFieldInv, FieldInv
  <2> QED BY <1>1, <2>2 DEF Elem, ElementSize, W
<1>5. factory' \in 1..(Factories + 1)
  BY <1>1, RepeatedFieldAssumption
<1>6. TypeOK'
  BY <1>1, <1>4, <1>5 DEF RepeatedFieldInv, TypeOK, W
<1>7. NodeInv'
  <2>1. node' <= node' + (factory' - 1) * 2^(IntBits - 1)
    BY <1>1, <1>4, PowersOfTwo
  <2> QED BY <1>1, <1>4, <2>1 DEF NodeInv
<1>8. ScanInv'
  BY <1>1, <1>3, <1>5, <1>7, SplitsStay DEF ScanInv
<1> QED BY <1>1, <1>2, <1>6, <1>8
        DEF RepeatedFieldInv, DataInv, AllOrNothing, Scanning, Moving

\* A factory that declines leaves node_size as it is.
LEMMA CreateSplitterDeclinesInv ==
    ASSUME RepeatedFieldInv, CreateSplitterDeclines
    PROVE  RepeatedFieldInv'
<1>1. /\ status = "running" /\ extracted = None /\ node # None /\ factory <= Factories
      /\ factory' = factory + 1
      /\ UNCHANGED <<input, field, i, node, split, total, extracted, slices, pieces,
                     status, tries, addFailed>>
  BY DEF CreateSplitterDeclines, AskingFactory, Scanning
<1>2. DataInv'
  BY <1>1, ElementsStay DEF RepeatedFieldInv, DataInv
<1>3. ScanInv
  BY <1>1 DEF RepeatedFieldInv, Scanning
<1>4. factory' \in 1..(Factories + 1)
  BY <1>1, <1>3, RepeatedFieldAssumption DEF ScanInv
<1>5. TypeOK'
  BY <1>1, <1>4 DEF RepeatedFieldInv, TypeOK
<1>6. NodeInv'
  <2>1. PICK n \in ElementSize : node <= n + (factory - 1) * H
    BY <1>1, <1>3 DEF ScanInv, NodeInv, H
  <2>2. n \in Nat /\ node \in Nat
    BY <1>1, <1>3, PowersOfTwo DEF ElementSize, ScanInv, NodeInv
  <2>3. /\ (factory - 1) * H \in Nat /\ (factory' - 1) * H \in Nat
        /\ (factory - 1) * H <= (factory' - 1) * H
    BY <1>1, <1>3, Widths, TimesMonotonic DEF ScanInv
  <2>4. node' <= n + (factory' - 1) * H
    BY <1>1, <2>1, <2>2, <2>3
  <2> QED BY <1>1, <1>3, <2>4 DEF ScanInv, NodeInv, H, NoneWrapped
<1>7. ScanInv'
  BY <1>1, <1>3, <1>4, <1>6, SplitsStay DEF ScanInv
<1> QED BY <1>1, <1>2, <1>5, <1>7
        DEF RepeatedFieldInv, DataInv, AllOrNothing, Scanning, Moving

\* A builder that fails changes nothing but the status.
LEMMA NestedFailsInv ==
    ASSUME RepeatedFieldInv, NestedFails
    PROVE  RepeatedFieldInv'
<1>1. /\ status = "running" /\ extracted = None /\ status' = "Error"
      /\ UNCHANGED <<input, field, i, node, factory, split, total, extracted, slices,
                     pieces, tries, addFailed>>
  BY DEF NestedFails, AskingFactory, Scanning, Fail, scan
<1>2. DataInv'
  BY <1>1, ElementsStay DEF RepeatedFieldInv, DataInv
<1>3. TypeOK'
  BY <1>1 DEF RepeatedFieldInv, TypeOK
<1> QED BY <1>1, <1>2, <1>3 DEF RepeatedFieldInv, DataInv, AllOrNothing, Scanning, Moving

\* While an element is looked at, all the elements are in the field.
LEMMA AllInField ==
    ASSUME RepeatedFieldInv, Scanning, field # <<>>
    PROVE  slices = <<>> /\ ~addFailed /\ Whole = field
<1>1. slices = <<>> /\ ~addFailed /\ extracted = None /\ field \in Seq(Elem)
  BY DEF RepeatedFieldInv, FieldInv, Scanning
<1>2. FlattenSeq(slices) = <<>> /\ Left = <<>>
  BY <1>1 DEF FlattenSeq, Left
<1>3. <<>> \o <<>> \o field = field
  BY <1>1, EmptySeq, ConcatEmptySeq
<1> QED BY <1>1, <1>2, <1>3 DEF Whole

\* An element that bytes are cut out of is still one.
LEMMA SmallerElement ==
    ASSUME NEW n \in ElementSize, NEW b \in Nat, b <= n
    PROVE  n - b \in ElementSize
<1> DEFINE q == Factories * H
<1>1. q \in Int /\ MaxSize \in Int /\ ExtraBytes \in Int /\ W \in Int
  BY Widths, RepeatedFieldAssumption, PowersOfTwo
<1>2. ElementSize = {m \in 0..(W - 1) : 2 * (m + q) + MaxSize + ExtraBytes < W}
  BY DEF ElementSize, W, H
<1> HIDE DEF q
<1> QED BY <1>1, <1>2

\* What a nested splitter does to the field and to the pieces.
LEMMA BytesCut ==
    ASSUME RepeatedFieldInv, NEW bytes \in Nat, NestedSplits(bytes)
    PROVE  /\ Scanning /\ ScanInv /\ factory \in 1..Factories
           /\ node \in Nat /\ i \in 0..(Len(field) - 1)
           /\ field[i + 1] \in Elem /\ bytes \in 0..field[i + 1].size
           /\ field' \in Seq(Elem) /\ Len(field') = Len(field)
           /\ \A k \in 1..Len(field) : k # i + 1 => field'[k] = field[k]
           /\ field'[i + 1].size = field[i + 1].size - bytes
           /\ \A k \in 1..Len(field) : field'[k].id = field[k].id
           /\ pieces' \in Seq(Nat \X Nat)
           /\ NoneWrapped' => NoneWrapped /\ bytes < H
<1>1. /\ Scanning /\ node # None /\ factory <= Factories
      /\ bytes <= field[i + 1].size
      /\ field' = [field EXCEPT ![i + 1].size = @ - bytes]
      /\ pieces' = Append(pieces, <<i, bytes>>)
  BY DEF NestedSplits, AskingFactory
<1>2. ScanInv /\ field \in Seq(Elem) /\ pieces \in Seq(Nat \X Nat)
  BY <1>1 DEF RepeatedFieldInv, FieldInv, TypeOK
<1>3. factory \in 1..Factories /\ node \in Nat /\ i \in 0..(Len(field) - 1)
  BY <1>1, <1>2, RepeatedFieldAssumption, LenProperties DEF ScanInv, NodeInv
<1> DEFINE j == i + 1
           n == Len(field)
<1>4. j \in 1..n /\ n \in Nat /\ DOMAIN field = 1..n
  BY <1>2, <1>3, LenProperties
<1>5. \A k \in 1..n : field[k] \in Elem
  BY <1>2, ElementOfSeq
<1>6. field' = [field EXCEPT ![j].size = @ - bytes] /\ bytes <= field[j].size
  BY <1>1
<1> HIDE DEF j, n
<1> DEFINE e == [field[j] EXCEPT !.size = @ - bytes]
<1>7. field[j].size \in ElementSize /\ field[j].size \in Nat /\ field[j].id \in Nat
      /\ field[j] = [id |-> field[j].id, size |-> field[j].size]
  BY <1>4, <1>5, PowersOfTwo DEF Elem, ElementSize
<1>8. e = [id |-> field[j].id, size |-> field[j].size - bytes]
  BY <1>7
<1>9. field[j].size - bytes \in ElementSize
  BY <1>6, <1>7, SmallerElement
<1>10. e \in Elem /\ e.size = field[j].size - bytes /\ e.id = field[j].id
  BY <1>7, <1>8, <1>9 DEF Elem
<1>11. field' = [field EXCEPT ![j] = e]
  BY <1>6
<1> HIDE DEF e
<1>12. /\ field' \in Seq(Elem) /\ Len(field') = n
       /\ \A k \in 1..n : field'[k] = IF k = j THEN e ELSE field[k]
  BY <1>2, <1>4, <1>10, <1>11, ExceptSeq DEF n
<1>13. \A k \in 1..n : field'[k].id = field[k].id
  BY <1>10, <1>12
<1>14. /\ pieces' \in Seq(Nat \X Nat)
       /\ NoneWrapped' => NoneWrapped /\ bytes < H
  <2> DEFINE m == Len(pieces)
             b == <<i, bytes>>
  <2>1. m \in Nat /\ b \in Nat \X Nat /\ b[2] = bytes /\ DOMAIN pieces = 1..m
    BY <1>2, <1>3, LenProperties
  <2>2. /\ Append(pieces, b) \in Seq(Nat \X Nat)
        /\ Len(Append(pieces, b)) = m + 1
        /\ \A k \in 1..m : Append(pieces, b)[k] = pieces[k]
        /\ Append(pieces, b)[m + 1] = b
    BY <1>2, <2>1, AppendProperties
  <2> HIDE DEF b, m
  <2>3. pieces' = Append(pieces, b)
    BY <1>1 DEF b
  <2>4. /\ pieces' \in Seq(Nat \X Nat) /\ DOMAIN pieces' = 1..(m + 1)
        /\ \A k \in 1..m : pieces'[k] = pieces[k]
        /\ pieces'[m + 1] = b
    BY <2>2, <2>3, LenProperties
  <2>5. \A k \in 1..m : k \in 1..(m + 1)
    BY <2>1
  <2>6. m + 1 \in 1..(m + 1)
    BY <2>1
  <2>7. ASSUME NoneWrapped'
        PROVE  NoneWrapped /\ bytes < H
    <3>1. \A k \in 1..(m + 1) : pieces'[k][2] < H
      BY <2>4, <2>7 DEF NoneWrapped, H
    <3>2. bytes < H
      BY <2>1, <2>4, <2>6, <3>1, Zenon
    <3>3. \A k \in 1..m : pieces[k][2] < H
      BY <2>4, <2>5, <3>1, Zenon
    <3> QED BY <2>1, <3>2, <3>3 DEF NoneWrapped, H
  <2> QED BY <2>4, <2>7
<1>15. j \in 1..n /\ j = i + 1 /\ n = Len(field)
  BY <1>4 DEF j, n
<1>16. field'[j].size = field[j].size - bytes
  BY <1>10, <1>12, <1>15
<1>17. bytes \in 0..field[j].size /\ field[j] \in Elem
  BY <1>4, <1>5, <1>6, <1>7
<1> QED BY <1>1, <1>2, <1>3, <1>12, <1>13, <1>14, <1>15, <1>16, <1>17

\* node_size stays above the size of the element, and the slices before are the same.
LEMMA NestedSplitsInv ==
    ASSUME RepeatedFieldInv, NEW bytes \in Nat, NestedSplits(bytes)
    PROVE  RepeatedFieldInv'
<1>1. /\ status = "running" /\ extracted = None /\ Scanning /\ node # None
      /\ node' = NodeAfterNested(node, bytes)
      /\ factory' = factory + 1
      /\ UNCHANGED <<input, i, split, total, extracted, slices, status, tries, addFailed>>
  BY DEF NestedSplits, AskingFactory, Scanning
<1> DEFINE n == Len(field)
           size == field[i + 1].size
<1>2. /\ ScanInv /\ factory \in 1..Factories
      /\ node \in Nat /\ i \in 0..(n - 1)
      /\ field[i + 1] \in Elem /\ bytes \in 0..size
      /\ field' \in Seq(Elem) /\ Len(field') = n
      /\ \A k \in 1..n : k # i + 1 => field'[k] = field[k]
      /\ field'[i + 1].size = size - bytes
      /\ \A k \in 1..n : field'[k].id = field[k].id
      /\ pieces' \in Seq(Nat \X Nat)
      /\ NoneWrapped' => NoneWrapped /\ bytes < H
  BY BytesCut
<1>3. n \in Nat /\ n # 0 /\ DOMAIN field = 1..n /\ DOMAIN field' = 1..n
      /\ field \in Seq(Elem) /\ field # <<>> /\ field' # <<>>
  BY <1>2, LenProperties, EmptySeq DEF RepeatedFieldInv, FieldInv
<1>4. slices = <<>> /\ ~addFailed /\ Whole = field
  BY <1>1, <1>3, AllInField
<1>5. DataInv'
  <2>1. FieldInv'
    BY <1>1, <1>2, <1>3, <1>4 DEF RepeatedFieldInv, FieldInv
  <2>2. ElementsInOrder'
    <3>1. Whole = FlattenSeq(slices) \o <<>> \o field
      BY <1>1 DEF Whole, Left
    <3>2. FlattenSeq(slices) \o <<>> \o field' = field'
      BY <1>2, <1>4, EmptySeq, ConcatEmptySeq DEF FlattenSeq
    <3>3. Ids(field) = [k \in DOMAIN input |-> k]
      BY <1>1, <1>4, <3>1 DEF RepeatedFieldInv, ElementsInOrder
    <3>4. Ids(field') = Ids(field)
      BY <1>2, <1>3 DEF Ids
    <3> QED BY <1>1, <1>4, <3>2, <3>3, <3>4 DEF ElementsInOrder
  <2>3. SlicesEstimated' /\ OnlyFirstEmpty' /\ Greedy'
    <3>1. slices' = <<>> /\ DOMAIN slices' = {} /\ Len(slices') = 0
      BY <1>1, <1>4
    <3> QED BY <3>1 DEF SlicesEstimated, OnlyFirstEmpty, Greedy
  <2> QED BY <2>1, <2>2, <2>3 DEF DataInv
<1>6. size \in Nat /\ size <= node /\ (NoneWrapped => size = node)
      /\ NodeBound(node, factory - 1)
  BY <1>1, <1>2, PowersOfTwo DEF ScanInv, NodeInv, NodeBound, H, Elem, ElementSize
<1> DEFINE k == factory - 1
<1>7. k \in 0..(Factories - 1) /\ k + 1 = factory' - 1 /\ factory' \in 1..(Factories + 1)
      /\ k + 1 \in 0..Factories /\ size \in 0..node
  <2>1. Factories \in Nat
    BY RepeatedFieldAssumption
  <2>2. size \in 0..node
    BY <1>2, <1>6
  <2> HIDE DEF size
  <2> QED BY <1>1, <1>2, <2>1, <2>2
<1> HIDE DEF size, k
<1>8. /\ node' \in Nat /\ size - bytes <= node'
      /\ node = size /\ bytes < H => node' = size - bytes
      /\ NodeBound(node', k + 1)
  BY <1>1, <1>2, <1>6, <1>7, NodeStaysAbove DEF k
<1>9. node' \in 0..(W - 1)
  <2>1. 2 * node' + MaxSize + ExtraBytes < W
    <3> DEFINE kk == k + 1
    <3>1. kk \in 0..Factories /\ NodeBound(node', kk)
      BY <1>7, <1>8
    <3> HIDE DEF kk
    <3> QED BY <1>8, <3>1, NodeIsSmall
  <2>2. MaxSize \in Nat /\ ExtraBytes \in Nat
    BY RepeatedFieldAssumption, PowersOfTwo
  <2>3. W \in Nat
    BY Widths
  <2> DEFINE m == MaxSize
             e == ExtraBytes
             w == W
             x == node'
  <2>4. m \in Nat /\ e \in Nat /\ w \in Nat /\ x \in Nat /\ 2 * x + m + e < w
    BY <1>8, <2>1, <2>2, <2>3
  <2> HIDE DEF m, e, w, x
  <2>5. x < w
    BY <2>4
  <2> QED BY <2>4, <2>5 DEF w, x
<1>10. TypeOK'
  <2>1. field' \in Seq(Element)
    BY <1>2, ElemIsElement
  <2> QED BY <1>1, <1>2, <1>7, <1>9, <2>1 DEF RepeatedFieldInv, TypeOK, W
<1>11. NodeInv'
  <2>1. field'[i' + 1].size <= node' /\ i' < Len(field')
    BY <1>1, <1>2, <1>8
  <2>2. NoneWrapped' => field'[i' + 1].size = node'
    BY <1>1, <1>2, <1>6, <1>8
  <2>3. \E x \in ElementSize : node' <= x + (factory' - 1) * 2^(IntBits - 1)
    BY <1>7, <1>8 DEF NodeBound, H
  <2> QED BY <1>8, <2>1, <2>2, <2>3 DEF NodeInv
<1>12. ASSUME NEW a \in Nat, NEW b \in 0..i, a <= b
       PROVE  Slice(field', a, b) = Slice(field, a, b)
  <2>1. b \in 0..Len(field) /\ \A j \in 1..b : j \in 1..n /\ j # i + 1
    BY <1>2
  <2> QED BY <1>2, <1>3, <1>12, <2>1, SliceUnchanged
<1>13. split \in Seq(0..n) /\ DOMAIN split = 1..Len(split) /\ Len(split) \in Nat
       /\ split # <<>> /\ Len(split) \in 1..Len(split)
       /\ \A j \in 1..Len(split) : split[j] \in 0..i /\ (j > 1 => split[j] < i)
  <2>1. split \in Seq(0..n) /\ split # <<>>
    BY <1>2 DEF ScanInv, SplitInv
  <2>2. DOMAIN split = 1..Len(split) /\ Len(split) \in Nat /\ Len(split) # 0
    BY <2>1, LenProperties, EmptySeq
  <2>3. \A j \in 1..Len(split) : split[j] \in 0..n
    BY <2>1, ElementOfSeq
  <2>4. \A j \in DOMAIN split : split[j] <= i /\ (j > 1 => split[j] < i)
    BY <1>2 DEF ScanInv
  <2>5. \A j \in 1..Len(split) : split[j] \in 0..i /\ (j > 1 => split[j] < i)
    <3>1. n \in Nat /\ i \in Nat
      BY <1>2, <1>3
    <3> HIDE DEF n
    <3> QED BY <2>2, <2>3, <2>4, <3>1
  <2> QED BY <2>1, <2>2, <2>5
<1>14. SplitInv(field)'
  <2>1. ASSUME NEW j \in 2..Len(split)
        PROVE  /\ split[j - 1] <= split[j]
               /\ j > 2 => split[j - 1] < split[j]
               /\ Packed(field, split[j - 1], split[j])'
    <3> DEFINE a == split[j - 1]
               b == split[j]
    <3>1. a <= b /\ (j > 2 => a < b) /\ Packed(field, a, b)
      BY <1>2 DEF ScanInv, SplitInv
    <3>2. a \in Nat /\ b \in Nat /\ b \in 0..i /\ b + 1 \in 0..i
      <4>1. j \in 1..Len(split) /\ j - 1 \in 1..Len(split) /\ j > 1
        BY <1>13
      <4>2. split[j - 1] \in 0..i /\ split[j] \in 0..i /\ split[j] < i
        BY <1>13, <4>1
      <4>3. i \in Nat
        BY <1>2
      <4> HIDE DEF a, b
      <4>4. a \in 0..i /\ b \in 0..i /\ b < i
        BY <4>2 DEF a, b
      <4> QED BY <4>3, <4>4
    <3>3. Slice(field', a, b) = Slice(field, a, b)
      <4> HIDE DEF a, b
      <4> QED BY <1>12, <3>1, <3>2
    <3>4. Slice(field', a, b + 1) = Slice(field, a, b + 1)
      <4> DEFINE c == b + 1
      <4>1. c \in 0..i /\ a <= c
        BY <3>1, <3>2
      <4> HIDE DEF a, c
      <4>2. Slice(field', a, c) = Slice(field, a, c)
        BY <1>12, <3>2, <4>1
      <4> QED BY <4>2 DEF c
    <3>5. Packed(field, a, b)'
      BY <1>1, <1>2, <3>1, <3>3, <3>4 DEF Packed
    <3> QED BY <3>1, <3>5
  <2>2. split' = split /\ split \in Seq(0..Len(field')) /\ split # <<>> /\ split[1] = 0
    BY <1>1, <1>2, <1>13 DEF ScanInv, SplitInv
  <2> QED BY <2>1, <2>2 DEF SplitInv
<1>15. OpenInv'
  <2>1. Last(split) \in 0..i /\ Last(split) \in Nat
    BY <1>13 DEF Last
  <2>2. i \in 0..i /\ i \in Nat
    BY <1>2
  <2>3. Slice(field', Last(split), i) = Slice(field, Last(split), i)
    BY <1>12, <2>1, <2>2
  <2>4. OpenInv
    BY <1>2 DEF ScanInv
  <2> QED BY <1>1, <1>2, <2>3, <2>4 DEF OpenInv
<1>16. ScanInv'
  BY <1>1, <1>2, <1>7, <1>11, <1>14, <1>15 DEF ScanInv, TotalInv
<1> QED BY <1>1, <1>5, <1>10, <1>16
        DEF RepeatedFieldInv, DataInv, AllOrNothing, Scanning, Moving

\* SplitInv, of any sequence of splits.
SplitsAre(s, w) == /\ s \in Seq(0..Len(w))
                   /\ s # <<>> /\ s[1] = 0
                   /\ \A k \in 2..Len(s) :
                         /\ s[k - 1] <= s[k]
                         /\ k > 2 => s[k - 1] < s[k]
                         /\ Packed(w, s[k - 1], s[k])

\* The splits up to the element that is next, with that element's index added.
LEMMA SplitExtends ==
    ASSUME RepeatedFieldInv, Scanning,
           NoneWrapped /\ Last(split) < i /\ i < Len(field) =>
               Estimate(Slice(field, Last(split), i + 1)) > MaxSize
    PROVE  /\ SplitsAre(Append(split, i), field)
           /\ Len(Append(split, i)) = Len(split) + 1
           /\ Last(Append(split, i)) = i
           /\ \A k \in DOMAIN Append(split, i) :
                 Append(split, i)[k] <= i /\ (k > 1 => Append(split, i)[k] < i + 1)
<1> DEFINE n == Len(field)
           m == Len(split)
           s == Append(split, i)
           mm == m + 1
<1>1. ScanInv /\ field \in Seq(Elem)
  BY DEF RepeatedFieldInv, FieldInv
<1>2. n \in Nat /\ i \in 0..n /\ i \in Nat
  BY <1>1, LenProperties DEF ScanInv
<1>3. /\ split \in Seq(0..n) /\ split # <<>> /\ split[1] = 0
      /\ \A k \in DOMAIN split : split[k] <= i /\ (k > 1 => split[k] < i)
      /\ \A k \in 2..m : /\ split[k - 1] <= split[k]
                         /\ k > 2 => split[k - 1] < split[k]
                         /\ Packed(field, split[k - 1], split[k])
      /\ OpenInv /\ TotalInv
  BY <1>1 DEF ScanInv, SplitInv
<1>4. m \in Nat /\ m # 0 /\ DOMAIN split = 1..m /\ m \in 1..m /\ Last(split) = split[m]
      /\ 1 \in 1..m
  BY <1>3, LenProperties, EmptySeq DEF Last
<1>5. \A k \in 1..m : split[k] \in 0..n
  BY <1>3, <1>4, ElementOfSeq
<1>6. /\ s \in Seq(0..n) /\ Len(s) = mm
      /\ \A k \in 1..m : s[k] = split[k]
      /\ s[mm] = i
  BY <1>2, <1>3, AppendProperties
<1> HIDE DEF n, m, s
<1>7. mm \in Nat /\ mm - 1 = m /\ mm \in 1..mm /\ \A k \in 1..m : k \in 1..mm
  BY <1>4
<1> HIDE DEF mm
<1>8. DOMAIN s = 1..mm /\ s # <<>> /\ s[1] = 0 /\ Last(s) = i
  BY <1>3, <1>4, <1>6, <1>7, LenProperties, EmptySeq DEF Last
<1>9. Packed(field, split[m], i)
  <2> DEFINE a == split[m]
  <2>1. /\ BytesOf(Slice(field, a, i)) <= total
        /\ i - a > 1 => total - ExtraBytes <= MaxSize
    BY <1>3, <1>4, Zenon DEF OpenInv
  <2>2. a \in 0..n /\ a <= i /\ a \in Nat
    BY <1>3, <1>4, <1>5
  <2> HIDE DEF a
  <2>3. Slice(field, a, i) \in Seq(Elem)
    BY <1>1, <1>2, <2>2, SliceElements DEF n
  <2>4. BytesOf(Slice(field, a, i)) \in Nat
    BY <2>3, ElemIsElement, BytesAppend, EmptySeq
  <2>5. ExtraBytes \in Nat /\ MaxSize \in Nat /\ total \in Nat
    BY <1>3, RepeatedFieldAssumption, PowersOfTwo DEF TotalInv
  <2>6. i - a > 1 => Estimate(Slice(field, a, i)) <= MaxSize
    BY <2>1, <2>4, <2>5 DEF Estimate
  <2>7. NoneWrapped /\ a < i /\ i < Len(field) => Estimate(Slice(field, a, i + 1)) > MaxSize
    BY <1>4, Zenon DEF a
  <2> QED BY <2>6, <2>7, Zenon DEF Packed, a
<1>10. ASSUME NEW k \in 2..mm
       PROVE  /\ s[k - 1] <= s[k]
              /\ k > 2 => s[k - 1] < s[k]
              /\ Packed(field, s[k - 1], s[k])
  <2>1. k - 1 \in 1..m
    BY <1>4, <1>7
  <2>2. CASE k = mm
    <3>1. s[k] = i /\ s[k - 1] = split[m] /\ k - 1 = m
      BY <1>6, <1>7, <2>1, <2>2
    <3>2. split[m] <= i /\ (k > 2 => split[m] < i)
      <4>1. k > 2 => m > 1
        BY <1>4, <1>7, <2>2
      <4> QED BY <1>3, <1>4, <4>1
    <3> QED BY <1>9, <3>1, <3>2
  <2>3. CASE k # mm
    <3>1. k \in 2..m /\ k \in 1..m
      BY <1>4, <1>7, <2>3
    <3>2. s[k] = split[k] /\ s[k - 1] = split[k - 1]
      BY <1>6, <2>1, <3>1
    <3> QED BY <1>3, <3>1, <3>2 DEF m
  <2> QED BY <2>2, <2>3
<1>11. ASSUME NEW k \in 1..mm
       PROVE  s[k] <= i /\ (k > 1 => s[k] < i + 1)
  <2>1. CASE k = mm
    BY <1>2, <1>6, <2>1
  <2>2. CASE k # mm
    <3>1. k \in 1..m
      BY <1>4, <1>7, <2>2
    <3>2. s[k] = split[k] /\ split[k] <= i /\ (k > 1 => split[k] < i)
      BY <1>3, <1>4, <1>6, <3>1, Zenon
    <3>3. split[k] \in 0..n
      BY <1>5, <3>1
    <3> QED BY <1>2, <3>2, <3>3
  <2> QED BY <2>1, <2>2
<1>12. SplitsAre(s, field)
  BY <1>6, <1>8, <1>10 DEF SplitsAre, n
<1> QED BY <1>6, <1>8, <1>11, <1>12 DEF s, m, mm

\* The types after that: only these four change.
LEMMA CloseNodeType ==
    ASSUME TypeOK,
           split' \in Seq(0..Len(input)), total' \in 0..(W - 1),
           i' \in 0..Len(input), Len(input) \in Nat, node' = None,
           UNCHANGED <<input, field, factory, extracted, slices, pieces, status, tries, addFailed>>
    PROVE  TypeOK'
<1>1. i' \in 0..(Len(input) + 2)
  OBVIOUS
<1> QED BY <1>1 DEF TypeOK, W

\* The element that is next fits into the open slice, or a new one starts with it.
LEMMA CloseNodeInv ==
    ASSUME RepeatedFieldInv, CloseNode
    PROVE  RepeatedFieldInv'
<1>1. /\ status = "running" /\ extracted = None /\ Scanning
      /\ node # None /\ factory > Factories
      /\ split' = IF NeedsNewSlice THEN Append(split, i) ELSE split
      /\ total' = Word((IF NeedsNewSlice THEN 0 ELSE total) + node + ExtraBytes)
      /\ i' = i + 1
      /\ node' = None
      /\ UNCHANGED <<input, field, factory, extracted, slices, pieces, status, tries,
                     addFailed>>
  BY DEF CloseNode, Scanning
<1>2. DataInv'
  BY <1>1, ElementsStay DEF RepeatedFieldInv, DataInv
<1> DEFINE n == Len(field)
           size == field[i + 1].size
           last == Last(split)
           open == Slice(field, last, i)
<1>3. ScanInv /\ NodeInv /\ OpenInv /\ SplitInv(field) /\ TotalInv /\ field \in Seq(Elem)
  BY <1>1 DEF RepeatedFieldInv, ScanInv, FieldInv
<1>4. n \in Nat /\ i \in 0..(n - 1) /\ i \in Nat /\ i + 1 \in 1..n
  BY <1>1, <1>3, LenProperties DEF ScanInv, NodeInv
<1>5. /\ node \in Nat /\ size <= node /\ (NoneWrapped => size = node)
      /\ NodeBound(node, Factories)
  <2>1. Factories \in Nat
    BY RepeatedFieldAssumption
  <2>2. factory - 1 = Factories
    BY <1>1, <1>3, <2>1 DEF ScanInv
  <2> QED BY <1>1, <1>3, <2>2 DEF NodeInv, NodeBound, H
<1>6. field[i + 1] \in Elem /\ field[i + 1] \in Element /\ size \in Nat
  <2>1. field[i + 1] \in Elem
    BY <1>3, <1>4, ElementOfSeq
  <2> QED BY <2>1, ElemIsElement DEF Element
<1>7. split # <<>> /\ last \in 0..i /\ last \in 0..n /\ last \in Nat
  <2>1. split \in Seq(0..n) /\ split # <<>> /\ \A k \in DOMAIN split : split[k] <= i
    BY <1>3 DEF ScanInv, SplitInv
  <2>2. Len(split) \in DOMAIN split /\ Len(split) \in 1..Len(split)
    BY <2>1, LenProperties, EmptySeq
  <2>3. split[Len(split)] \in 0..n
    BY <2>1, <2>2, ElementOfSeq
  <2> HIDE DEF n
  <2> QED BY <1>4, <2>1, <2>2, <2>3 DEF Last
<1>8. /\ total \in Nat /\ TotalBound(total)
      /\ BytesOf(open) <= total /\ (NoneWrapped => BytesOf(open) = total)
      /\ i - last > 1 => total - ExtraBytes <= MaxSize
  BY <1>3 DEF OpenInv, TotalInv, TotalBound, W
<1>9. ExtraBytes \in Nat /\ MaxSize \in Nat /\ Factories \in Nat /\ Factories \in 0..Factories
  BY RepeatedFieldAssumption, PowersOfTwo
<1>10. /\ Word(total + node) = total + node
       /\ Word(0 + node + ExtraBytes) = node + ExtraBytes
       /\ TotalBound(node + ExtraBytes)
       /\ total + node <= MaxSize =>
             /\ Word(total + node + ExtraBytes) = total + node + ExtraBytes
             /\ TotalBound(total + node + ExtraBytes)
  <2>1. 2 * node + MaxSize + ExtraBytes < W
    BY <1>5, <1>9, NodeIsSmall
  <2> QED BY <1>5, <1>8, <2>1, TotalIsExact
<1>11. /\ open \in Seq(Element)
       /\ Slice(field, last, i + 1) = Append(open, field[i + 1])
       /\ BytesOf(open) \in Nat
       /\ BytesOf(Slice(field, last, i + 1)) = BytesOf(open) + size + ExtraBytes
  <2>1. i \in 0..n /\ last <= i
    BY <1>4, <1>7
  <2>2. open \in Seq(Element)
    BY <1>3, <1>7, <2>1, SliceElements, ElemIsElement
  <2>3. Slice(field, last, i + 1) = Append(open, field[i + 1])
    BY <1>3, <1>4, <1>7, <2>1, SliceExtended
  <2> HIDE DEF open
  <2> QED BY <1>6, <2>2, <2>3, BytesAppend
<1>12. /\ Slice(field, i, i + 1) = <<field[i + 1]>>
       /\ BytesOf(Slice(field, i, i + 1)) = size + ExtraBytes
  <2>1. i \in 0..n /\ i <= i
    BY <1>4
  <2>2. Slice(field, i, i) = <<>> /\ Slice(field, i, i + 1) = Append(<<>>, field[i + 1])
    <3>1. Slice(field, i, i) = <<>>
      BY <1>3, <2>1, SliceEnds
    <3>2. Slice(field, i, i + 1) = Append(Slice(field, i, i), field[i + 1])
      BY <1>3, <1>4, <2>1, SliceExtended
    <3> QED BY <3>1, <3>2
  <2>3. Append(<<>>, field[i + 1]) = <<field[i + 1]>> /\ <<>> \in Seq(Element)
    OBVIOUS
  <2>4. BytesOf(Append(<<>>, field[i + 1])) = 0 + size + ExtraBytes
    BY <1>6, <2>3, BytesAppend
  <2> QED BY <1>6, <1>9, <2>2, <2>3, <2>4
<1>13. NeedsNewSlice <=> total + node > MaxSize
  BY <1>10 DEF NeedsNewSlice
<1>14. i' \in 0..n /\ Len(input) \in Nat /\ n <= Len(input)
  BY <1>1, <1>4, LenProperties DEF RepeatedFieldInv, FieldInv
<1>15. factory' \in 1..(Factories + 1)
  BY <1>1, <1>3 DEF ScanInv
<1>16. CASE NeedsNewSlice
  <2>1. split' = Append(split, i) /\ total' = node + ExtraBytes /\ total + node > MaxSize
    BY <1>1, <1>10, <1>13, <1>16
  <2>2. NoneWrapped => Estimate(Slice(field, last, i + 1)) > MaxSize
    <3> HIDE DEF size, open, last
    <3> QED BY <1>5, <1>6, <1>8, <1>9, <1>11, <2>1 DEF Estimate
  <2>3. /\ SplitsAre(split', field)
        /\ Len(split') = Len(split) + 1
        /\ Last(split') = i
        /\ \A k \in DOMAIN split' : split'[k] <= i /\ (k > 1 => split'[k] < i + 1)
    BY <1>1, <2>1, <2>2, SplitExtends
  <2>4. SplitInv(field)'
    BY <1>1, <2>3 DEF SplitsAre, SplitInv, Packed, NoneWrapped
  <2>5. OpenInv'
    <3>1. /\ BytesOf(Slice(field, i, i + 1)) <= total'
          /\ NoneWrapped => BytesOf(Slice(field, i, i + 1)) = total'
      <4> DEFINE first == BytesOf(Slice(field, i, i + 1))
      <4>1. first = size + ExtraBytes /\ total' = node + ExtraBytes
        BY <1>12, <2>1
      <4> HIDE DEF first, size
      <4>2. first <= node + ExtraBytes
        BY <1>5, <1>6, <1>9, <4>1
      <4>3. NoneWrapped => first = node + ExtraBytes
        BY <1>5, <4>1
      <4> QED BY <4>1, <4>2, <4>3 DEF first
    <3>2. ~(i + 1 - i > 1)
      BY <1>4
    <3>3. Slice(field', Last(split'), i') = Slice(field, i, i + 1)
      BY <1>1, <2>3
    <3>4. NoneWrapped' <=> NoneWrapped
      BY <1>1 DEF NoneWrapped
    <3>5. i' - Last(split') = i + 1 - i
      <4>1. i' = i + 1 /\ Last(split') = i
        BY <1>1, <2>3
      <4> QED BY <1>4, <4>1
    <3> QED BY <3>1, <3>2, <3>3, <3>4, <3>5, Zenon DEF OpenInv
  <2>6. TotalInv'
    BY <1>5, <1>9, <1>10, <2>1 DEF TotalInv, TotalBound, W
  <2>7. ScanInv'
    <3>1. Len(split) <= i + 1 /\ Len(split) \in Nat
      BY <1>3, LenProperties DEF ScanInv, SplitInv
    <3>2. \A k \in DOMAIN split' : split'[k] <= i' /\ (k > 1 => split'[k] < i')
      <4>1. split' \in Seq(0..n)
        BY <2>3 DEF SplitsAre
      <4>2. \A k \in DOMAIN split' : split'[k] \in 0..n
        BY <4>1, ElementOfSeq, LenProperties
      <4> HIDE DEF n
      <4> QED BY <1>1, <1>4, <2>3, <4>2
    <3>3. Len(split') <= i' + 1
      BY <1>1, <1>4, <2>3, <3>1
    <3> QED BY <1>1, <1>14, <1>15, <2>4, <2>5, <2>6, <3>2, <3>3 DEF ScanInv, NodeInv
  <2>8. TypeOK'
    <3>1. split' \in Seq(0..n)
      BY <2>3 DEF SplitsAre
    <3>2. split' \in Seq(0..Len(input))
      BY <1>14, <3>1
    <3>3. total' \in 0..(W - 1)
      <4>1. 0 + node + ExtraBytes \in Int
        BY <1>5, <1>9
      <4>2. total' = Word(0 + node + ExtraBytes)
        BY <1>10, <2>1
      <4> QED BY <4>1, <4>2, WordInRange
    <3>4. i' \in 0..Len(input)
      BY <1>4, <1>14
    <3> QED BY <1>1, <1>14, <3>2, <3>3, <3>4, CloseNodeType DEF RepeatedFieldInv
  <2> QED BY <1>1, <1>2, <2>7, <2>8
          DEF RepeatedFieldInv, DataInv, AllOrNothing, Scanning, Moving
<1>17. CASE ~NeedsNewSlice
  <2>1. /\ split' = split /\ total' = total + node + ExtraBytes /\ total + node <= MaxSize
        /\ TotalBound(total')
    <3>1. total + node <= MaxSize
      BY <1>5, <1>8, <1>9, <1>13, <1>17
    <3> QED BY <1>1, <1>10, <1>17, <3>1
  <2>2. SplitInv(field)'
    BY <1>1, <1>3, <2>1 DEF SplitInv, Packed, NoneWrapped
  <2>3. OpenInv'
    <3>1. /\ BytesOf(Slice(field, last, i + 1)) <= total'
          /\ NoneWrapped => BytesOf(Slice(field, last, i + 1)) = total'
          /\ total' - ExtraBytes <= MaxSize
      <4>1. total' = total + node + ExtraBytes /\ total + node <= MaxSize
        BY <2>1
      <4> HIDE DEF size, open, last
      <4>2. total' - ExtraBytes <= MaxSize
        BY <1>5, <1>8, <1>9, <4>1
      <4>3. BytesOf(Slice(field, last, i + 1)) <= total'
        BY <1>5, <1>6, <1>8, <1>9, <1>11, <4>1
      <4>4. NoneWrapped => BytesOf(Slice(field, last, i + 1)) = total'
        BY <1>5, <1>8, <1>11, <4>1
      <4> QED BY <4>2, <4>3, <4>4
    <3>2. Slice(field', Last(split'), i') = Slice(field, last, i + 1)
      BY <1>1, <2>1
    <3>3. NoneWrapped' <=> NoneWrapped
      BY <1>1 DEF NoneWrapped
    <3> QED BY <3>1, <3>2, <3>3, Zenon DEF OpenInv
  <2>4. TotalInv'
    BY <1>5, <1>8, <1>9, <2>1 DEF TotalInv, TotalBound, W
  <2>5. ScanInv'
    <3>1. Len(split) <= i + 1 /\ Len(split) \in Nat
      BY <1>3, LenProperties DEF ScanInv, SplitInv
    <3>2. \A k \in DOMAIN split : split[k] <= i /\ (k > 1 => split[k] < i)
      BY <1>3 DEF ScanInv
    <3>3. \A k \in DOMAIN split : split[k] \in 0..n
      BY <1>3, ElementOfSeq, LenProperties DEF SplitInv
    <3>4. \A k \in DOMAIN split' : split'[k] <= i' /\ (k > 1 => split'[k] < i')
      <4> HIDE DEF n
      <4> QED BY <1>1, <1>4, <2>1, <3>2, <3>3
    <3>5. Len(split') <= i' + 1
      BY <1>1, <1>4, <2>1, <3>1
    <3> QED BY <1>1, <1>14, <1>15, <2>2, <2>3, <2>4, <3>4, <3>5 DEF ScanInv, NodeInv
  <2>6. TypeOK'
    <3>1. total' \in 0..(W - 1)
      <4>1. total + node + ExtraBytes \in Int
        BY <1>5, <1>8, <1>9
      <4>2. total + node <= MaxSize /\ total' = total + node + ExtraBytes
        BY <2>1
      <4>3. Word(total + node + ExtraBytes) = total + node + ExtraBytes
        BY <1>10, <4>2
      <4>4. total' = Word(total + node + ExtraBytes)
        BY <4>2, <4>3
      <4> QED BY <4>1, <4>4, WordInRange
    <3>2. split' \in Seq(0..Len(input))
      BY <2>1 DEF RepeatedFieldInv, TypeOK
    <3>3. i' \in 0..Len(input)
      BY <1>4, <1>14
    <3> QED BY <1>1, <1>14, <3>1, <3>2, <3>3, CloseNodeType DEF RepeatedFieldInv
  <2> QED BY <1>1, <1>2, <2>5, <2>6
          DEF RepeatedFieldInv, DataInv, AllOrNothing, Scanning, Moving
<1> QED BY <1>16, <1>17

------------------------------------------------------------------------------
(* The slices are moved *)

\* With no split, nothing is moved.
LEMMA NoSlicesInv ==
    ASSUME RepeatedFieldInv, NoSlices
    PROVE  RepeatedFieldInv'
<1>1. /\ status = "running" /\ extracted = None /\ status' = "OK"
      /\ UNCHANGED <<input, field, i, node, factory, split, total, extracted, slices,
                     pieces, tries, addFailed>>
  BY DEF NoSlices, Scanned, Scanning, scan
<1>2. DataInv'
  BY <1>1, ElementsStay DEF RepeatedFieldInv, DataInv
<1>3. TypeOK'
  BY <1>1 DEF RepeatedFieldInv, TypeOK
<1>4. AllOrNothing'
  BY <1>1 DEF AllOrNothing, RepeatedFieldInv, FieldInv
<1> QED BY <1>1, <1>2, <1>3, <1>4 DEF RepeatedFieldInv, DataInv, Scanning, Moving

\* A sequence of elements is not None.
LEMMA NoneIsNoElements == \A s \in Seq(Elem) : s # None
BY ElemIsElement, RepeatedFieldAssumption

\* All elements are taken out of the field, and the splits cover them.
LEMMA ExtractSubrangeInv ==
    ASSUME RepeatedFieldInv, ExtractSubrange
    PROVE  RepeatedFieldInv'
<1> DEFINE n == Len(field)
<1>1. /\ status = "running" /\ extracted = None /\ Scanning /\ node = None /\ i = n
      /\ Len(split) > 1
      /\ extracted' = field /\ field' = <<>>
      /\ split' = Append(split, i)
      /\ i' = 1
      /\ UNCHANGED <<input, node, factory, total, slices, pieces, status, tries, addFailed>>
  BY DEF ExtractSubrange, Scanned, Scanning, LeftByExtract, EndOfSlices
<1>2. /\ ScanInv /\ field \in Seq(Elem) /\ n \in Nat /\ n <= Len(input)
      /\ Len(input) \in Nat
  BY <1>1, LenProperties DEF RepeatedFieldInv, FieldInv
<1>3. Len(split) \in Nat /\ DOMAIN split = 1..Len(split) /\ Len(split) <= n + 1
  BY <1>1, <1>2, LenProperties DEF ScanInv, SplitInv
<1>4. field # <<>>
  <2>1. Len(field) # 0
    BY <1>1, <1>2, <1>3
  <2> QED BY <2>1
<1>5. slices = <<>> /\ ~addFailed /\ Whole = field
  BY <1>1, <1>4, AllInField
<1>6. extracted' # None /\ extracted' \in Seq(Elem) /\ extracted' \in Seq(Element)
  BY <1>1, <1>2, NoneIsNoElements, ElemIsElement
<1>7. Whole' = field
  <2>1. FlattenSeq(slices') = <<>> /\ Left' = field /\ field' = <<>>
    BY <1>1, <1>5, <1>6 DEF FlattenSeq, Left
  <2>2. <<>> \o field \o <<>> = field
    BY <1>2, EmptySeq, ConcatEmptySeq
  <2> QED BY <2>1, <2>2 DEF Whole
<1>8. DataInv'
  <2>1. <<>> \in Seq(Elem) /\ Len(<<>>) = 0
    BY EmptySeq
  <2>2. FieldInv'
    BY <1>1, <1>2, <1>5, <1>6, <2>1 DEF RepeatedFieldInv, FieldInv
  <2>3. ElementsInOrder'
    <3>1. Ids(Whole) = [k \in DOMAIN input |-> k]
      BY <1>5 DEF RepeatedFieldInv, ElementsInOrder, Whole, Left
    <3>2. Ids(Whole') = [k \in DOMAIN input' |-> k]
      BY <1>1, <1>5, <1>7, <3>1
    <3> QED BY <3>2 DEF ElementsInOrder, Whole, Left
  <2>4. SlicesEstimated' /\ OnlyFirstEmpty' /\ Greedy'
    <3>1. slices' = <<>> /\ DOMAIN slices' = {} /\ Len(slices') = 0
      BY <1>1, <1>5
    <3> QED BY <3>1 DEF SlicesEstimated, OnlyFirstEmpty, Greedy
  <2> QED BY <2>2, <2>3, <2>4 DEF DataInv
<1>9. /\ SplitsAre(split', field)
      /\ Len(split') = Len(split) + 1
      /\ Last(split') = n
  <2>1. ~(i < Len(field))
    BY <1>1, <1>2
  <2> QED BY <1>1, <2>1, SplitExtends
<1>10. MoveInv'
  <2>1. SplitInv(Whole)'
    <3>1. SplitsAre(split', Whole')
      BY <1>7, <1>9
    <3>2. \A a, b : Packed(Whole', a, b) => Packed(Whole, a, b)'
      BY <1>1 DEF Packed, NoneWrapped
    <3> QED BY <3>1, <3>2 DEF SplitsAre, SplitInv
  <2>2. slices' = <<>> /\ Len(slices') = i' - 1 /\ ~addFailed'
    BY <1>1, <1>5
  <2>3. i' \in 1..Len(split') /\ Len(split') <= Len(input') + 2
    BY <1>1, <1>2, <1>3, <1>9
  <2>4. 1..(i' - 1) = {}
    BY <1>1
  <2>5. extracted' = Slice(Whole', split'[i'], Len(Whole'))
    <3>1. split'[1] = 0
      BY <1>9 DEF SplitsAre
    <3>2. Slice(field, 0, n) = field
      <4>1. 0 \in 0..Len(field)
        BY <1>2
      <4> QED BY <1>2, <4>1, SliceEnds
    <3> QED BY <1>1, <1>7, <3>1, <3>2
  <2>6. Last(split') = Len(Whole')
    BY <1>7, <1>9
  <2> QED BY <2>1, <2>2, <2>3, <2>4, <2>5, <2>6 DEF MoveInv
<1>11. TypeOK'
  <2>1. split' \in Seq(0..Len(input)) /\ i' \in 0..(Len(input) + 2)
    <3>1. split' \in Seq(0..n)
      BY <1>9 DEF SplitsAre
    <3> QED BY <1>1, <1>2, <3>1
  <2>2. field' \in Seq(Element)
    BY <1>1, EmptySeq
  <2> QED BY <1>1, <1>6, <2>1, <2>2 DEF RepeatedFieldInv, TypeOK
<1> QED BY <1>1, <1>6, <1>8, <1>10, <1>11
        DEF RepeatedFieldInv, DataInv, AllOrNothing, Scanning, Moving

\* A chunk that cannot be added loses what was extracted.
LEMMA AddSliceFailsInv ==
    ASSUME RepeatedFieldInv, AddSliceFails
    PROVE  RepeatedFieldInv'
<1>1. /\ extracted # None /\ status' = "Error" /\ addFailed' = TRUE
      /\ UNCHANGED <<input, field, i, node, factory, split, total, extracted, slices,
                     pieces, tries>>
  BY DEF AddSliceFails, Moving, Fail, scan
<1>2. FieldInv'
  BY <1>1 DEF RepeatedFieldInv, FieldInv
<1>3. ElementsInOrder'
  BY <1>1 DEF ElementsInOrder
<1>4. SlicesEstimated' /\ OnlyFirstEmpty'
  BY <1>1 DEF RepeatedFieldInv, SlicesEstimated, OnlyFirstEmpty
<1>5. Greedy'
  BY <1>1 DEF RepeatedFieldInv, Greedy, NoneWrapped
<1>6. TypeOK'
  BY <1>1 DEF RepeatedFieldInv, TypeOK
<1> QED BY <1>1, <1>2, <1>3, <1>4, <1>5, <1>6
        DEF RepeatedFieldInv, AllOrNothing, Scanning, Moving

\* After the last slice, nothing extracted is left.
LEMMA AllMovedInv ==
    ASSUME RepeatedFieldInv, AllMoved
    PROVE  RepeatedFieldInv'
<1>1. /\ Moving /\ status = "running" /\ extracted # None /\ i = Len(split)
      /\ status' = "OK"
      /\ UNCHANGED <<input, field, i, node, factory, split, total, extracted, slices,
                     pieces, tries, addFailed>>
  BY DEF AllMoved, Moving, scan
<1>2. DataInv'
  BY <1>1, ElementsStay DEF RepeatedFieldInv, DataInv
<1>3. TypeOK'
  BY <1>1 DEF RepeatedFieldInv, TypeOK
<1>4. extracted = <<>> /\ field = <<>>
  <2>1. MoveInv /\ field = <<>>
    BY <1>1 DEF RepeatedFieldInv, FieldInv
  <2>2. Whole \in Seq(Elem)
    <3>1. FlattenSeq(slices) \in Seq(Elem)
      BY FlattenAppend, EmptySeq DEF RepeatedFieldInv, FieldInv
    <3>2. Left \in Seq(Elem) /\ field \in Seq(Elem)
      BY EmptySeq DEF RepeatedFieldInv, FieldInv, Left
    <3> QED BY <3>1, <3>2, ConcatProperties DEF Whole
  <2>3. extracted = Slice(Whole, Len(Whole), Len(Whole))
    BY <1>1, <2>1 DEF MoveInv, Last
  <2>4. Len(Whole) \in 0..Len(Whole)
    BY <2>2, LenProperties
  <2> QED BY <2>1, <2>2, <2>3, <2>4, SliceEnds
<1>5. AllOrNothing'
  BY <1>1, <1>4 DEF AllOrNothing
<1> QED BY <1>1, <1>2, <1>3, <1>5 DEF RepeatedFieldInv, DataInv, Scanning, Moving

\* What AddSlice moves: a slice of the whole, which stays the same.
LEMMA SliceMoved ==
    ASSUME RepeatedFieldInv, AddSlice
    PROVE  /\ Whole \in Seq(Elem) /\ Whole' = Whole
           /\ i \in 1..(Len(split) - 1) /\ Len(slices) = i - 1
           /\ split[i] \in 0..Len(Whole) /\ split[i + 1] \in 0..Len(Whole)
           /\ split[i] <= split[i + 1] /\ (i > 1 => split[i] < split[i + 1])
           /\ Packed(Whole, split[i], split[i + 1])
           /\ Slice(Whole, split[i], split[i + 1]) \in Seq(Elem)
           /\ slices' = Append(slices, Slice(Whole, split[i], split[i + 1]))
           /\ extracted' = Slice(Whole, split[i + 1], Len(Whole))
           /\ extracted' \in Seq(Elem) /\ extracted' # None
<1> DEFINE w == Whole
           a == split[i]
           b == split[i + 1]
           n == b - a
           len == Len(w)
           s == SubSeq(extracted, 1, n)
           t == SubSeq(extracted, n + 1, Len(extracted))
<1>1. /\ Moving /\ extracted # None /\ i < Len(split)
      /\ slices' = Append(slices, s)
      /\ extracted' = t
      /\ UNCHANGED field
  BY DEF AddSlice, Moving
<1>2. /\ MoveInv /\ slices \in Seq(Seq(Elem)) /\ extracted \in Seq(Elem) /\ field = <<>>
      /\ field \in Seq(Elem)
  BY <1>1 DEF RepeatedFieldInv, FieldInv
<1>3. FlattenSeq(slices) \in Seq(Elem) /\ Left = extracted
  BY <1>1, <1>2, FlattenAppend, EmptySeq DEF Left
<1>4. w = FlattenSeq(slices) \o extracted /\ w \in Seq(Elem)
  BY <1>2, <1>3, ConcatProperties, ConcatEmptySeq DEF Whole
<1>5. len \in Nat /\ split \in Seq(0..len) /\ Len(split) \in Nat
      /\ extracted = Slice(w, a, len)
  BY <1>2, <1>4, LenProperties DEF MoveInv, SplitInv
<1>6. i \in 1..(Len(split) - 1) /\ i \in 1..Len(split) /\ i + 1 \in 2..Len(split)
      /\ i + 1 \in 1..Len(split) /\ i + 1 - 1 = i
  BY <1>1, <1>2, <1>5 DEF MoveInv
<1>7. a \in 0..len /\ b \in 0..len
  <2> HIDE DEF len
  <2> QED BY <1>5, <1>6, ElementOfSeq
<1>8. a <= b /\ (i > 1 => a < b) /\ Packed(w, a, b)
  <2> DEFINE j == i + 1
  <2>1. j \in 2..Len(split) /\ j - 1 = i /\ (i > 1 => j > 2)
    BY <1>6
  <2> HIDE DEF j
  <2>2. /\ split[j - 1] <= split[j]
        /\ j > 2 => split[j - 1] < split[j]
        /\ Packed(w, split[j - 1], split[j])
    BY <1>2, <2>1 DEF MoveInv, SplitInv
  <2>3. split[j - 1] = a /\ split[j] = b
    BY <2>1 DEF j
  <2> QED BY <2>1, <2>2, <2>3
<1> HIDE DEF w, a, b, len
<1>9. /\ a \in Nat /\ len \in 0..len /\ a <= len /\ 0 \in Nat /\ n \in 0..(len - a) /\ n \in Nat
      /\ 0 <= n /\ len - a \in 0..(len - a) /\ n <= len - a
      /\ a + 0 = a /\ a + n = b /\ a + (len - a) = len
  BY <1>5, <1>7, <1>8
<1>0. /\ len \in 0..Len(w) /\ w \in Seq(Elem) /\ a \in Nat /\ a <= len
      /\ 0 \in Nat /\ n \in Nat /\ n \in 0..(len - a) /\ 0 <= n
  BY <1>4, <1>9 DEF len
<1>10. Len(extracted) = len - a
  <2>1. Len(Slice(w, a, len)) = len - a
    BY <1>0, SliceElements
  <2> QED BY <1>5, <2>1
<1> HIDE DEF n
<1>11. s = Slice(extracted, 0, n) /\ t = Slice(extracted, n, Len(extracted))
  BY DEF Slice
<1>12. s = Slice(w, a, b)
  <2>1. Slice(Slice(w, a, len), 0, n) = Slice(w, a + 0, a + n)
    BY <1>0, SliceOfSlice
  <2> QED BY <1>5, <1>9, <1>11, <2>1
<1>13. t = Slice(w, b, len)
  <2> DEFINE y == len - a
  <2>1. y \in 0..(len - a) /\ n <= y /\ a + y = len /\ Len(extracted) = y
    BY <1>9, <1>10
  <2> HIDE DEF y
  <2>2. Slice(Slice(w, a, len), n, y) = Slice(w, a + n, a + y)
    BY <1>0, <2>1, SliceOfSlice
  <2> QED BY <1>5, <1>9, <1>11, <2>1, <2>2
<1>14. s \o t = extracted
  BY <1>2, <1>9, <1>10, <1>11, SlicesJoined
<1>15. s \in Seq(Elem) /\ t \in Seq(Elem)
  <2>1. b \in Nat /\ len \in 0..Len(w) /\ b \in 0..Len(w) /\ b <= len
    BY <1>5, <1>7, <1>9 DEF len
  <2>2. Slice(w, a, b) \in Seq(Elem) /\ Slice(w, b, len) \in Seq(Elem)
    BY <1>4, <1>8, <1>9, <2>1, SliceElements
  <2> QED BY <1>12, <1>13, <2>2
<1> HIDE DEF s, t
<1>16. extracted' \in Seq(Elem) /\ extracted' # None
  BY <1>1, <1>15, NoneIsNoElements
<1>17. w' = w
  <2>1. w' = FlattenSeq(slices') \o extracted' \o field'
    BY <1>16 DEF w, Whole, Left
  <2>2. FlattenSeq(slices') = FlattenSeq(slices) \o s
    BY <1>1, <1>2, <1>15, FlattenAppend
  <2>3. (FlattenSeq(slices) \o s) \o t = FlattenSeq(slices) \o (s \o t)
    BY <1>3, <1>15, ConcatAssociative
  <2>4. FlattenSeq(slices) \o extracted \o <<>> = FlattenSeq(slices) \o extracted
    BY <1>2, <1>3, ConcatProperties, ConcatEmptySeq
  <2> QED BY <1>1, <1>2, <1>4, <1>14, <2>1, <2>2, <2>3, <2>4
<1>18. Len(slices) = i - 1
  BY <1>2 DEF MoveInv
<1> QED BY <1>1, <1>4, <1>6, <1>7, <1>8, <1>12, <1>13, <1>15, <1>16, <1>17, <1>18
        DEF w, a, b, len

\* A slice that is moved is within the limit, and had no room for the next element.
LEMMA AddSliceInv ==
    ASSUME RepeatedFieldInv, AddSlice
    PROVE  RepeatedFieldInv'
<1> DEFINE w == Whole
           a == split[i]
           b == split[i + 1]
           len == Len(w)
           s == Slice(w, a, b)
<1>1. /\ status = "running" /\ Moving /\ i' = i + 1
      /\ UNCHANGED <<input, field, node, factory, split, total, pieces, status, tries,
                     addFailed>>
  BY DEF AddSlice, Moving
<1>2. /\ w \in Seq(Elem) /\ w' = w
      /\ i \in 1..(Len(split) - 1) /\ Len(slices) = i - 1
      /\ a \in 0..len /\ b \in 0..len /\ a <= b /\ (i > 1 => a < b)
      /\ Packed(w, a, b)
      /\ s \in Seq(Elem)
      /\ slices' = Append(slices, s)
      /\ extracted' = Slice(w, b, len)
      /\ extracted' \in Seq(Elem) /\ extracted' # None
  BY SliceMoved
<1>3. /\ MoveInv /\ slices \in Seq(Seq(Elem)) /\ field = <<>> /\ len \in Nat
      /\ Len(split) \in Nat
  BY <1>1, <1>2, LenProperties DEF RepeatedFieldInv, FieldInv, Moving, MoveInv, SplitInv
<1>4. \A k \in 1..(i - 1) : slices[k] = Slice(w, split[k], split[k + 1])
  BY <1>3 DEF MoveInv
<1>5. a \in Nat /\ b \in Nat /\ i \in Nat /\ i >= 1
  BY <1>2, <1>3
<1>6. Len(s) = b - a /\ \A j \in 1..(b - a) : s[j] = w[a + j]
  <2> HIDE DEF a, b
  <2> QED BY <1>2, <1>5, SliceElements DEF s
<1>7. NoneWrapped' <=> NoneWrapped
  BY <1>1 DEF NoneWrapped
<1> HIDE DEF w, a, b, s, len
<1>8. /\ slices' \in Seq(Seq(Elem)) /\ Len(slices') = i
      /\ \A k \in 1..(i - 1) : slices'[k] = slices[k]
      /\ slices'[i] = s
  <2>1. /\ Append(slices, s) \in Seq(Seq(Elem))
        /\ Len(Append(slices, s)) = Len(slices) + 1
        /\ \A k \in 1..Len(slices) : Append(slices, s)[k] = slices[k]
        /\ Append(slices, s)[Len(slices) + 1] = s
    BY <1>2, <1>3, AppendProperties
  <2>2. Len(slices) + 1 = i
    BY <1>2, <1>5
  <2> QED BY <1>2, <2>1, <2>2
<1>9. DOMAIN slices = 1..(i - 1) /\ DOMAIN slices' = 1..i
  BY <1>2, <1>3, <1>8, LenProperties
<1>10. FieldInv'
  BY <1>1, <1>2, <1>3, <1>8 DEF RepeatedFieldInv, FieldInv
<1>11. ElementsInOrder'
  <2>1. ~addFailed /\ Ids(Whole) = [k \in DOMAIN input |-> k]
    BY <1>3 DEF MoveInv, RepeatedFieldInv, ElementsInOrder, Whole, Left
  <2>2. Ids(Whole') = [k \in DOMAIN input' |-> k]
    BY <1>1, <1>2, <2>1 DEF w
  <2> QED BY <2>2 DEF ElementsInOrder, Whole, Left
<1>12. SlicesEstimated'
  <2>1. ASSUME NEW k \in 1..i, Len(slices'[k]) > 1
        PROVE  Estimate(slices'[k]) <= MaxSize
    <3>1. CASE k = i
      <4>1. slices'[k] = s /\ b - a > 1
        BY <1>6, <1>8, <2>1, <3>1
      <4> QED BY <1>2, <4>1 DEF Packed, s
    <3>2. CASE k # i
      <4>1. k \in 1..(i - 1) /\ slices'[k] = slices[k]
        BY <1>5, <1>8, <3>2
      <4> QED BY <1>9, <2>1, <4>1 DEF RepeatedFieldInv, SlicesEstimated
    <3> QED BY <3>1, <3>2
  <2> QED BY <1>9, <2>1 DEF SlicesEstimated
<1>13. OnlyFirstEmpty'
  <2>1. ASSUME NEW k \in 1..i, slices'[k] = <<>>
        PROVE  k = 1
    <3>1. CASE k = i
      <4>1. s = <<>> /\ Len(s) = 0
        BY <1>8, <2>1, <3>1
      <4>2. ~(a < b)
        BY <1>5, <1>6, <4>1
      <4> QED BY <1>2, <1>5, <3>1, <4>2
    <3>2. CASE k # i
      <4>1. k \in 1..(i - 1) /\ slices'[k] = slices[k]
        BY <1>5, <1>8, <3>2
      <4> QED BY <1>9, <2>1, <4>1 DEF RepeatedFieldInv, OnlyFirstEmpty
    <3> QED BY <3>1, <3>2
  <2> QED BY <1>9, <2>1 DEF OnlyFirstEmpty
<1>14. Greedy'
  <2>1. ASSUME NoneWrapped, NEW k \in 1..(i - 1), slices'[k] # <<>>, slices'[k + 1] # <<>>
        PROVE  Estimate(Append(slices'[k], Head(slices'[k + 1]))) > MaxSize
    <3>1. slices'[k] = slices[k] /\ slices[k] = Slice(w, split[k], split[k + 1])
      BY <1>4, <1>8
    <3>2. CASE k = i - 1
      <4> DEFINE p == split[k]
      <4>1. k + 1 = i /\ split[k + 1] = a /\ i \in 2..Len(split) /\ k = i - 1
            /\ k \in 1..Len(split)
        BY <1>2, <1>3, <1>5, <3>2 DEF a
      <4>2. p \in 0..len /\ p <= a /\ Packed(w, p, a)
        <5>1. SplitInv(w)
          BY <1>3 DEF MoveInv, w
        <5>2. split \in Seq(0..len)
          BY <5>1 DEF SplitInv, len
        <5>3. p \in 0..len
          BY <4>1, <5>2, ElementOfSeq
        <5>4. split[i - 1] <= split[i] /\ Packed(w, split[i - 1], split[i])
          BY <4>1, <5>1 DEF SplitInv
        <5> QED BY <4>1, <5>3, <5>4 DEF a
      <4>3. slices'[k] = Slice(w, p, a) /\ slices'[k + 1] = s
        BY <1>8, <3>1, <4>1
      <4> HIDE DEF p
      <4>4. a < b
        <5>1. Len(s) # 0
          BY <1>2, <2>1, <4>3, EmptySeq
        <5> QED BY <1>2, <1>5, <1>6, <5>1
      <4>5. p < a
        <5>1. p # a
          BY <1>2, <2>1, <4>2, <4>3, SliceEnds DEF len
        <5> QED BY <1>5, <4>2, <5>1
      <4>6. a < len /\ a \in 0..(len - 1) /\ p \in Nat
        BY <1>2, <1>3, <1>5, <4>2, <4>4
      <4>7. Head(s) = w[a + 1]
        <5>1. 1 \in 1..(b - a)
          BY <1>5, <4>4
        <5>2. s[1] = w[a + 1] /\ s # <<>>
          BY <1>6, <2>1, <4>3, <5>1
        <5> QED BY <1>2, <5>2, HeadTailProperties
      <4>8. Append(Slice(w, p, a), w[a + 1]) = Slice(w, p, a + 1)
        BY <1>2, <4>2, <4>6, SliceExtended DEF len
      <4>9. Estimate(Slice(w, p, a + 1)) > MaxSize
        BY <2>1, <4>2, <4>5, <4>6 DEF Packed, len
      <4> QED BY <4>3, <4>7, <4>8, <4>9
    <3>3. CASE k # i - 1
      <4>1. k \in 1..(Len(slices) - 1) /\ k + 1 \in 1..(i - 1)
        BY <1>2, <1>5, <3>3
      <4>2. slices'[k + 1] = slices[k + 1]
        <5> DEFINE j == k + 1
        <5>1. j \in 1..(i - 1)
          BY <4>1
        <5> HIDE DEF j
        <5>2. slices'[j] = slices[j]
          BY <1>8, <5>1
        <5> QED BY <5>2 DEF j
      <4>3. Greedy
        BY DEF RepeatedFieldInv
      <4> QED BY <2>1, <3>1, <4>1, <4>2, <4>3 DEF Greedy
    <3> QED BY <3>2, <3>3
  <2>2. Len(slices') - 1 = i - 1
    BY <1>8
  <2> QED BY <1>7, <2>1, <2>2 DEF Greedy
<1>15. MoveInv'
  <2>1. SplitInv(Whole)'
    <3>1. SplitInv(w)
      BY <1>3 DEF MoveInv, w
    <3>2. Whole' = w
      BY <1>2 DEF w
    <3> QED BY <1>1, <1>7, <3>1, <3>2 DEF SplitInv, Packed
  <2>2. ~addFailed' /\ i' \in 1..Len(split') /\ Len(split') <= Len(input') + 2
        /\ Last(split') = Len(Whole') /\ Len(slices') = i' - 1
    <3>1. ~addFailed /\ Len(split) <= Len(input) + 2 /\ Last(split) = Len(w)
      BY <1>3 DEF MoveInv, w
    <3>2. i + 1 \in 1..Len(split) /\ i = i + 1 - 1
      BY <1>2, <1>3, <1>5
    <3> QED BY <1>1, <1>2, <1>8, <3>1, <3>2 DEF w
  <2>3. extracted' = Slice(Whole', split'[i'], Len(Whole'))
    BY <1>1, <1>2 DEF w, b, len
  <2>4. ASSUME NEW k \in 1..(i' - 1)
        PROVE  slices'[k] = Slice(Whole', split'[k], split'[k + 1])
    <3>1. k \in 1..i
      BY <1>1, <1>5
    <3>2. slices'[k] = Slice(w, split[k], split[k + 1])
      <4>1. CASE k = i
        BY <1>8, <4>1 DEF s, a, b
      <4>2. CASE k # i
        <5>1. k \in 1..(i - 1)
          BY <1>5, <3>1, <4>2
        <5> QED BY <1>4, <1>8, <5>1
      <4> QED BY <4>1, <4>2
    <3> QED BY <1>1, <1>2, <3>2 DEF w
  <2> QED BY <2>1, <2>2, <2>3, <2>4 DEF MoveInv
<1>16. TypeOK'
  <2>1. slices' \in Seq(Seq(Element))
    <3>1. Seq(Elem) \subseteq Seq(Element)
      BY ElemIsElement
    <3> QED BY <1>8, <3>1
  <2>2. i' \in 0..(Len(input) + 2)
    <3>1. Len(split) <= Len(input) + 2 /\ Len(input) \in Nat
      BY <1>3, LenProperties DEF MoveInv, RepeatedFieldInv, FieldInv
    <3> QED BY <1>1, <1>2, <1>3, <1>5, <3>1
  <2>3. extracted' \in Seq(Element)
    BY <1>2, ElemIsElement
  <2> QED BY <1>1, <2>1, <2>2, <2>3 DEF RepeatedFieldInv, TypeOK
<1> QED BY <1>1, <1>2, <1>10, <1>11, <1>12, <1>13, <1>14, <1>15, <1>16
        DEF RepeatedFieldInv, AllOrNothing, Scanning, Moving

------------------------------------------------------------------------------
(* The beginning, also of an attempt after an error *)

Starting == /\ i = 0 /\ node = None /\ factory = 1 /\ split = <<0>> /\ total = 0
            /\ field \in Seq(Elem)

\* Before the first element is looked at there is one, empty, slice.
LEMMA ScanStarts == Starting => ScanInv
<1> SUFFICES ASSUME Starting PROVE ScanInv
  OBVIOUS
<1>1. /\ i = 0 /\ node = None /\ factory = 1 /\ split = <<0>> /\ total = 0
      /\ field \in Seq(Elem)
  BY DEF Starting
<1> DEFINE n == Len(field)
<1>2. n \in Nat /\ 0 \in 0..n
  BY <1>1, LenProperties
<1>3. split \in Seq(0..n) /\ Len(split) = 1 /\ DOMAIN split = 1..1 /\ split[1] = 0
  <2> HIDE DEF n
  <2> QED BY <1>1, <1>2
<1>4. Last(split) = 0
  BY <1>3 DEF Last
<1>5. ExtraBytes \in Nat /\ MaxSize \in Nat /\ Factories \in Nat
  BY RepeatedFieldAssumption, PowersOfTwo
<1>6. SplitInv(field)
  <2>1. 2..Len(split) = {} /\ split # <<>>
    BY <1>1, <1>3
  <2> QED BY <1>3, <2>1 DEF SplitInv
<1>7. OpenInv
  <2>1. Slice(field, 0, 0) = <<>> /\ BytesOf(<<>>) = 0
    BY <1>1, <1>2, SliceEnds, BytesAppend
  <2> QED BY <1>1, <1>4, <2>1 DEF OpenInv
<1>8. NodeInv
  BY <1>1 DEF NodeInv
<1>9. TotalInv
  BY <1>1, <1>5 DEF TotalInv
<1>10. \A k \in DOMAIN split : split[k] <= i /\ (k > 1 => split[k] < i)
  BY <1>1, <1>3
<1>11. i \in 0..Len(field) /\ factory \in 1..(Factories + 1) /\ Len(split) <= i + 1
  BY <1>1, <1>2, <1>3, <1>5
<1> QED BY <1>6, <1>7, <1>8, <1>9, <1>10, <1>11 DEF ScanInv

\* At the beginning all elements are in the field, in their order.
LEMMA InitInv == Init => RepeatedFieldInv
<1> SUFFICES ASSUME Init PROVE RepeatedFieldInv
  OBVIOUS
<1> DEFINE n == Len(input)
<1>1. /\ input \in Inputs
      /\ field = [k \in DOMAIN input |-> [id |-> k, size |-> input[k]]]
      /\ i = 0 /\ node = None /\ factory = 1 /\ split = <<0>> /\ total = 0
      /\ extracted = None /\ slices = <<>> /\ pieces = <<>>
      /\ status = "running" /\ tries = 1 /\ addFailed = FALSE
  BY DEF Init
<1>2. input \in Seq(ElementSize) /\ n \in Nat /\ DOMAIN input = 1..n
  BY <1>1, LenProperties, RepeatedFieldAssumption
<1>3. ElementSize \subseteq Nat
  BY PowersOfTwo DEF ElementSize
<1>4. \A k \in 1..n : input[k] \in ElementSize
  BY <1>2, ElementOfSeq
<1> HIDE DEF n
<1>5. /\ field \in Seq(Elem) /\ Len(field) = n /\ DOMAIN field = 1..n
      /\ \A k \in 1..n : field[k].id = k
  <2>1. \A k \in 1..n : field[k] = [id |-> k, size |-> input[k]]
    BY <1>1, <1>2
  <2>2. ASSUME NEW k \in 1..n
        PROVE  field[k] \in Elem /\ field[k].id = k
    <3>1. k \in Nat /\ input[k] \in ElementSize
      BY <1>2, <1>4
    <3>2. field[k] = [id |-> k, size |-> input[k]]
      BY <2>1
    <3> QED BY <3>1, <3>2 DEF Elem
  <2>3. DOMAIN field = 1..n /\ field = [k \in 1..n |-> field[k]]
    BY <1>1, <1>2
  <2>4. field \in Seq(Elem)
    BY <1>2, <2>2, <2>3, IsASeq
  <2>5. Len(field) = n
    BY <1>2, <2>3, <2>4, LenProperties
  <2> QED BY <2>2, <2>3, <2>4, <2>5
<1>6. ScanInv
  BY <1>1, <1>5, ScanStarts DEF Starting
<1>7. input \in Seq(Nat)
  <2>1. \A e \in ElementSize : e \in Nat
    BY <1>3
  <2>2. \A s : s \in Seq(ElementSize) => s \in Seq(Nat)
    BY <2>1
  <2> QED BY <1>2, <2>2
<1>8. TypeOK
  <2>1. field \in Seq(Element)
    BY <1>5, ElemIsElement
  <2>2. /\ 0 \in 0..(n + 2) /\ 1 \in 1..(Factories + 1) /\ 0 \in 0..(2^(2 * IntBits) - 1)
        /\ 1 \in 1..MaxTries
    BY <1>2, RepeatedFieldAssumption, PowersOfTwo
  <2>3. <<0>> \in Seq(0..n)
    BY <1>2
  <2>4. <<>> \in Seq(Seq(Element)) /\ <<>> \in Seq(Nat \X Nat)
    BY EmptySeq
  <2> QED BY <1>1, <2>1, <2>2, <2>3, <2>4 DEF TypeOK, n
<1>9. FieldInv
  <2>1. <<>> \in Seq(Seq(Elem)) /\ n <= n
    BY <1>2, EmptySeq
  <2> QED BY <1>1, <1>5, <1>7, <2>1 DEF FieldInv, n
<1>10. ElementsInOrder
  <2>1. FlattenSeq(slices) \o <<>> \o field = field
    BY <1>1, <1>5, EmptySeq, ConcatEmptySeq DEF FlattenSeq
  <2>2. Ids(field) = [k \in 1..n |-> k]
    BY <1>5 DEF Ids
  <2> QED BY <1>1, <1>2, <2>1, <2>2 DEF ElementsInOrder
<1>11. SlicesEstimated /\ OnlyFirstEmpty /\ Greedy
  <2>1. DOMAIN slices = {} /\ Len(slices) = 0
    BY <1>1
  <2> QED BY <2>1 DEF SlicesEstimated, OnlyFirstEmpty, Greedy
<1> QED BY <1>1, <1>6, <1>8, <1>9, <1>10, <1>11
        DEF RepeatedFieldInv, AllOrNothing, Scanning, Moving

\* After an error the builder starts again on the elements that are in the field.
LEMMA RetryInv ==
    ASSUME RepeatedFieldInv, Retry
    PROVE  RepeatedFieldInv'
<1>1. /\ status = "Error" /\ tries < MaxTries /\ status' = "running" /\ tries' = tries + 1
      /\ extracted' = None
      /\ i' = 0 /\ node' = None /\ factory' = 1 /\ split' = <<0>> /\ total' = 0
      /\ UNCHANGED <<input, field, slices, pieces, addFailed>>
  BY DEF Retry, StartScan
<1>2. extracted = None \/ addFailed
  BY <1>1 DEF RepeatedFieldInv
<1>3. FieldInv'
  BY <1>1 DEF RepeatedFieldInv, FieldInv
<1>4. ElementsInOrder'
  BY <1>1, <1>2 DEF RepeatedFieldInv, ElementsInOrder
<1>5. SlicesEstimated' /\ OnlyFirstEmpty'
  BY <1>1 DEF RepeatedFieldInv, SlicesEstimated, OnlyFirstEmpty
<1>6. Greedy'
  BY <1>1 DEF RepeatedFieldInv, Greedy, NoneWrapped
<1>7. ScanInv'
  <2>1. Starting'
    BY <1>1 DEF Starting, RepeatedFieldInv, FieldInv
  <2>2. Starting' => ScanInv'
    BY ScanStarts, PTL
  <2> QED BY <2>1, <2>2
<1>8. TypeOK'
  <2>1. Len(input) \in Nat
    BY LenProperties DEF RepeatedFieldInv, FieldInv
  <2> DEFINE n == Len(input)
  <2> HIDE DEF n
  <2>2. n \in Nat
    BY <2>1 DEF n
  <2>3. <<0>> \in Seq(0..n) /\ 0 \in 0..(n + 2)
    BY <2>2
  <2>4. /\ 1 \in 1..(Factories + 1) /\ 0 \in 0..(2^(2 * IntBits) - 1)
        /\ tries' \in 1..MaxTries
    BY <1>1, RepeatedFieldAssumption, PowersOfTwo DEF RepeatedFieldInv, TypeOK
  <2> QED BY <1>1, <2>3, <2>4 DEF RepeatedFieldInv, TypeOK, n
<1> QED BY <1>1, <1>3, <1>4, <1>5, <1>6, <1>7, <1>8
        DEF RepeatedFieldInv, AllOrNothing, Scanning, Moving

------------------------------------------------------------------------------
(* The theorems *)

\* Every step keeps the invariant.
LEMMA StepInv == RepeatedFieldInv /\ [Next]_vars => RepeatedFieldInv'
<1> SUFFICES ASSUME RepeatedFieldInv, [Next]_vars
             PROVE  RepeatedFieldInv'
  OBVIOUS
<1>1. CASE VisitNode
  BY <1>1, VisitNodeInv
<1>2. CASE CreateSplitterDeclines
  BY <1>2, CreateSplitterDeclinesInv
<1>3. CASE NestedFails
  BY <1>3, NestedFailsInv
<1>4. ASSUME NEW bytes \in 0..(IF AskingFactory THEN field[i + 1].size ELSE 0),
             NestedSplits(bytes)
      PROVE  RepeatedFieldInv'
  <2>1. bytes \in Nat
    OBVIOUS
  <2> QED BY <1>4, <2>1, NestedSplitsInv
<1>5. CASE CloseNode
  BY <1>5, CloseNodeInv
<1>6. CASE NoSlices
  BY <1>6, NoSlicesInv
<1>7. CASE ExtractSubrange
  BY <1>7, ExtractSubrangeInv
<1>8. CASE AddSlice
  BY <1>8, AddSliceInv
<1>9. CASE AddSliceFails
  BY <1>9, AddSliceFailsInv
<1>10. CASE AllMoved
  BY <1>10, AllMovedInv
<1>11. CASE Retry
  BY <1>11, RetryInv
<1>12. CASE UNCHANGED vars
  <2>1. UNCHANGED <<input, field, i, node, factory, split, total, extracted, slices,
                    pieces, status, tries, addFailed>>
    BY <1>12 DEF vars, scan
  <2>2. DataInv'
    BY <2>1, ElementsStay DEF RepeatedFieldInv, DataInv
  <2>3. Scanning' => ScanInv'
    BY <2>1, SplitsStay DEF RepeatedFieldInv, Scanning, ScanInv, NodeInv, NoneWrapped
  <2>4. Moving' => MoveInv'
    <3>1. SplitInv(Whole) => SplitInv(Whole)'
      BY <2>1 DEF SplitInv, Packed, NoneWrapped, Whole, Left
    <3>2. Whole' = Whole
      BY <2>1 DEF Whole, Left
    <3> QED BY <2>1, <3>1, <3>2 DEF RepeatedFieldInv, Moving, MoveInv
  <2>5. TypeOK' /\ AllOrNothing'
    BY <2>1 DEF RepeatedFieldInv, TypeOK, AllOrNothing
  <2> QED BY <2>1, <2>2, <2>3, <2>4, <2>5 DEF RepeatedFieldInv, DataInv
<1> QED BY <1>1, <1>2, <1>3, <1>4, <1>5, <1>6, <1>7, <1>8, <1>9, <1>10, <1>11, <1>12
        DEF Next

\* The inductive invariant of BuildChunksReturnSize, retried as often as it is.
THEOREM Invariance == Spec => []RepeatedFieldInv
BY InitInv, StepInv, PTL DEF Spec

\* Every variable of the builder keeps its type; node_size and total_size do not
\* overflow on the way there.
THEOREM Typing == Spec => []TypeOK
<1>1. RepeatedFieldInv => TypeOK
  BY DEF RepeatedFieldInv
<1> QED BY <1>1, Invariance, PTL

\* Unless AddChunk failed for a slice, no element is lost, doubled or put in another
\* order, also across failed builds that are tried again.
THEOREM NoElementLost == Spec => []ElementsInOrder
<1>1. RepeatedFieldInv => ElementsInOrder
  BY DEF RepeatedFieldInv
<1> QED BY <1>1, Invariance, PTL

\* A build that succeeds leaves all elements in the message, or none.
THEOREM AllMovedOrNone == Spec => []AllOrNothing
<1>1. RepeatedFieldInv => AllOrNothing
  BY DEF RepeatedFieldInv
<1> QED BY <1>1, Invariance, PTL

\* The bytes of a slice of more than one element are within GetMaxSize() but for the
\* encoding of its last element, whatever the nested splitters return, where kExtraBytes
\* is enough for the others.
THEOREM SlicesWithinLimit == Spec => []SlicesFit
<1>1. RepeatedFieldInv => SlicesFit
  <2> SUFFICES ASSUME RepeatedFieldInv, NEW k \in DOMAIN slices, Len(slices[k]) > 1,
                      \A n \in 1..(Len(slices[k]) - 1) : Covered(slices[k][n])
               PROVE  EncodedBytes(slices[k])
                        <= MaxSize + EncodingBytes[Last(slices[k]).size]
    BY DEF SlicesFit
  <2>1. slices \in Seq(Seq(Elem)) /\ Estimate(slices[k]) <= MaxSize
    BY DEF RepeatedFieldInv, FieldInv, SlicesEstimated
  <2>2. slices[k] \in Seq(Elem)
    BY <2>1, ElementOfSeq, LenProperties
  <2>3. MaxSize \in Nat
    BY RepeatedFieldAssumption
  <2>4. /\ EncodingBytes[Last(slices[k]).size] \in Nat
        /\ EncodedBytes(slices[k]) \in Nat /\ Estimate(slices[k]) \in Nat
        /\ EncodedBytes(slices[k])
              <= Estimate(slices[k]) + EncodingBytes[Last(slices[k]).size]
    BY <2>2, EncodedWithinEstimate
  <2> QED BY <2>1, <2>3, <2>4
<1> QED BY <1>1, Invariance, PTL

\* No slice but the first is empty.
THEOREM LaterSlicesNotEmpty == Spec => []OnlyFirstEmpty
<1>1. RepeatedFieldInv => OnlyFirstEmpty
  BY DEF RepeatedFieldInv
<1> QED BY <1>1, Invariance, PTL

\* While no return value wrapped, a slice that is followed by another had no room for
\* the first element of that one.
THEOREM SlicesAreGreedy == Spec => []Greedy
<1>1. RepeatedFieldInv => Greedy
  BY DEF RepeatedFieldInv
<1> QED BY <1>1, Invariance, PTL

===============================================================================
