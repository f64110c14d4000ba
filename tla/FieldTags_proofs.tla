--------------------------- MODULE FieldTags_proofs ---------------------------
(***************************************************************************)
(* Proofs about FieldTags, for any message type, paths of any length, and  *)
(* any widths of int and of int64: the merge gets to the place that a      *)
(* caller gave, the two languages write the same tags, and what can be     *)
(* found can be tagged.                                                    *)
(***************************************************************************)
EXTENDS FieldTags, SequenceLemmas

------------------------------------------------------------------------------
(* Words and ints *)

H == 2^(IntBits - 1)    \* an int is less
W == 2^IntBits          \* a uint32 is less
L == 2^LongBits         \* a uint64 is less

\* Quotient and remainder.
LEMMA DivMod ==
    ASSUME NEW w \in Nat \ {0}, NEW y \in Int
    PROVE  /\ y % w \in 0..(w - 1) /\ y \div w \in Int
           /\ y = (y \div w) * w + (y % w)
OBVIOUS

\* Any number of whole words more or less does not matter.
LEMMA ModTimes ==
    ASSUME NEW w \in Nat \ {0}, NEW a \in 0..(w - 1), NEW c \in Int, NEW y \in Int, y = a + c * w
    PROVE  y % w = a
<1> DEFINE r == y % w
           q == y \div w
           d == q - c
<1>1. r \in 0..(w - 1) /\ q \in Int /\ y = q * w + r /\ d \in Int
  BY DivMod
<1>2. d * w = a - r
  <2>1. q = d + c
    BY <1>1
  <2> HIDE DEF d, q, r
  <2>2. (d + c) * w = d * w + c * w
    BY <1>1
  <2>3. d * w \in Int /\ c * w \in Int
    BY <1>1
  <2>4. y = d * w + c * w + r
    BY <1>1, <2>1, <2>2
  <2> QED BY <1>1, <2>3, <2>4
<1> HIDE DEF d, q
<1>3. CASE d >= 1
  <2>1. (d - 1) * w \in Nat /\ d * w = (d - 1) * w + w
    BY <1>1, <1>3
  <2> QED BY <1>1, <1>2, <2>1
<1>4. CASE d <= -1
  <2>1. (-1 - d) * w \in Nat /\ d * w = -((-1 - d) * w) - w
    BY <1>1, <1>4
  <2> QED BY <1>1, <1>2, <2>1
<1>5. CASE d = 0
  BY <1>1, <1>2, <1>5
<1> QED BY <1>1, <1>3, <1>4, <1>5

\* The widths, as far as the proofs need them.
LEMMA Widths ==
    /\ H \in Nat /\ W \in Nat \ {0} /\ L \in Nat \ {0} /\ H > 1 /\ W = 2 * H
    /\ Int32 = (-H)..(H - 1)
    /\ \E c \in Nat : L = c * W
    /\ L = 2 * 2^(LongBits - 1) /\ 2^(LongBits - 1) \in Nat /\ W <= 2^(LongBits - 1)
BY PowersOfTwo DEF H, W, L, Int32

\* A value is kept by a word that is wide enough, in the range from -h.
LEMMA SignedKeeps ==
    ASSUME NEW h \in Nat \ {0}, NEW n \in (-h)..(h - 1)
    PROVE  ((n + h) % (2 * h)) - h = n
<1> DEFINE x == n + h
           w == 2 * h
<1>1. x \in 0..(w - 1) /\ w \in Nat \ {0}
  OBVIOUS
<1> HIDE DEF x, w
<1>2. x % w = x
  BY <1>1
<1> QED BY <1>2 DEF x, w

\* An int survives a wider unsigned word.
LEMMA UnsignedKeeps ==
    ASSUME NEW h \in Nat \ {0}, NEW n \in (-h)..(h - 1), NEW l \in Nat, NEW c \in Nat \ {0},
           l = c * (2 * h)
    PROVE  (((n % l) + h) % (2 * h)) - h = n
<1> DEFINE w == 2 * h
<1>1. w \in Nat \ {0} /\ l = c * w /\ l >= w /\ l # 0
  <2>1. w \in Nat \ {0} /\ l = c * w /\ c >= 1
    OBVIOUS
  <2> HIDE DEF w
  <2>2. (c - 1) * w \in Nat /\ c * w = (c - 1) * w + w
    BY <2>1
  <2> QED BY <2>1, <2>2
<1>2. CASE n >= 0
  <2>1. n % l = n
    BY <1>1, <1>2
  <2> QED BY <2>1, SignedKeeps
<1>3. CASE n < 0
  <2>1. n % l = n + l
    <3>1. n + l \in 0..(l - 1)
      BY <1>1, <1>3
    <3>2. (n + l) % l = n + l /\ (n + l) % l = n % l
      BY <1>1, <3>1
    <3> QED BY <3>2
  <2>2. (n + h) \in 0..(w - 1)
    BY <1>3
  <2>3. n + l + h = (n + h) + c * w
    BY <1>1
  <2> DEFINE a == n + h
  <2> HIDE DEF w, a
  <2>4. a \in 0..(w - 1) /\ n + l + h = a + c * w /\ n + l + h \in Int
    BY <1>1, <2>2, <2>3 DEF a
  <2> DEFINE y == n + l + h
  <2>5. y \in Int /\ y = a + c * w /\ a \in 0..(w - 1) /\ c \in Int /\ w \in Nat \ {0}
    BY <1>1, <2>4
  <2> HIDE DEF y
  <2>6. y % w = a
    BY <2>5, ModTimes
  <2>7. ((n + l + h) % w) - h = n
    BY <2>6 DEF a, y
  <2> QED BY <2>1, <2>7 DEF w
<1> QED BY <1>2, <1>3

\* Ints keep their value in every type of key and as an index, and so do the values of a
\* uint32.
LEMMA Casts ==
    /\ 0 \in Int32 /\ 1 \in Int32 /\ Int32 \subseteq Int
    /\ \A n \in Int32 : /\ Signed(n, IntBits) = n /\ Signed(n, LongBits) = n
                        /\ Signed(Unsigned(n, IntBits), IntBits) = n
                        /\ Signed(Unsigned(n, LongBits), IntBits) = n
    /\ \A n \in Int : /\ Unsigned(n, LongBits) \in 0..(2^LongBits - 1)
                      /\ Unsigned(n, IntBits) \in Int /\ Unsigned(n, LongBits) \in Int
                      /\ Signed(n, IntBits) \in Int /\ Signed(n, LongBits) \in Int
                      /\ Unsigned(n, IntBits) = n =>
                            Unsigned(Signed(n, IntBits), IntBits) = n
<1> DEFINE h == H
           w == W
           l == L
           g == 2^(LongBits - 1)
<1>1. /\ h \in Nat /\ w \in Nat \ {0} /\ l \in Nat \ {0} /\ h > 1 /\ w = 2 * h
      /\ Int32 = (-h)..(h - 1)
      /\ g \in Nat \ {0} /\ l = 2 * g /\ w <= g
  BY Widths
<1>2. PICK c \in Nat \ {0} : l = c * w
  BY Widths
<1>3. \A n : /\ Signed(n, IntBits) = ((n + h) % w) - h
             /\ Signed(n, LongBits) = ((n + g) % l) - g
             /\ Unsigned(n, IntBits) = n % w /\ Unsigned(n, LongBits) = n % l
  BY DEF Signed, Unsigned, H, W, L
<1>4. 2^LongBits = l
  BY DEF L
<1> HIDE DEF h, w, l, g
<1>5. 0 \in Int32 /\ 1 \in Int32 /\ Int32 \subseteq Int
  BY <1>1
<1>6. ASSUME NEW n \in Int32
      PROVE  /\ Signed(n, IntBits) = n /\ Signed(n, LongBits) = n
             /\ Signed(Unsigned(n, IntBits), IntBits) = n
             /\ Signed(Unsigned(n, LongBits), IntBits) = n
  <2>1. n \in (-h)..(h - 1) /\ h \in Nat \ {0} /\ n \in (-g)..(g - 1)
    BY <1>1
  <2>2. ((n + h) % w) - h = n /\ ((n + g) % l) - g = n
    BY <1>1, <2>1, SignedKeeps
  <2>3. (((n % w) + h) % w) - h = n
    <3>1. w = 1 * (2 * h)
      BY <1>1
    <3>2. (((n % w) + h) % (2 * h)) - h = n
      BY <1>1, <2>1, <3>1, UnsignedKeeps
    <3> QED BY <1>1, <3>2
  <2>4. (((n % l) + h) % w) - h = n
    BY <1>1, <1>2, <2>1, UnsignedKeeps
  <2> QED BY <1>3, <2>2, <2>3, <2>4
<1>7. ASSUME NEW n \in Int
      PROVE  /\ Unsigned(n, LongBits) \in 0..(l - 1)
             /\ Unsigned(n, IntBits) \in Int /\ Unsigned(n, LongBits) \in Int
             /\ Signed(n, IntBits) \in Int /\ Signed(n, LongBits) \in Int
             /\ Unsigned(n, IntBits) = n => Unsigned(Signed(n, IntBits), IntBits) = n
  <2>1. n % l \in 0..(l - 1) /\ n % w \in 0..(w - 1)
    BY <1>1
  <2>2. /\ n + h \in Int /\ n + g \in Int /\ (n + h) % w \in Int /\ (n + g) % l \in Int
    BY <1>1
  <2>3. ASSUME n % w = n
        PROVE  (((n + h) % w) - h) % w = n
    <3>1. n \in 0..(w - 1)
      BY <2>1, <2>3
    <3>2. CASE n < h
      <4>1. (n + h) % w = n + h
        BY <1>1, <3>1, <3>2
      <4> QED BY <1>1, <2>3, <4>1
    <3>3. CASE n >= h
      <4>1. n + h = (n - h) + w /\ n - h \in 0..(w - 1)
        BY <1>1, <3>1, <3>3
      <4>2. (n + h) % w = n - h
        <5> DEFINE a == n - h
        <5>1. a \in 0..(w - 1) /\ n + h = a + w
          BY <4>1
        <5> HIDE DEF a
        <5>2. (a + w) % w = a
          BY <1>1, <5>1
        <5> QED BY <5>1, <5>2 DEF a
      <4>3. (n - h) - h = n - w
        BY <1>1
      <4>4. (n - w) % w = n
        <5> DEFINE y == n - w
        <5>1. y \in Int /\ y = n + (-1) * w /\ n \in 0..(w - 1) /\ w \in Nat \ {0}
          BY <1>1, <3>1
        <5> HIDE DEF y
        <5>2. y % w = n
          BY <5>1, ModTimes
        <5> QED BY <5>2 DEF y
      <4> QED BY <4>2, <4>3, <4>4
    <3> QED BY <1>1, <3>2, <3>3
  <2>4. /\ Unsigned(n, LongBits) \in 0..(l - 1)
        /\ Unsigned(n, IntBits) \in Int /\ Unsigned(n, LongBits) \in Int
    <3>1. n % l \in Int /\ n % w \in Int
      BY <1>1, <2>1
    <3>2. Unsigned(n, LongBits) = n % l /\ Unsigned(n, IntBits) = n % w
      BY <1>3, Zenon
    <3> QED BY <2>1, <3>1, <3>2, Zenon
  <2>5. Signed(n, IntBits) \in Int /\ Signed(n, LongBits) \in Int
    BY <1>1, <1>3, <2>2
  <2>6. Unsigned(n, IntBits) = n => Unsigned(Signed(n, IntBits), IntBits) = n
    BY <1>3, <2>3, Zenon
  <2> QED BY <2>4, <2>5, <2>6
<1> QED BY <1>4, <1>5, <1>6, <1>7

\* A cast to uint64 and back to int is the cast to int.
LEMMA IndexCast ==
    ASSUME NEW n \in Int
    PROVE  ToInt(WireIndex(n)) = ToInt(n)
<1> DEFINE h == H
           w == W
           l == L
<1>1. h \in Nat /\ w \in Nat \ {0} /\ l \in Nat \ {0}
  BY Widths
<1>2. PICK c \in Nat : l = c * w
  BY Widths
<1>3. /\ ToInt(n) = ((n + h) % w) - h
      /\ ToInt(WireIndex(n)) = (((n % l) + h) % w) - h
  BY DEF ToInt, WireIndex, Signed, Unsigned, H, W, L
<1> HIDE DEF h, w, l
<1> DEFINE q == n \div l
           m == n % l
           x == m + h
           p == x \div w
           a == x % w
<1>4. m \in Int /\ q \in Int /\ n = q * l + m
  BY <1>1, DivMod
<1> HIDE DEF q, m
<1>5. x \in Int
  BY <1>1, <1>4
<1> HIDE DEF x
<1>6. a \in 0..(w - 1) /\ p \in Int /\ x = p * w + a
  BY <1>1, <1>5, DivMod
<1> HIDE DEF p, a
<1> DEFINE y == n + h
           d == p + q * c
<1>7. d \in Int /\ y \in Int
  BY <1>1, <1>4, <1>6
<1>8. y = a + d * w
  <2>1. y = q * l + x
    BY <1>1, <1>4 DEF x
  <2>2. q * l = (q * c) * w
    BY <1>1, <1>2, <1>4
  <2> DEFINE e == q * c
  <2>3. e \in Int /\ q * l = e * w
    BY <1>2, <1>4, <2>2
  <2>4. d = p + e
    OBVIOUS
  <2> HIDE DEF e, y, d
  <2>5. (p + e) * w = p * w + e * w /\ p * w \in Int /\ e * w \in Int
    BY <1>1, <1>6, <2>3
  <2> QED BY <1>6, <2>1, <2>3, <2>4, <2>5
<1> HIDE DEF d, y
<1>9. y % w = a
  BY <1>1, <1>6, <1>7, <1>8, ModTimes
<1>10. (n + h) % w = ((n % l) + h) % w
  BY <1>9 DEF y, a, x, m
<1> QED BY <1>3, <1>10, Zenon

------------------------------------------------------------------------------
(* The loops of WalkFields and GetFieldTypes *)

\* Round k of the walk of caller `what` along a, or of GetFieldTypes.
Round(what, a, x, k) == IF what = "tag" THEN AddFieldIndex(x, a[k]) ELSE WalkOn(what, x, a[k])

\* f is what the loop has computed after each of the first n rounds.
Loops(f, what, a, x, n) == f = [k \in 0..n |-> IF k = 0 THEN x ELSE Round(what, a, f[k - 1], k)]

\* The recursive functions in the definitions of the loops are there.
LEMMA LoopExists ==
    ASSUME NEW what, NEW a, NEW x, NEW n \in Nat
    PROVE  \E f : Loops(f, what, a, x, n)
<1> DEFINE P == {m \in Nat : \E f : Loops(f, what, a, x, m)}
<1>1. 0 \in P
  <2> DEFINE f == [k \in 0..0 |-> x]
  <2>1. f = [k \in 0..0 |-> IF k = 0 THEN x ELSE Round(what, a, f[k - 1], k)]
    OBVIOUS
  <2> HIDE DEF f
  <2>2. Loops(f, what, a, x, 0)
    BY <2>1 DEF Loops
  <2> QED BY <2>2
<1>2. ASSUME NEW m \in Nat, m \in P
      PROVE  m + 1 \in P
  <2>1. PICK f : f = [k \in 0..m |-> IF k = 0 THEN x ELSE Round(what, a, f[k - 1], k)]
    BY <1>2 DEF Loops
  <2> DEFINE last == Round(what, a, f[m], m + 1)
             g == [k \in 0..(m + 1) |-> IF k = m + 1 THEN last ELSE f[k]]
  <2>2. \A k \in 0..m : f[k] = IF k = 0 THEN x ELSE Round(what, a, f[k - 1], k)
    BY <2>1
  <2>3. ASSUME NEW k \in 0..(m + 1)
        PROVE  g[k] = IF k = 0 THEN x ELSE Round(what, a, g[k - 1], k)
    <3>1. CASE k = 0
      <4>1. k \in 0..m /\ k # m + 1
        BY <3>1
      <4>2. g[k] = f[k]
        BY <4>1
      <4> HIDE DEF g
      <4> QED BY <2>2, <3>1, <4>1, <4>2
    <3>2. CASE k # 0
      <4>1. k - 1 \in 0..m /\ k - 1 \in 0..(m + 1) /\ k - 1 # m + 1
        BY <3>2
      <4>2. g[k - 1] = f[k - 1]
        BY <4>1
      <4>3. CASE k = m + 1
        <5>1. g[k] = last /\ k - 1 = m
          BY <4>3
        <5> HIDE DEF g
        <5> QED BY <3>2, <4>2, <4>3, <5>1
      <4>4. CASE k # m + 1
        <5>1. k \in 0..m /\ g[k] = f[k]
          BY <4>4
        <5> HIDE DEF g
        <5> QED BY <2>2, <3>2, <4>2, <5>1
      <4> QED BY <4>3, <4>4
    <3> QED BY <3>1, <3>2
  <2>4. g = [k \in 0..(m + 1) |-> g[k]]
    OBVIOUS
  <2> HIDE DEF g
  <2>5. Loops(g, what, a, x, m + 1)
    BY <2>3, <2>4 DEF Loops
  <2> QED BY <2>5
<1> HIDE DEF P
<1>3. Nat \subseteq P
  BY <1>1, <1>2, SetInduction
<1> QED BY <1>3 DEF P

\* The rounds of a loop, one by one.
LEMMA LoopRounds ==
    ASSUME NEW f, NEW what, NEW a, NEW x, NEW n \in Nat, Loops(f, what, a, x, n)
    PROVE  f[0] = x /\ \A k \in 0..(n - 1) : f[k + 1] = Round(what, a, f[k], k + 1)
<1>1. \A k \in 0..n : f[k] = IF k = 0 THEN x ELSE Round(what, a, f[k - 1], k)
  BY DEF Loops
<1>2. f[0] = x
  BY <1>1
<1>3. ASSUME NEW k \in 0..(n - 1)
      PROVE  f[k + 1] = Round(what, a, f[k], k + 1)
  <2> DEFINE m == k + 1
  <2>1. m \in 0..n /\ m # 0 /\ m - 1 = k
    OBVIOUS
  <2> HIDE DEF m
  <2>2. f[m] = Round(what, a, f[k], m)
    BY <1>1, <2>1
  <2> QED BY <2>2 DEF m
<1> QED BY <1>2, <1>3

\* GetFieldTypes in rounds, one element of the tag each.
LEMMA TagLoops ==
    ASSUME NEW t, Len(t) \in Nat
    PROVE  \E f : Loops(f, "tag", t, <<>>, Len(t)) /\ GetFieldTypes(t) = f[Len(t)]
<1> DEFINE n == Len(t)
           f == CHOOSE h : h = [k \in 0..n |-> IF k = 0 THEN <<>> ELSE AddFieldIndex(h[k - 1], t[k])]
<1>1. \E h : h = [k \in 0..n |-> IF k = 0 THEN <<>> ELSE AddFieldIndex(h[k - 1], t[k])]
  <2>1. PICK h : Loops(h, "tag", t, <<>>, n)
    BY LoopExists
  <2>2. h = [k \in 0..n |-> IF k = 0 THEN <<>> ELSE AddFieldIndex(h[k - 1], t[k])]
    BY <2>1 DEF Loops, Round
  <2> QED BY <2>2
<1>2. f = [k \in 0..n |-> IF k = 0 THEN <<>> ELSE AddFieldIndex(f[k - 1], t[k])]
  BY <1>1
<1>3. GetFieldTypes(t) = f[n]
  BY DEF GetFieldTypes
<1> HIDE DEF f
<1> QED BY <1>2, <1>3 DEF Loops, Round

\* WalkFields in rounds, one element of the path each.
WalksLoop ==
    \A caller, fields : caller # "tag" /\ Len(fields) \in Nat =>
        \E f : /\ Loops(f, caller, fields, WalkStart, Len(fields))
              /\ WalkFields(caller, fields) = f[Len(fields)]

\* The function that WalkFields defines is there.
LEMMA WalkLoops == WalksLoop
<1> USE DEF WalksLoop
<1> SUFFICES ASSUME NEW caller, NEW fields, caller # "tag", Len(fields) \in Nat
             PROVE  \E f : /\ Loops(f, caller, fields, WalkStart, Len(fields))
                           /\ WalkFields(caller, fields) = f[Len(fields)]
  OBVIOUS
<1> DEFINE n == Len(fields)
           f == CHOOSE h :
                    h = [i \in 0..n |-> IF i = 0 THEN WalkStart ELSE WalkOn(caller, h[i - 1], fields[i])]
<1>1. \E h : h = [i \in 0..n |-> IF i = 0 THEN WalkStart ELSE WalkOn(caller, h[i - 1], fields[i])]
  <2>1. PICK h : Loops(h, caller, fields, WalkStart, n)
    BY LoopExists
  <2>2. h = [i \in 0..n |-> IF i = 0 THEN WalkStart ELSE WalkOn(caller, h[i - 1], fields[i])]
    BY <2>1 DEF Loops, Round
  <2> QED BY <2>2
<1>2. f = [i \in 0..n |-> IF i = 0 THEN WalkStart ELSE WalkOn(caller, f[i - 1], fields[i])]
  BY <1>1
<1>3. WalkFields(caller, fields) = f[n]
  BY DEF WalkFields
<1> HIDE DEF f
<1> QED BY <1>2, <1>3 DEF Loops, Round

\* What is added to a tag adds to its fields.
LEMMA TagAppend ==
    ASSUME NEW S, NEW t \in Seq(S), NEW e \in S
    PROVE  GetFieldTypes(Append(t, e)) = AddFieldIndex(GetFieldTypes(t), e)
<1> DEFINE n == Len(t)
           u == Append(t, e)
           m == n + 1
<1>1. /\ n \in Nat /\ m \in Nat /\ Len(u) = m /\ u[m] = e
      /\ \A i \in 1..n : u[i] = t[i]
  BY LenProperties, AppendProperties
<1> HIDE DEF u
<1>2. PICK f : Loops(f, "tag", t, <<>>, n) /\ GetFieldTypes(t) = f[n]
  BY <1>1, TagLoops
<1>3. PICK g : Loops(g, "tag", u, <<>>, m) /\ GetFieldTypes(u) = g[m]
  BY <1>1, TagLoops
<1>4. f[0] = <<>> /\ \A k \in 0..(n - 1) : f[k + 1] = AddFieldIndex(f[k], t[k + 1])
  BY <1>1, <1>2, LoopRounds DEF Round
<1>5. g[0] = <<>> /\ \A k \in 0..(m - 1) : g[k + 1] = AddFieldIndex(g[k], u[k + 1])
  BY <1>1, <1>3, LoopRounds DEF Round
<1> DEFINE P == {k \in Nat : k <= n => g[k] = f[k]}
<1>6. 0 \in P
  BY <1>4, <1>5
<1>7. ASSUME NEW k \in Nat, k \in P
      PROVE  k + 1 \in P
  <2> SUFFICES ASSUME k + 1 <= n
               PROVE  g[k + 1] = f[k + 1]
    OBVIOUS
  <2>1. /\ g[k] = f[k] /\ k \in 0..(n - 1) /\ k \in 0..(m - 1)
        /\ k + 1 \in 1..n
    BY <1>1, <1>7
  <2>2. u[k + 1] = t[k + 1]
    BY <1>1, <2>1
  <2>3. f[k + 1] = AddFieldIndex(f[k], t[k + 1]) /\ g[k + 1] = AddFieldIndex(g[k], u[k + 1])
    BY <1>4, <1>5, <2>1
  <2> QED BY <2>1, <2>2, <2>3
<1> HIDE DEF P
<1>8. Nat \subseteq P
  BY <1>6, <1>7, SetInduction
<1>9. g[n] = f[n]
  BY <1>1, <1>8 DEF P
<1>10. g[m] = AddFieldIndex(g[n], u[m])
  <2>1. n \in 0..(m - 1) /\ n + 1 = m
    BY <1>1
  <2> QED BY <1>5, <2>1
<1> QED BY <1>1, <1>2, <1>3, <1>9, <1>10 DEF u

\* A tag without elements is for no field.
LEMMA EmptyTag == GetFieldTypes(<<>>) = <<>>
<1>1. Len(<<>>) = 0
  OBVIOUS
<1>2. PICK f : Loops(f, "tag", <<>>, <<>>, 0) /\ GetFieldTypes(<<>>) = f[0]
  BY <1>1, TagLoops
<1> QED BY <1>2, LoopRounds

\* A round of a walk depends on nothing that changes.
LEMMA RoundUnchanged ==
    ASSUME NEW caller, NEW w, NEW x, UNCHANGED inputs
    PROVE  WalkOn(caller, w, x)' = WalkOn(caller, w, x)
<1>1. keyType' = keyType /\ message' = message
  BY DEF inputs
<1>2. \A n : Converted(n)' = Converted(n)
  BY <1>1 DEF Converted
<1>3. \A y : KeyOf(y)' = KeyOf(y)
  BY <1>1, <1>2, Zenon DEF KeyOf
<1>4. \A y : MapKey(y)' = MapKey(y) /\ MapKeyProto(y)' = MapKeyProto(y)
  BY <1>1, <1>3, Zenon DEF MapKey, MapKeyProto
<1>5. \A v, y : /\ AddMapKey(v, y)' = AddMapKey(v, y)
                /\ AddMapKeyPy(v, y)' = AddMapKeyPy(v, y)
  BY <1>4, Zenon DEF AddMapKey, AddMapKeyPy
<1>6. \A ks, y : FindMapKey(ks, y)' = FindMapKey(ks, y)
  BY <1>3, Zenon DEF FindMapKey
<1>7. \A v, y : FindKey(v, y)' = FindKey(v, y) /\ FindIndex(v, y)' = FindIndex(v, y)
  BY <1>1, <1>6, Zenon DEF FindKey, FindIndex
<1>8. \A v, y : /\ MapKeyCallback(caller, v, y)' = MapKeyCallback(caller, v, y)
                /\ ListIndexCallback(caller, v, y)' = ListIndexCallback(caller, v, y)
  BY <1>5, <1>7, Zenon DEF MapKeyCallback, ListIndexCallback
<1> QED BY <1>8, Zenon DEF WalkOn

\* Nor does a walk.
LEMMA WalkUnchanged ==
    ASSUME NEW caller, NEW fields, caller # "tag", Len(fields) \in Nat, UNCHANGED inputs
    PROVE  WalkFields(caller, fields)' = WalkFields(caller, fields)
<1> DEFINE n == Len(fields)
<1>1. WalksLoop'
  BY WalkLoops, PTL
<1>2. PICK g : /\ Loops(g, caller, fields, WalkStart, n)'
               /\ WalkFields(caller, fields)' = g[n]
  BY <1>1 DEF WalksLoop
<1>3. PICK f : /\ Loops(f, caller, fields, WalkStart, n)
               /\ WalkFields(caller, fields) = f[n]
  BY WalkLoops DEF WalksLoop
<1> HIDE DEF n
<1>4. \A w, x : WalkOn(caller, w, x)' = WalkOn(caller, w, x)
  BY RoundUnchanged
<1>5. Loops(g, caller, fields, WalkStart, n)
  BY <1>2, <1>4 DEF Loops, Round
<1>6. f[0] = WalkStart /\ \A k \in 0..(n - 1) : f[k + 1] = WalkOn(caller, f[k], fields[k + 1])
  BY <1>3, LoopRounds DEF Round, n
<1>7. g[0] = WalkStart /\ \A k \in 0..(n - 1) : g[k + 1] = WalkOn(caller, g[k], fields[k + 1])
  BY <1>5, LoopRounds DEF Round, n
<1> DEFINE P == {k \in Nat : k <= n => g[k] = f[k]}
<1>8. n \in Nat
  BY DEF n
<1>9. 0 \in P
  BY <1>6, <1>7
<1>10. ASSUME NEW k \in Nat, k \in P
       PROVE  k + 1 \in P
  <2> SUFFICES ASSUME k + 1 <= n
               PROVE  g[k + 1] = f[k + 1]
    OBVIOUS
  <2>1. g[k] = f[k] /\ k \in 0..(n - 1)
    BY <1>8, <1>10
  <2> QED BY <1>6, <1>7, <2>1
<1> HIDE DEF P
<1>11. Nat \subseteq P
  BY <1>9, <1>10, SetInduction
<1>12. g[n] = f[n]
  BY <1>8, <1>11 DEF P
<1> QED BY <1>2, <1>3, <1>12

------------------------------------------------------------------------------
(* A round of a walk that writes a tag *)

Writers == {"AddFieldTag", "get_field_tag"}

\* The ints that a caller of each language may use.
Ints(caller) == IF caller = "get_field_tag" THEN Int ELSE Int32

BadTag == <<"key", None>>

TagElement ==
    ({"field"} \X Number) \union ({"index"} \X (0..(2^LongBits - 1))) \union {BadTag}
        \union ({"key"} \X Element(Int))

Nexts == {"field", "mapKey", "listIndex"}

\* What a walk is made of.
WalkOf(s, d, n, t, p) == [status |-> s, desc |-> d, next |-> n, tag |-> t, place |-> p]

\* A key of the type of the map's keys: C++ has converted it from an int, Python has
\* refused what converting would change.
GoodKey(caller, k) ==
    /\ k \in Element(Int)
    /\ keyType = "bool" => k[1] = "bool"
    /\ keyType = "string" => k[1] = "str"
    /\ keyType \notin {"bool", "string"} =>
          /\ keyType # "sint32" /\ k[1] = "int"
          /\ caller # "get_field_tag" => \E i \in Int32 : k[2] = Converted(i)
          /\ caller = "get_field_tag" => Converted(k[2]) = k[2]

GoodStep(caller, s) ==
    \E n \in Number :
        \/ s = <<n>>
        \/ /\ Behind(n) = "mapKey"
           /\ \E k \in Element(Int) : GoodKey(caller, k) /\ s = <<n, k>>
        \/ /\ Behind(n) = "listIndex"
           /\ \E i \in Int : s = <<n, <<"int", i>>>>

\* What a round can make of a walk that has written t, for the place p.
Stops(t, p, v) ==
    \E how \in {"error", "crash"}, d \in BOOLEAN, n \in Nexts : v = WalkOf(how, d, n, t, p)

StopsAtKey(t, p, v) ==
    \E d \in BOOLEAN : v = WalkOf("error", d, "field", Append(t, BadTag), p)

Enters(t, p, v) ==
    \E m \in Number, d \in BOOLEAN :
        v = WalkOf("OK", d, Behind(m), Append(t, <<"field", m>>), Append(p, <<m>>))

TakesKey(caller, t, p, v) ==
    \E k \in Element(Int), d \in BOOLEAN :
        /\ GoodKey(caller, k)
        /\ v = WalkOf("OK", d, "field", Append(t, <<"key", k>>), Extended(p, k))

TakesIndex(t, p, v) ==
    \E i \in Int, d \in BOOLEAN :
        v = WalkOf("OK", d, "field", Append(t, <<"index", WireIndex(i)>>), Extended(p, <<"int", i>>))

\* The elements of a path.
LEMMA Elements ==
    ASSUME NEW ints, NEW x \in Element(ints)
    PROVE  /\ x = <<x[1], x[2]>>
           /\ \/ x[1] = "str" /\ x[2] \in STRING
              \/ x[1] = "int" /\ x[2] \in ints
              \/ x[1] = "bool" /\ x[2] \in BOOLEAN
BY DEF Element

\* Ints are Ints, and an element of a path is one of any path.
LEMMA IntsAreInts ==
    ASSUME NEW caller
    PROVE  Ints(caller) \subseteq Int /\ Element(Ints(caller)) \subseteq Element(Int)
<1>1. Ints(caller) \subseteq Int
  BY Casts DEF Ints
<1> QED BY <1>1 DEF Element

\* FieldInt gives an int, FieldBool a bool.
LEMMA FieldIntType ==
    ASSUME NEW caller, NEW x \in Element(Ints(caller))
    PROVE  /\ FieldInt(x) \subseteq Ints(caller) /\ FieldInt(x) \subseteq Int
           /\ FieldBool(x) \subseteq BOOLEAN
<1>1. Ints(caller) \subseteq Int /\ Int32 \subseteq Ints(caller) /\ {0, 1} \subseteq Ints(caller)
  BY Casts DEF Ints
<1>2. CASE x[1] = "str"
  BY <1>1, <1>2 DEF FieldInt, FieldBool
<1>3. CASE x[1] = "int" /\ x[2] \in Ints(caller)
  <2>1. FieldInt(x) = {x[2]}
    BY <1>3 DEF FieldInt
  <2>2. FieldBool(x) = {x[2] # 0}
    BY <1>3 DEF FieldBool
  <2> QED BY <1>1, <1>3, <2>1, <2>2
<1>4. CASE x[1] = "bool" /\ x[2] \in BOOLEAN
  <2>1. FieldInt(x) = {IF x[2] THEN 1 ELSE 0}
    BY <1>4 DEF FieldInt
  <2>2. FieldBool(x) = {x[2]}
    BY <1>4 DEF FieldBool
  <2> QED BY <1>1, <1>4, <2>1, <2>2
<1> QED BY <1>2, <1>3, <1>4, Elements

\* The types a map's keys may have.
AllKeyTypes == {"bool", "string", "int32", "int64", "uint32", "uint64", "sint32"}

\* A converted int is an int, and that of an int32 becomes the int again.
LEMMA ConvertedInts ==
    ASSUME keyType \in AllKeyTypes, keyType \notin {"bool", "string"}
    PROVE  /\ \A n \in Int : Converted(n) \in Int
           /\ \A n \in Int32 : ToInt(Converted(n)) = n
<1>1. CASE keyType \in {"int32", "sint32"}
  <2>1. \A n : Converted(n) = Signed(n, IntBits)
    BY <1>1 DEF Converted
  <2>2. \A n \in Int32 : ToInt(Converted(n)) = n
    BY <2>1, Casts DEF ToInt
  <2> QED BY <2>1, <2>2, Casts
<1>2. CASE keyType = "int64"
  <2>1. \A n : Converted(n) = Signed(n, LongBits)
    BY <1>2 DEF Converted
  <2>2. \A n \in Int32 : ToInt(Converted(n)) = n
    BY <2>1, Casts DEF ToInt
  <2> QED BY <2>1, <2>2, Casts
<1>3. CASE keyType = "uint32"
  <2>1. \A n : Converted(n) = Unsigned(n, IntBits)
    BY <1>3 DEF Converted
  <2>2. \A n \in Int32 : ToInt(Converted(n)) = n
    BY <2>1, Casts DEF ToInt
  <2> QED BY <2>1, <2>2, Casts
<1>4. CASE keyType = "uint64"
  <2>1. \A n : Converted(n) = Unsigned(n, LongBits)
    BY <1>4 DEF Converted
  <2>2. \A n \in Int32 : ToInt(Converted(n)) = n
    BY <2>1, Casts DEF ToInt
  <2> QED BY <2>1, <2>2, Casts
<1> QED BY <1>1, <1>2, <1>3, <1>4 DEF AllKeyTypes

\* Pairs are Elements.
LEMMA Pairs ==
    /\ \A n \in Int : <<"int", n>> \in Element(Int) /\ <<"int", n>>[1] = "int" /\ <<"int", n>>[2] = n
    /\ \A b \in BOOLEAN : <<"bool", b>> \in Element(Int) /\ <<"bool", b>>[1] = "bool"
    /\ \A s \in STRING : <<"str", s>> \in Element(Int) /\ <<"str", s>>[1] = "str"
BY DEF Element

\* The key that AddMapKey writes has the type of the map's keys.
LEMMA KeyOfGood ==
    ASSUME keyType \in AllKeyTypes, keyType # "sint32", NEW x \in Element(Int32), NEW k \in KeyOf(x)
    PROVE  GoodKey("AddFieldTag", k)
<1>1. /\ FieldInt(x) \subseteq Int32 /\ FieldBool(x) \subseteq BOOLEAN
  BY FieldIntType DEF Ints
<1>2. CASE keyType = "bool"
  <2>1. PICK b \in FieldBool(x) : k = <<"bool", b>>
    BY <1>2 DEF KeyOf
  <2> QED BY <1>1, <1>2, <2>1, Pairs DEF GoodKey
<1>3. CASE keyType = "string"
  <2>1. k = <<"str", FieldString(x)>>
    BY <1>3 DEF KeyOf
  <2>2. FieldString(x) \in STRING
    <3>1. CASE x[1] = "int" /\ x[2] \in Int32
      <4>1. FieldString(x) = ToString(x[2])
        BY <3>1 DEF FieldString
      <4> QED BY <3>1, <4>1, PrintedTexts
    <3>2. CASE x[1] = "bool" /\ x[2] \in BOOLEAN
      <4>1. FieldString(x) = BoolString(x[2])
        BY <3>2 DEF FieldString
      <4> QED BY <3>2, <4>1, PrintedTexts
    <3>3. CASE x[1] = "str" /\ x[2] \in STRING
      BY <3>3 DEF FieldString
    <3> QED BY <3>1, <3>2, <3>3, Elements
  <2> QED BY <1>3, <2>1, <2>2, Pairs DEF GoodKey
<1>4. CASE keyType \notin {"bool", "string"}
  <2>1. PICK i \in FieldInt(x) : k = <<"int", Converted(i)>>
    BY <1>4 DEF KeyOf
  <2>2. i \in Int32 /\ i \in Int /\ Converted(i) \in Int
    BY <1>1, <1>4, ConvertedInts, Casts
  <2>3. k \in Element(Int) /\ k[1] = "int" /\ k[2] = Converted(i)
    BY <2>1, <2>2, Pairs
  <2> QED BY <1>4, <2>2, <2>3 DEF GoodKey
<1> QED BY <1>2, <1>3, <1>4

\* So has the key that get_field_tag writes.
LEMMA MapKeyProtoGood ==
    ASSUME keyType \in AllKeyTypes, NEW x \in Element(Int), NEW k \in MapKeyProto(x)
    PROVE  GoodKey("get_field_tag", k)
<1>1. /\ FieldInt(x) \subseteq Int /\ FieldBool(x) \subseteq BOOLEAN
  BY FieldIntType DEF Ints
<1>2. /\ keyType # "sint32" /\ (keyType = "string" <=> x[1] = "str") /\ k \in KeyOf(x)
      /\ (keyType \notin {"bool", "string"} => k[2] \in FieldInt(x))
  BY DEF MapKeyProto
<1>3. CASE keyType = "string"
  <2>1. k = <<"str", x[2]>> /\ x[2] \in STRING
    BY <1>2, <1>3, Elements DEF KeyOf, FieldString
  <2> QED BY <1>3, <2>1, Pairs DEF GoodKey
<1>4. CASE keyType # "string"
  <2>1. CASE keyType = "bool"
    <3>1. PICK b \in FieldBool(x) : k = <<"bool", b>>
      BY <1>2, <2>1 DEF KeyOf
    <3> QED BY <1>1, <2>1, <3>1, Pairs DEF GoodKey
  <2>2. CASE keyType # "bool"
    <3>1. PICK i \in FieldInt(x) : k = <<"int", Converted(i)>>
      BY <1>2, <1>4, <2>2 DEF KeyOf
    <3>2. i \in Int /\ Converted(i) \in Int
      BY <1>1, <1>4, <2>2, <3>1, ConvertedInts
    <3>3. k \in Element(Int) /\ k[1] = "int" /\ k[2] = Converted(i) /\ k[2] \in FieldInt(x)
      BY <1>2, <1>4, <2>2, <3>1, <3>2, Pairs
    <3>4. \A m, n \in FieldInt(x) : m = n
      BY <1>2, <1>4, Elements DEF FieldInt
    <3>5. Converted(k[2]) = k[2]
      BY <3>1, <3>3, <3>4
    <3> QED BY <1>2, <1>4, <2>2, <3>3, <3>5 DEF GoodKey
  <2> QED BY <2>1, <2>2
<1> QED BY <1>3, <1>4

\* A choice from a set that is not empty is in the set.
LEMMA TheMember ==
    ASSUME NEW S, S # {}
    PROVE  The(S) \in S
BY DEF The

\* The fields of a walk.
LEMMA Selectors ==
    ASSUME NEW s, NEW d, NEW n, NEW t, NEW p, NEW w, w = WalkOf(s, d, n, t, p)
    PROVE  w.status = s /\ w.desc = d /\ w.next = n /\ w.tag = t /\ w.place = p
BY DEF WalkOf

\* The tag and the place of a walk are fields of it.
WithTagPlace(w, tt, pp) == [w EXCEPT !.tag = tt, !.place = pp]

\* They can be changed.
LEMMA TagPlaceChanges ==
    ASSUME NEW s, NEW d, NEW n, NEW t, NEW p, NEW w, w = WalkOf(s, d, n, t, p), NEW tt, NEW pp
    PROVE  WithTagPlace(w, tt, pp) = WalkOf(s, d, n, tt, pp)
<1> DEFINE u == [w EXCEPT !.tag = tt]
<1>1. u = WalkOf(s, d, n, tt, p)
  BY DEF WalkOf
<1>2. WithTagPlace(w, tt, pp) = [u EXCEPT !.place = pp]
  BY DEF WalkOf, WithTagPlace
<1> HIDE DEF u
<1>3. [u EXCEPT !.place = pp] = WalkOf(s, d, n, tt, pp)
  BY <1>1 DEF WalkOf
<1> QED BY <1>2, <1>3

\* A walk that fails.
LEMMA FailedWalk ==
    ASSUME NEW s, NEW d, NEW n, NEW t, NEW p, NEW w, w = WalkOf(s, d, n, t, p), NEW e
    PROVE  Failed(w, e) = WalkOf(e, d, n, t, p)
BY DEF WalkOf, Failed

\* A walk that enters a field.
LEMMA TagFieldWalk ==
    ASSUME NEW s, NEW d, NEW n, NEW t, NEW p, NEW w, w = WalkOf(s, d, n, t, p), NEW e
    PROVE  TagField(w, e) = WalkOf(s, d, n, Append(t, <<"field", e>>), Append(p, <<e>>))
<1>1. w.tag = t /\ w.place = p
  BY Selectors
<1> DEFINE tt == Append(t, <<"field", e>>)
           pp == Append(p, <<e>>)
<1>2. TagField(w, e) = WithTagPlace(w, tt, pp)
  BY <1>1 DEF WithTagPlace, TagField
<1> HIDE DEF tt, pp
<1>3. WithTagPlace(w, tt, pp) = WalkOf(s, d, n, tt, pp)
  BY TagPlaceChanges
<1> QED BY <1>2, <1>3 DEF tt, pp

\* A walk that takes a map key.
LEMMA TagKeyWalk ==
    ASSUME NEW s, NEW d, NEW n, NEW t, NEW p, NEW w, w = WalkOf(s, d, n, t, p), NEW e
    PROVE  TagKey(w, e) = WalkOf(s, d, n, Append(t, <<"key", e>>), Extended(p, e))
<1>1. w.tag = t /\ w.place = p
  BY Selectors
<1> DEFINE tt == Append(t, <<"key", e>>)
           pp == Extended(p, e)
<1>2. TagKey(w, e) = WithTagPlace(w, tt, pp)
  BY <1>1 DEF WithTagPlace, TagKey
<1> HIDE DEF tt, pp
<1>3. WithTagPlace(w, tt, pp) = WalkOf(s, d, n, tt, pp)
  BY TagPlaceChanges
<1> QED BY <1>2, <1>3 DEF tt, pp

\* A walk that takes an index.
LEMMA TagIndexWalk ==
    ASSUME NEW s, NEW d, NEW n, NEW t, NEW p, NEW w, w = WalkOf(s, d, n, t, p), NEW e
    PROVE  TagIndex(w, e) =
               WalkOf(s, d, n, Append(t, <<"index", WireIndex(e)>>), Extended(p, <<"int", e>>))
<1>1. w.tag = t /\ w.place = p
  BY Selectors
<1> DEFINE tt == Append(t, <<"index", WireIndex(e)>>)
           pp == Extended(p, <<"int", e>>)
<1>2. TagIndex(w, e) = WithTagPlace(w, tt, pp)
  BY <1>1 DEF WithTagPlace, TagIndex
<1> HIDE DEF tt, pp
<1>3. WithTagPlace(w, tt, pp) = WalkOf(s, d, n, tt, pp)
  BY TagPlaceChanges
<1> QED BY <1>2, <1>3 DEF tt, pp

\* What comes next is another field of a walk.
LEMMA NextChanges ==
    ASSUME NEW s, NEW d, NEW n, NEW t, NEW p, NEW w, w = WalkOf(s, d, n, t, p), NEW e
    PROVE  [w EXCEPT !.next = e] = WalkOf(s, d, e, t, p)
BY DEF WalkOf

\* And so is whether there is a message_desc.
WithNext(w, e, b) == [w EXCEPT !.next = e, !.desc = b]

\* Both can be changed.
LEMMA DescChanges ==
    ASSUME NEW s, NEW d, NEW n, NEW t, NEW p, NEW w, w = WalkOf(s, d, n, t, p), NEW e, NEW b
    PROVE  WithNext(w, e, b) = WalkOf(s, b, e, t, p)
<1> DEFINE u == [w EXCEPT !.next = e]
<1>1. u = WalkOf(s, d, e, t, p)
  BY DEF WalkOf
<1>2. WithNext(w, e, b) = [u EXCEPT !.desc = b]
  BY DEF WalkOf, WithNext
<1> HIDE DEF u
<1>3. [u EXCEPT !.desc = b] = WalkOf(s, b, e, t, p)
  BY <1>1 DEF WalkOf
<1> QED BY <1>2, <1>3

\* A map key is taken, or the walk stops.
LEMMA MapKeyRound ==
    ASSUME NEW caller \in Writers, NEW d \in BOOLEAN, NEW t, NEW p, NEW w,
           w = WalkOf("OK", d, "mapKey", t, p),
           NEW x \in Element(Ints(caller)), keyType \in AllKeyTypes
    PROVE  LET v == WalkOn(caller, w, x)
           IN  Stops(t, p, v) \/ StopsAtKey(t, p, v) \/ TakesKey(caller, t, p, v)
<1> DEFINE u == MapKeyCallback(caller, w, x)
           v == [u EXCEPT !.next = "field"]
<1>1. WalkOn(caller, w, x) = v
  <2>1. w.status = "OK" /\ w.next = "mapKey"
    BY Selectors
  <2> QED BY <2>1 DEF WalkOn
<1>2. ASSUME NEW k, GoodKey(caller, k), u = TagKey(w, k)
      PROVE  TakesKey(caller, t, p, v)
  <2>1. k \in Element(Int)
    BY <1>2 DEF GoodKey
  <2>2. u = WalkOf("OK", d, "mapKey", Append(t, <<"key", k>>), Extended(p, k))
    BY <1>2, TagKeyWalk
  <2> HIDE DEF u
  <2>3. v = WalkOf("OK", d, "field", Append(t, <<"key", k>>), Extended(p, k))
    BY <2>2, NextChanges
  <2> HIDE DEF v
  <2> QED BY <1>2, <2>1, <2>3 DEF TakesKey
<1>3. ASSUME u = Failed(w, "error")
      PROVE  Stops(t, p, v)
  <2>1. u = WalkOf("error", d, "mapKey", t, p)
    BY <1>3, FailedWalk
  <2> HIDE DEF u
  <2>2. v = WalkOf("error", d, "field", t, p)
    BY <2>1, NextChanges
  <2> HIDE DEF v
  <2> QED BY <2>2 DEF Stops, Nexts
<1>4. ASSUME u = Failed([w EXCEPT !.tag = Append(@, BadTag)], "error")
      PROVE  StopsAtKey(t, p, v)
  <2> DEFINE y == [w EXCEPT !.tag = Append(@, BadTag)]
  <2>1. y = WalkOf("OK", d, "mapKey", Append(t, BadTag), p)
    BY DEF WalkOf
  <2>2. u = Failed(y, "error")
    BY <1>4
  <2> HIDE DEF u, y
  <2>3. u = WalkOf("error", d, "mapKey", Append(t, BadTag), p)
    BY <2>1, <2>2, FailedWalk
  <2>4. v = WalkOf("error", d, "field", Append(t, BadTag), p)
    BY <2>3, NextChanges
  <2> HIDE DEF v
  <2> QED BY <2>4 DEF StopsAtKey
<1>5. CASE caller = "AddFieldTag"
  <2>1. u = AddMapKey(w, x) /\ x \in Element(Int32)
    BY <1>5 DEF MapKeyCallback, Ints
  <2>2. CASE MapKey(x) = {}
    <3>1. u = Failed([w EXCEPT !.tag = Append(@, BadTag)], "error")
      BY <2>1, <2>2 DEF AddMapKey, BadTag
    <3> QED BY <1>1, <1>4, <3>1
  <2>3. CASE MapKey(x) # {}
    <3>1. keyType # "sint32" /\ MapKey(x) = KeyOf(x)
      BY <2>3 DEF MapKey
    <3>2. GoodKey(caller, The(MapKey(x)))
      BY <1>5, <2>1, <2>3, <3>1, TheMember, KeyOfGood
    <3>3. u = TagKey(w, The(MapKey(x)))
      BY <2>1, <2>3 DEF AddMapKey
    <3> QED BY <1>1, <1>2, <3>2, <3>3
  <2> QED BY <2>2, <2>3
<1>6. CASE caller = "get_field_tag"
  <2>1. u = AddMapKeyPy(w, x) /\ x \in Element(Int)
    BY <1>6 DEF MapKeyCallback, Ints
  <2>2. CASE MapKeyProto(x) = {}
    <3>1. u = Failed(w, "error")
      BY <2>1, <2>2 DEF AddMapKeyPy
    <3> QED BY <1>1, <1>3, <3>1
  <2>3. CASE MapKeyProto(x) # {}
    <3>1. GoodKey(caller, The(MapKeyProto(x)))
      BY <1>6, <2>1, <2>3, TheMember, MapKeyProtoGood
    <3>2. u = TagKey(w, The(MapKeyProto(x)))
      BY <2>1, <2>3 DEF AddMapKeyPy
    <3> QED BY <1>1, <1>2, <3>1, <3>2
  <2> QED BY <2>2, <2>3
<1> QED BY <1>5, <1>6 DEF Writers

\* An index is taken, or the walk stops.
LEMMA IndexRound ==
    ASSUME NEW caller \in Writers, NEW d \in BOOLEAN, NEW t, NEW p, NEW w,
           w = WalkOf("OK", d, "listIndex", t, p),
           NEW x \in Element(Ints(caller))
    PROVE  LET v == WalkOn(caller, w, x)
           IN  Stops(t, p, v) \/ TakesIndex(t, p, v)
<1> DEFINE u == ListIndexCallback(caller, w, x)
           v == [u EXCEPT !.next = "field"]
<1>1. WalkOn(caller, w, x) = v
  <2>1. w.status = "OK" /\ w.next = "listIndex"
    BY Selectors
  <2> QED BY <2>1 DEF WalkOn
<1>2. ASSUME NEW i \in Int, u = TagIndex(w, i)
      PROVE  TakesIndex(t, p, v)
  <2>1. u = WalkOf("OK", d, "listIndex", Append(t, <<"index", WireIndex(i)>>), Extended(p, <<"int", i>>))
    BY <1>2, TagIndexWalk
  <2> HIDE DEF u
  <2>2. v = WalkOf("OK", d, "field", Append(t, <<"index", WireIndex(i)>>), Extended(p, <<"int", i>>))
    BY <2>1, NextChanges
  <2> HIDE DEF v
  <2> QED BY <2>2 DEF TakesIndex
<1>3. ASSUME u = Failed(w, "error")
      PROVE  Stops(t, p, v)
  <2>1. u = WalkOf("error", d, "listIndex", t, p)
    BY <1>3, FailedWalk
  <2> HIDE DEF u
  <2>2. v = WalkOf("error", d, "field", t, p)
    BY <2>1, NextChanges
  <2> HIDE DEF v
  <2> QED BY <2>2 DEF Stops, Nexts
<1>4. FieldInt(x) # {} => The(FieldInt(x)) \in Int
  BY TheMember, FieldIntType
<1>5. u = Failed(w, "error") \/ \E i \in Int : u = TagIndex(w, i)
  <2>1. CASE caller = "AddFieldTag"
    <3>1. u = AddIndex(w, x)
      BY <2>1 DEF ListIndexCallback
    <3> QED BY <1>4, <3>1 DEF AddIndex
  <2>2. CASE caller = "get_field_tag"
    <3>1. u = AddIndexPy(w, x)
      BY <2>2 DEF ListIndexCallback
    <3>2. x[1] # "str" => FieldInt(x) # {}
      BY Elements DEF FieldInt
    <3> QED BY <1>4, <3>1, <3>2 DEF AddIndexPy
  <2> QED BY <2>1, <2>2 DEF Writers
<1> QED BY <1>1, <1>2, <1>3, <1>5

\* What is found is a field.
LEMMA FindFieldType ==
    ASSUME NEW caller, NEW x \in Element(Int)
    PROVE  FindField(caller, x) \subseteq Number
<1>1. CASE x[1] = "str"
  BY <1>1 DEF FindField
<1>2. CASE x[1] = "int"
  BY <1>2 DEF FindField
<1>3. CASE x[1] = "bool"
  BY <1>3 DEF FindField
<1> QED BY <1>1, <1>2, <1>3, Elements

\* A field is entered, or the walk stops.
LEMMA FieldRound ==
    ASSUME NEW caller \in Writers, NEW d \in BOOLEAN, NEW t, NEW p, NEW w,
           w = WalkOf("OK", d, "field", t, p),
           NEW x \in Element(Ints(caller))
    PROVE  LET v == WalkOn(caller, w, x)
           IN  Stops(t, p, v) \/ Enters(t, p, v)
<1> DEFINE v == WalkField(caller, w, x)
           n == The(FindField(caller, x))
           u == TagField(w, n)
<1>1. WalkOn(caller, w, x) = v
  <2>1. w.status = "OK" /\ w.next = "field"
    BY Selectors
  <2> QED BY <2>1 DEF WalkOn
<1>2. w.desc = d
  BY Selectors
<1>3. ASSUME NEW how \in {"error", "crash"}, v = Failed(w, how)
      PROVE  Stops(t, p, v)
  <2>1. v = WalkOf(how, d, "field", t, p)
    BY <1>3, FailedWalk
  <2> HIDE DEF v
  <2> QED BY <2>1 DEF Stops, Nexts
<1>4. CASE d = FALSE
  <2>1. v = Failed(w, BelowScalar(caller, x))
    BY <1>2, <1>4 DEF WalkField
  <2>2. BelowScalar(caller, x) \in {"error", "crash"}
    BY DEF BelowScalar
  <2> QED BY <1>1, <1>3, <2>1, <2>2
<1>5. CASE d = TRUE /\ FindField(caller, x) = {}
  <2>1. v = Failed(w, "error")
    BY <1>2, <1>5 DEF WalkField
  <2> QED BY <1>1, <1>3, <2>1
<1>6. CASE d = TRUE /\ FindField(caller, x) # {}
  <2>1. v = [FieldCallback(caller, w, n) EXCEPT !.next = Behind(n), !.desc = HasFields(n)]
    BY <1>2, <1>6 DEF WalkField
  <2>2. FieldCallback(caller, w, n) = u
    BY DEF FieldCallback, Writers
  <2>3. v = WithNext(u, Behind(n), HasFields(n))
    BY <2>1, <2>2 DEF WithNext
  <2>4. n \in Number
    BY <1>6, TheMember, FindFieldType, IntsAreInts
  <2>5. HasFields(n) \in BOOLEAN
    BY DEF HasFields
  <2> HIDE DEF n
  <2>6. u = WalkOf("OK", d, "field", Append(t, <<"field", n>>), Append(p, <<n>>))
    BY TagFieldWalk
  <2> HIDE DEF u, v
  <2>7. v = WalkOf("OK", HasFields(n), Behind(n), Append(t, <<"field", n>>), Append(p, <<n>>))
    BY <2>3, <2>6, DescChanges
  <2> QED BY <1>1, <2>4, <2>5, <2>7 DEF Enters
<1> QED BY <1>4, <1>5, <1>6

------------------------------------------------------------------------------
(* The walks of AddFieldTag and get_field_tag *)

\* What GetFieldTypes gives back.
Cast(p) == [j \in 1..Len(p) |-> CastStep(p[j])]

\* p ends with field m, without index or key.
EndsWith(p, m) == p # <<>> /\ p[Len(p)] = <<m>>

\* A tag that is longer by one element has this element too.
LEMMA AppendElements ==
    ASSUME NEW S, NEW t \in Seq(S), NEW e \in S
    PROVE  Append(t, e) \in Seq(S) /\ ToSet(Append(t, e)) = ToSet(t) \union {e}
<1> DEFINE u == Append(t, e)
           n == Len(t) + 1
<1>1. /\ u \in Seq(S) /\ Len(u) = Len(t) + 1 /\ Inserted(u, t, Len(t), Len(t) + 1, e)
      /\ n \in 1..(Len(t) + 1)
  BY AppendInserts, LenProperties
<1>2. Inserted(u, t, Len(t), n, e)
  BY <1>1
<1> HIDE DEF u, n
<1>3. ToSet(u) = ToSet(t) \union {e}
  BY <1>1, <1>2, InsertedElements
<1> QED BY <1>1, <1>3 DEF u

\* Casting keeps the length of a step, the field, and what has no number.
LEMMA CastSteps ==
    /\ \A m : CastStep(<<m>>) = <<m>>
    /\ \A m, k : CastStep(<<m, k>>) = <<m, MapKeyOfTag(k)>>
    /\ \A k \in Element(Int) : MapKeyOfTag(k) \in Element(Int)
<1>1. \A m : CastStep(<<m>>) = <<m>>
  BY DEF CastStep
<1>2. \A m, k : CastStep(<<m, k>>) = <<m, MapKeyOfTag(k)>>
  BY DEF CastStep
<1>3. ASSUME NEW k \in Element(Int)
      PROVE  MapKeyOfTag(k) \in Element(Int)
  <2>1. CASE k[1] = "int" /\ k[2] \in Int
    <3>1. ToInt(k[2]) \in Int
      BY <2>1, Casts DEF ToInt
    <3>2. MapKeyOfTag(k) = <<"int", ToInt(k[2])>>
      BY <2>1 DEF MapKeyOfTag
    <3> QED BY <3>1, <3>2, Pairs
  <2>2. CASE k[1] # "int"
    BY <2>2 DEF MapKeyOfTag
  <2> QED BY <2>1, <2>2, Elements
<1> QED BY <1>1, <1>2, <1>3

\* A place with another field.
LEMMA PlaceAppend ==
    ASSUME NEW p \in Seq(PlaceStep), NEW m \in Number
    PROVE  /\ Append(p, <<m>>) \in Seq(PlaceStep)
           /\ Len(Append(p, <<m>>)) = Len(p) + 1
           /\ \A j \in 1..Len(p) : Append(p, <<m>>)[j] = p[j]
           /\ Append(p, <<m>>)[Len(p) + 1] = <<m>>
           /\ EndsWith(Append(p, <<m>>), m)
           /\ Cast(Append(p, <<m>>)) = Append(Cast(p), <<m>>)
<1> DEFINE e == <<m>>
           q == Append(p, e)
           n == Len(p)
<1>1. e \in PlaceStep /\ CastStep(e) = e
  BY CastSteps DEF PlaceStep
<1> HIDE DEF e
<1>2. /\ q \in Seq(PlaceStep) /\ Len(q) = n + 1 /\ n \in Nat
      /\ \A j \in 1..n : q[j] = p[j]
      /\ q[n + 1] = e /\ q # <<>>
  BY <1>1, AppendProperties, LenProperties
<1>3. EndsWith(q, m)
  <2> HIDE DEF q
  <2> QED BY <1>2 DEF EndsWith, e
<1> DEFINE c == Cast(p)
           a == Append(c, e)
           b == Cast(q)
<1>4. c \in Seq({CastStep(p[j]) : j \in 1..n} \union {e}) /\ Len(c) = n /\ \A j \in 1..n : c[j] = CastStep(p[j])
  BY <1>2 DEF Cast
<1> HIDE DEF c
<1>5. /\ a \in Seq({CastStep(p[j]) : j \in 1..n} \union {e}) /\ Len(a) = n + 1
      /\ \A j \in 1..n : a[j] = c[j]
      /\ a[n + 1] = e
  BY <1>4, AppendProperties
<1> HIDE DEF a, q
<1>6. b = [j \in 1..(n + 1) |-> CastStep(q[j])]
  BY <1>2 DEF Cast
<1>7. a = [j \in 1..(n + 1) |-> a[j]]
  BY <1>2, <1>5
<1>8. \A j \in 1..(n + 1) : a[j] = CastStep(q[j])
  BY <1>1, <1>2, <1>4, <1>5
<1>9. b = a
  BY <1>6, <1>7, <1>8, Zenon
<1> QED BY <1>2, <1>3, <1>9 DEF a, b, c, q, e

\* A field and its index or key.
LEMMA AppendPair ==
    ASSUME NEW m, NEW k
    PROVE  Append(<<m>>, k) = <<m, k>>
<1> DEFINE S == {m, k}
           s == <<m>>
           q == <<m, k>>
           a == Append(s, k)
<1>1. s \in Seq(S) /\ Len(s) = 1 /\ s[1] = m
  OBVIOUS
<1>2. q \in Seq(S) /\ Len(q) = 2 /\ q[1] = m /\ q[2] = k
  OBVIOUS
<1>3. k \in S
  OBVIOUS
<1> HIDE DEF s, q, S
<1>4. a \in Seq(S) /\ Len(a) = 2 /\ a[1] = m /\ a[2] = k
  <2>1. a \in Seq(S) /\ Len(a) = Len(s) + 1 /\ a[Len(s) + 1] = k
        /\ \A i \in 1..Len(s) : a[i] = s[i]
    <3>1. s \in Seq(S)
      BY <1>1
    <3> QED BY <1>3, <3>1, AppendProperties
  <2>2. Len(s) + 1 = 2 /\ 1 \in 1..Len(s)
    BY <1>1
  <2> HIDE DEF a
  <2> QED BY <1>1, <2>1, <2>2
<1> HIDE DEF a
<1>5. a = q
  <2>1. \A i \in 1..2 : a[i] = q[i]
    BY <1>2, <1>4
  <2> QED BY <1>2, <1>4, <2>1, SeqEqual
<1> QED BY <1>5 DEF a, s, q

\* A place with an index or key for its last field.
LEMMA PlaceExtend ==
    ASSUME NEW p \in Seq(PlaceStep), NEW m \in Number, EndsWith(p, m), NEW k \in Element(Int)
    PROVE  /\ Extended(p, k) \in Seq(PlaceStep)
           /\ Len(Extended(p, k)) = Len(p)
           /\ \A j \in 1..(Len(p) - 1) : Extended(p, k)[j] = p[j]
           /\ Extended(p, k)[Len(p)] = <<m, k>>
           /\ Cast(Extended(p, k)) = Extended(Cast(p), MapKeyOfTag(k))
<1> DEFINE n == Len(p)
           q == Extended(p, k)
           y == MapKeyOfTag(k)
           e == <<m, k>>
           f == <<m, y>>
           c == Cast(p)
           a == Extended(c, y)
           b == Cast(q)
<1>1. n \in Nat \ {0} /\ p[n] = <<m>> /\ DOMAIN p = 1..n /\ p = [j \in 1..n |-> p[j]]
  BY LenProperties, EmptySeq DEF EndsWith
<1>2. Append(<<m>>, k) = e /\ Append(<<m>>, y) = f
  <2> HIDE DEF y
  <2> QED BY AppendPair
<1>3. e \in PlaceStep /\ CastStep(e) = f
  BY CastSteps DEF PlaceStep
<1>4. q = [p EXCEPT ![n] = e]
  BY <1>1, <1>2 DEF Extended
<1> HIDE DEF q, e, f, y
<1>5. /\ q \in Seq(PlaceStep) /\ Len(q) = n /\ q[n] = e
      /\ \A j \in 1..(n - 1) : q[j] = p[j]
  BY <1>1, <1>3, <1>4
<1>6. c = [j \in 1..n |-> CastStep(p[j])] /\ Len(c) = n /\ c[n] = <<m>>
  <2>1. c = [j \in 1..n |-> CastStep(p[j])]
    BY DEF Cast
  <2>2. CastStep(<<m>>) = <<m>>
    BY CastSteps
  <2> HIDE DEF c
  <2>3. Len(c) = n
    BY <1>1, <2>1
  <2>4. c[n] = CastStep(p[n])
    BY <1>1, <2>1
  <2> QED BY <1>1, <2>1, <2>2, <2>3, <2>4
<1> HIDE DEF c
<1>7. a = [c EXCEPT ![n] = f]
  BY <1>2, <1>6 DEF Extended
<1> HIDE DEF a
<1>8. a = [j \in 1..n |-> a[j]] /\ a[n] = f /\ \A j \in 1..(n - 1) : a[j] = CastStep(p[j])
  <2>1. a = [j \in 1..n |-> a[j]] /\ a[n] = f /\ \A j \in 1..(n - 1) : a[j] = c[j]
    BY <1>1, <1>6, <1>7
  <2>2. \A j \in 1..(n - 1) : c[j] = CastStep(p[j])
    BY <1>1, <1>6
  <2> QED BY <2>1, <2>2
<1>9. b = [j \in 1..n |-> CastStep(q[j])]
  BY <1>5 DEF Cast
<1>10. ASSUME NEW j \in 1..n
       PROVE  a[j] = CastStep(q[j])
  <2>1. CASE j = n
    BY <1>3, <1>5, <1>8, <2>1
  <2>2. CASE j # n
    <3>1. j \in 1..(n - 1)
      BY <1>1, <2>2
    <3> QED BY <1>5, <1>8, <3>1
  <2> QED BY <2>1, <2>2
<1>11. a = b
  BY <1>8, <1>9, <1>10, Zenon
<1> QED BY <1>5, <1>11 DEF a, b, c, q, e, y

\* A tag t for the place p: the steps are what the fields take, the last field waits for its
\* index or key if one comes next, and the tag leads back to the place, through casts.
WalkFacts(caller, s, n, t, p) ==
    /\ \A j \in 1..Len(p) : GoodStep(caller, p[j])
    /\ s = "OK" /\ n # "field" => \E m \in Number : EndsWith(p, m) /\ Behind(m) = n
    /\ BadTag \in ToSet(t) \/ GetFieldTypes(t) = Cast(p)
    /\ s = "OK" => BadTag \notin ToSet(t)

\* v is the walk of a writer after at most k elements of a path.
WalkGood(caller, v, k) ==
    \E s \in {"OK", "error", "crash"}, d \in BOOLEAN, n \in Nexts,
       t \in Seq(TagElement), p \in Seq(PlaceStep) :
        v = WalkOf(s, d, n, t, p) /\ Len(p) <= k /\ WalkFacts(caller, s, n, t, p)

\* What each element of a tag adds to its fields.
LEMMA AddedFields ==
    /\ \A fields, m : AddFieldIndex(fields, <<"field", m>>) = Append(fields, <<m>>)
    /\ \A fields, k : AddFieldIndex(fields, <<"key", k>>) = Extended(fields, MapKeyOfTag(k))
    /\ \A fields : \A i \in Int : AddFieldIndex(fields, <<"index", WireIndex(i)>>) =
                                    Extended(fields, MapKeyOfTag(<<"int", i>>))
<1>1. \A fields, m : AddFieldIndex(fields, <<"field", m>>) = Append(fields, <<m>>)
  BY DEF AddFieldIndex
<1>2. \A fields, k : AddFieldIndex(fields, <<"key", k>>) = Extended(fields, MapKeyOfTag(k))
  BY DEF AddFieldIndex
<1>3. ASSUME NEW fields, NEW i \in Int
      PROVE  AddFieldIndex(fields, <<"index", WireIndex(i)>>) =
                 Extended(fields, MapKeyOfTag(<<"int", i>>))
  <2>1. ToInt(WireIndex(i)) = ToInt(i)
    BY IndexCast
  <2>2. MapKeyOfTag(<<"int", i>>) = <<"int", ToInt(i)>>
    BY DEF MapKeyOfTag
  <2> DEFINE j == WireIndex(i)
  <2> HIDE DEF j
  <2>3. AddFieldIndex(fields, <<"index", j>>) = Extended(fields, <<"int", ToInt(j)>>)
    BY DEF AddFieldIndex
  <2> QED BY <2>1, <2>2, <2>3 DEF j
<1> QED BY <1>1, <1>2, <1>3

\* Before the first element.
LEMMA StartGood == \A caller : WalkGood(caller, WalkStart, 0)
<1> SUFFICES ASSUME NEW caller PROVE WalkGood(caller, WalkStart, 0)
  OBVIOUS
<1>1. WalkStart = WalkOf("OK", TRUE, "field", <<>>, <<>>)
  BY DEF WalkStart, WalkOf
<1>2. <<>> \in Seq(TagElement) /\ <<>> \in Seq(PlaceStep) /\ Len(<<>>) = 0 /\ ToSet(<<>>) = {}
  BY DEF ToSet
<1>3. Cast(<<>>) = <<>>
  BY DEF Cast
<1>4. WalkFacts(caller, "OK", "field", <<>>, <<>>)
  BY <1>2, <1>3, EmptyTag DEF WalkFacts
<1>5. "OK" \in {"OK", "error", "crash"} /\ TRUE \in BOOLEAN /\ "field" \in Nexts
  BY DEF Nexts
<1>6. Len(<<>>) <= 0
  OBVIOUS
<1> QED BY <1>1, <1>2, <1>4, <1>5, <1>6, Zenon DEF WalkGood

\* A field more.
LEMMA EntersGood ==
    ASSUME NEW caller, NEW n, NEW t \in Seq(TagElement), NEW p \in Seq(PlaceStep), NEW v,
           NEW k \in Nat, Len(p) <= k, WalkFacts(caller, "OK", n, t, p), Enters(t, p, v)
    PROVE  WalkGood(caller, v, k + 1)
<1>1. PICK m \in Number, d \in BOOLEAN :
          v = WalkOf("OK", d, Behind(m), Append(t, <<"field", m>>), Append(p, <<m>>))
  BY DEF Enters
<1> DEFINE e == <<"field", m>>
           f == <<m>>
           tt == Append(t, e)
           pp == Append(p, f)
           b == Behind(m)
<1>2. e \in TagElement /\ e # BadTag
  BY DEF TagElement, BadTag
<1>3. GetFieldTypes(tt) = AddFieldIndex(GetFieldTypes(t), e)
  <2> HIDE DEF e
  <2> QED BY <1>2, TagAppend
<1>4. AddFieldIndex(GetFieldTypes(t), e) = Append(GetFieldTypes(t), f)
  BY AddedFields
<1>5. /\ pp \in Seq(PlaceStep) /\ Len(pp) = Len(p) + 1
      /\ \A j \in 1..Len(p) : pp[j] = p[j]
      /\ pp[Len(p) + 1] = f
      /\ EndsWith(pp, m)
      /\ Cast(pp) = Append(Cast(p), f)
  BY PlaceAppend
<1>6. GoodStep(caller, f)
  BY DEF GoodStep
<1>7. b \in Nexts
  BY DEF Behind, Nexts
<1>8. Len(p) \in Nat
  BY LenProperties
<1> HIDE DEF e, f, pp, b
<1>9. tt \in Seq(TagElement) /\ ToSet(tt) = ToSet(t) \union {e}
  BY <1>2, AppendElements
<1> HIDE DEF tt
<1>10. /\ \A j \in 1..Len(p) : GoodStep(caller, p[j])
       /\ GetFieldTypes(t) = Cast(p) /\ BadTag \notin ToSet(t)
  BY DEF WalkFacts
<1>11. \A j \in 1..Len(pp) : GoodStep(caller, pp[j])
  BY <1>5, <1>6, <1>8, <1>10
<1>12. WalkFacts(caller, "OK", b, tt, pp)
  BY <1>2, <1>3, <1>4, <1>5, <1>9, <1>10, <1>11 DEF WalkFacts, b
<1>13. v = WalkOf("OK", d, b, tt, pp) /\ Len(pp) <= k + 1
  BY <1>1, <1>5, <1>8 DEF e, f, tt, pp, b
<1> QED BY <1>5, <1>7, <1>9, <1>12, <1>13 DEF WalkGood

\* An index or a key more.
LEMMA TakesGood ==
    ASSUME NEW caller, NEW n, NEW t \in Seq(TagElement), NEW p \in Seq(PlaceStep), NEW v,
           NEW k \in Nat, Len(p) <= k, WalkFacts(caller, "OK", n, t, p),
           NEW m \in Number, EndsWith(p, m),
           NEW e \in TagElement, e # BadTag, NEW y \in Element(Int), GoodStep(caller, <<m, y>>),
           AddFieldIndex(GetFieldTypes(t), e) = Extended(GetFieldTypes(t), MapKeyOfTag(y)),
           NEW d \in BOOLEAN, v = WalkOf("OK", d, "field", Append(t, e), Extended(p, y))
    PROVE  WalkGood(caller, v, k + 1)
<1> DEFINE tt == Append(t, e)
           pp == Extended(p, y)
           f == <<m, y>>
<1>1. GetFieldTypes(tt) = AddFieldIndex(GetFieldTypes(t), e)
  BY TagAppend
<1>2. /\ pp \in Seq(PlaceStep) /\ Len(pp) = Len(p)
      /\ \A j \in 1..(Len(p) - 1) : pp[j] = p[j]
      /\ pp[Len(p)] = f
      /\ Cast(pp) = Extended(Cast(p), MapKeyOfTag(y))
  BY PlaceExtend
<1>3. Len(p) \in Nat
  BY LenProperties
<1>4. tt \in Seq(TagElement) /\ ToSet(tt) = ToSet(t) \union {e}
  BY AppendElements
<1>5. GoodStep(caller, f)
  OBVIOUS
<1> HIDE DEF tt, pp, f
<1>6. /\ \A j \in 1..Len(p) : GoodStep(caller, p[j])
      /\ GetFieldTypes(t) = Cast(p) /\ BadTag \notin ToSet(t)
  BY DEF WalkFacts
<1>7. ASSUME NEW j \in 1..Len(pp)
      PROVE  GoodStep(caller, pp[j])
  <2>1. CASE j = Len(p)
    BY <1>2, <1>5, <2>1
  <2>2. CASE j # Len(p)
    <3>1. j \in 1..(Len(p) - 1) /\ j \in 1..Len(p)
      BY <1>2, <1>3, <2>2
    <3> QED BY <1>2, <1>6, <3>1
  <2> QED BY <2>1, <2>2
<1>8. WalkFacts(caller, "OK", "field", tt, pp)
  <2>1. BadTag \notin ToSet(tt)
    BY <1>4, <1>6
  <2>2. GetFieldTypes(tt) = Cast(pp)
    BY <1>1, <1>2, <1>6 DEF tt
  <2> QED BY <1>7, <2>1, <2>2 DEF WalkFacts
<1>9. v = WalkOf("OK", d, "field", tt, pp) /\ Len(pp) <= k + 1
  BY <1>2, <1>3 DEF tt, pp
<1> QED BY <1>2, <1>4, <1>8, <1>9 DEF WalkGood, Nexts

\* A walk stays good.
LEMMA RoundGood ==
    ASSUME NEW caller \in Writers, keyType \in AllKeyTypes, NEW k \in Nat, NEW w,
           WalkGood(caller, w, k), NEW x \in Element(Ints(caller))
    PROVE  WalkGood(caller, WalkOn(caller, w, x), k + 1)
<1> DEFINE v == WalkOn(caller, w, x)
<1>1. PICK s \in {"OK", "error", "crash"}, d \in BOOLEAN, n \in Nexts,
           t \in Seq(TagElement), p \in Seq(PlaceStep) :
           w = WalkOf(s, d, n, t, p) /\ Len(p) <= k /\ WalkFacts(caller, s, n, t, p)
  BY DEF WalkGood
<1>2. Len(p) \in Nat /\ Len(p) <= k + 1
  BY <1>1, LenProperties
<1>3. CASE s # "OK"
  <2>1. v = w
    BY <1>1, <1>3, Selectors DEF WalkOn
  <2>2. WalkGood(caller, w, k + 1)
    BY <1>1, <1>2 DEF WalkGood
  <2> QED BY <2>1, <2>2
<1>4. CASE s = "OK"
  <2>1. w = WalkOf("OK", d, n, t, p) /\ WalkFacts(caller, "OK", n, t, p)
    BY <1>1, <1>4
  <2>2. /\ \A j \in 1..Len(p) : GoodStep(caller, p[j])
        /\ n # "field" => \E m \in Number : EndsWith(p, m) /\ Behind(m) = n
        /\ GetFieldTypes(t) = Cast(p) /\ BadTag \notin ToSet(t)
    BY <2>1 DEF WalkFacts
  <2>3. ASSUME Stops(t, p, v)
        PROVE  WalkGood(caller, v, k + 1)
    <3>1. PICK how \in {"error", "crash"}, e \in BOOLEAN, o \in Nexts : v = WalkOf(how, e, o, t, p)
      BY <2>3 DEF Stops
    <3>2. WalkFacts(caller, how, o, t, p)
      BY <2>2 DEF WalkFacts
    <3> HIDE DEF v
    <3>3. how \in {"OK", "error", "crash"}
      OBVIOUS
    <3> QED BY <1>2, <3>1, <3>2, <3>3 DEF WalkGood
  <2>4. CASE n = "field"
    <3>1. Stops(t, p, v) \/ Enters(t, p, v)
      BY <2>1, <2>4, FieldRound
    <3> HIDE DEF v
    <3> QED BY <1>1, <2>1, <2>3, <3>1, EntersGood DEF v
  <2>5. CASE n = "mapKey"
    <3>1. Stops(t, p, v) \/ StopsAtKey(t, p, v) \/ TakesKey(caller, t, p, v)
      BY <2>1, <2>5, MapKeyRound
    <3>2. ASSUME StopsAtKey(t, p, v)
          PROVE  WalkGood(caller, v, k + 1)
      <4> DEFINE tt == Append(t, BadTag)
      <4>1. PICK e \in BOOLEAN : v = WalkOf("error", e, "field", tt, p)
        BY <3>2 DEF StopsAtKey
      <4>2. BadTag \in TagElement
        BY DEF TagElement
      <4>3. tt \in Seq(TagElement) /\ ToSet(tt) = ToSet(t) \union {BadTag}
        BY <4>2, AppendElements
      <4> HIDE DEF v, tt
      <4>4. WalkFacts(caller, "error", "field", tt, p)
        BY <2>2, <4>3 DEF WalkFacts
      <4> QED BY <1>2, <4>1, <4>3, <4>4 DEF WalkGood, Nexts
    <3>3. ASSUME TakesKey(caller, t, p, v)
          PROVE  WalkGood(caller, v, k + 1)
      <4>1. PICK y \in Element(Int), e \in BOOLEAN :
                /\ GoodKey(caller, y)
                /\ v = WalkOf("OK", e, "field", Append(t, <<"key", y>>), Extended(p, y))
        BY <3>3 DEF TakesKey
      <4>2. PICK m \in Number : EndsWith(p, m) /\ Behind(m) = "mapKey"
        BY <2>2, <2>5
      <4>3. GoodStep(caller, <<m, y>>)
        BY <4>1, <4>2 DEF GoodStep
      <4> DEFINE a == <<"key", y>>
      <4>4. a \in TagElement /\ a # BadTag
        BY FieldTagsAssumption DEF TagElement, BadTag
      <4>5. AddFieldIndex(GetFieldTypes(t), a) = Extended(GetFieldTypes(t), MapKeyOfTag(y))
        BY AddedFields
      <4>6. v = WalkOf("OK", e, "field", Append(t, a), Extended(p, y))
        BY <4>1
      <4> HIDE DEF v, a
      <4> QED BY <1>1, <2>1, <4>2, <4>3, <4>4, <4>5, <4>6, TakesGood
    <3> QED BY <2>3, <3>1, <3>2, <3>3
  <2>6. CASE n = "listIndex"
    <3>1. Stops(t, p, v) \/ TakesIndex(t, p, v)
      BY <2>1, <2>6, IndexRound
    <3>2. ASSUME TakesIndex(t, p, v)
          PROVE  WalkGood(caller, v, k + 1)
      <4>1. PICK i \in Int, e \in BOOLEAN :
                v = WalkOf("OK", e, "field", Append(t, <<"index", WireIndex(i)>>),
                           Extended(p, <<"int", i>>))
        BY <3>2 DEF TakesIndex
      <4>2. PICK m \in Number : EndsWith(p, m) /\ Behind(m) = "listIndex"
        BY <2>2, <2>6
      <4> DEFINE a == <<"index", WireIndex(i)>>
                 y == <<"int", i>>
      <4>3. GoodStep(caller, <<m, y>>) /\ y \in Element(Int)
        BY <4>2, Pairs DEF GoodStep
      <4>4. a \in TagElement /\ a # BadTag
        <5>1. WireIndex(i) \in 0..(2^LongBits - 1)
          BY Casts DEF WireIndex
        <5> DEFINE b == WireIndex(i)
        <5> HIDE DEF b
        <5>2. <<"index", b>> \in {"index"} \X (0..(2^LongBits - 1)) /\ <<"index", b>> # BadTag
          BY <5>1 DEF BadTag, b
        <5> QED BY <5>2 DEF TagElement, b
      <4>5. AddFieldIndex(GetFieldTypes(t), a) = Extended(GetFieldTypes(t), MapKeyOfTag(y))
        BY AddedFields
      <4>6. v = WalkOf("OK", e, "field", Append(t, a), Extended(p, y))
        BY <4>1
      <4> HIDE DEF v, a, y
      <4> QED BY <1>1, <2>1, <4>2, <4>3, <4>4, <4>5, <4>6, TakesGood
    <3> QED BY <2>3, <3>1, <3>2
  <2> QED BY <2>4, <2>5, <2>6 DEF Nexts
<1> QED BY <1>3, <1>4

\* A walk that has ended is good.
LEMMA WalkFieldsGood ==
    ASSUME NEW caller \in Writers, keyType \in AllKeyTypes,
           NEW fields \in Seq(Element(Ints(caller)))
    PROVE  WalkGood(caller, WalkFields(caller, fields), Len(fields))
<1> DEFINE n == Len(fields)
<1>1. n \in Nat /\ caller # "tag" /\ \A i \in 1..n : fields[i] \in Element(Ints(caller))
  BY LenProperties, ElementOfSeq DEF Writers
<1>2. PICK f : Loops(f, caller, fields, WalkStart, n) /\ WalkFields(caller, fields) = f[n]
  BY <1>1, WalkLoops DEF WalksLoop
<1> HIDE DEF n
<1>3. f[0] = WalkStart /\ \A k \in 0..(n - 1) : f[k + 1] = WalkOn(caller, f[k], fields[k + 1])
  BY <1>1, <1>2, LoopRounds DEF Round
<1> DEFINE P == {k \in Nat : k <= n => WalkGood(caller, f[k], k)}
<1>4. 0 \in P
  BY <1>3, StartGood
<1>5. ASSUME NEW k \in Nat, k \in P
      PROVE  k + 1 \in P
  <2> SUFFICES ASSUME k + 1 <= n
               PROVE  WalkGood(caller, f[k + 1], k + 1)
    OBVIOUS
  <2>1. k \in 0..(n - 1) /\ k + 1 \in 1..n /\ WalkGood(caller, f[k], k)
    BY <1>1, <1>5
  <2>2. f[k + 1] = WalkOn(caller, f[k], fields[k + 1])
    BY <1>3, <2>1
  <2> DEFINE w == f[k]
             x == fields[k + 1]
  <2>3. x \in Element(Ints(caller)) /\ WalkGood(caller, w, k)
    BY <1>1, <2>1
  <2> HIDE DEF w, x
  <2>4. WalkGood(caller, WalkOn(caller, w, x), k + 1)
    BY <2>3, RoundGood
  <2> QED BY <2>2, <2>4 DEF w, x
<1> HIDE DEF P
<1>6. Nat \subseteq P
  BY <1>4, <1>5, SetInduction
<1>7. WalkGood(caller, f[n], n)
  BY <1>1, <1>6 DEF P
<1> QED BY <1>2, <1>7 DEF n

------------------------------------------------------------------------------
(* Two walks along one path *)

\* What C++ takes for an element is one int, bool or key at most.
LEMMA OneMeaning ==
    ASSUME NEW x \in Element(Int32)
    PROVE  /\ \A m, n \in FieldInt(x) : m = n
           /\ \A k, l \in KeyOf(x) : k = l
<1>1. \A m, n \in FieldInt(x) : m = n
  <2>1. CASE x[1] = "str"
    BY <2>1, PrintedTexts DEF FieldInt
  <2>2. CASE x[1] = "int" \/ x[1] = "bool"
    BY <2>2 DEF FieldInt
  <2> QED BY <2>1, <2>2, Elements
<1>2. \A b, c \in FieldBool(x) : b = c
  <2>1. CASE x[1] = "str"
    BY <2>1 DEF FieldBool, BoolString
  <2>2. CASE x[1] = "int" \/ x[1] = "bool"
    BY <2>2 DEF FieldBool
  <2> QED BY <2>1, <2>2, Elements
<1>3. ASSUME NEW k \in KeyOf(x), NEW l \in KeyOf(x)
      PROVE  k = l
  <2>1. CASE keyType = "bool"
    <3>1. PICK b \in FieldBool(x) : k = <<"bool", b>>
      BY <2>1 DEF KeyOf
    <3>2. PICK c \in FieldBool(x) : l = <<"bool", c>>
      BY <2>1 DEF KeyOf
    <3> QED BY <1>2, <3>1, <3>2
  <2>2. CASE keyType = "string"
    BY <2>2 DEF KeyOf
  <2>3. CASE keyType \notin {"bool", "string"}
    <3>1. PICK i \in FieldInt(x) : k = <<"int", Converted(i)>>
      BY <2>3 DEF KeyOf
    <3>2. PICK j \in FieldInt(x) : l = <<"int", Converted(j)>>
      BY <2>3 DEF KeyOf
    <3> QED BY <1>1, <3>1, <3>2
  <2> QED BY <2>1, <2>2, <2>3
<1> QED BY <1>1, <1>3

\* A walk that has failed is not "OK", whatever comes next.
LEMMA FailedStatus ==
    ASSUME NEW s, NEW d, NEW n, NEW t, NEW p, NEW w, w = WalkOf(s, d, n, t, p),
           NEW e \in {"error", "crash"}, NEW o
    PROVE  Failed(w, e).status # "OK" /\ [Failed(w, e) EXCEPT !.next = o].status # "OK"
<1> DEFINE u == Failed(w, e)
           v == [u EXCEPT !.next = o]
<1>1. u = WalkOf(e, d, n, t, p)
  BY FailedWalk
<1> HIDE DEF u
<1>2. v = WalkOf(e, d, o, t, p)
  BY <1>1, NextChanges
<1> HIDE DEF v
<1>3. u.status = e /\ v.status = e
  BY <1>1, <1>2, Selectors
<1> QED BY <1>3 DEF u, v

\* From the same walk, the two writers go on to the same walk if both do.
LEMMA SameRound ==
    ASSUME NEW s, NEW d \in BOOLEAN, NEW n \in Nexts, NEW t, NEW p, NEW w, w = WalkOf(s, d, n, t, p),
           NEW x \in Element(Int32),
           WalkOn("AddFieldTag", w, x).status = "OK",
           WalkOn("get_field_tag", w, x).status = "OK"
    PROVE  WalkOn("AddFieldTag", w, x) = WalkOn("get_field_tag", w, x)
<1>1. w.status = s /\ w.desc = d /\ w.next = n
  BY Selectors
<1>2. CASE s # "OK"
  BY <1>1, <1>2 DEF WalkOn
<1>3. CASE s = "OK" /\ n = "field"
  <2>1. \A caller : WalkOn(caller, w, x) = WalkField(caller, w, x)
    BY <1>1, <1>3 DEF WalkOn
  <2>2. ASSUME d = TRUE, FindField("AddFieldTag", x) # {}
        PROVE  FindField("get_field_tag", x) = FindField("AddFieldTag", x)
    <3>1. x[1] # "bool"
      BY <2>2 DEF FindField
    <3> QED BY <3>1, Elements DEF FindField
  <2>3. CASE d = FALSE
    <3>1. WalkField("AddFieldTag", w, x) = Failed(w, BelowScalar("AddFieldTag", x))
      BY <1>1, <2>3 DEF WalkField
    <3>2. BelowScalar("AddFieldTag", x) \in {"error", "crash"}
      BY DEF BelowScalar
    <3> QED BY <2>1, <3>1, <3>2, FailedStatus
  <2>4. CASE d = TRUE /\ FindField("AddFieldTag", x) = {}
    <3>1. WalkField("AddFieldTag", w, x) = Failed(w, "error")
      BY <1>1, <2>4 DEF WalkField
    <3> QED BY <2>1, <3>1, FailedStatus
  <2>5. CASE d = TRUE /\ FindField("AddFieldTag", x) # {}
    <3> DEFINE m == The(FindField("AddFieldTag", x))
               v == [TagField(w, m) EXCEPT !.next = Behind(m), !.desc = HasFields(m)]
    <3>1. WalkField("AddFieldTag", w, x) = v
      BY <1>1, <2>5 DEF WalkField, FieldCallback
    <3>2. WalkField("get_field_tag", w, x) = v
      BY <1>1, <2>2, <2>5 DEF WalkField, FieldCallback
    <3> QED BY <2>1, <3>1, <3>2
  <2> QED BY <2>3, <2>4, <2>5
<1>4. CASE s = "OK" /\ n = "mapKey"
  <2>1. /\ WalkOn("AddFieldTag", w, x) = [AddMapKey(w, x) EXCEPT !.next = "field"]
        /\ WalkOn("get_field_tag", w, x) = [AddMapKeyPy(w, x) EXCEPT !.next = "field"]
    BY <1>1, <1>4 DEF WalkOn, MapKeyCallback
  <2>2. MapKey(x) # {}
    <3> SUFFICES ASSUME MapKey(x) = {} PROVE FALSE
      OBVIOUS
    <3> DEFINE y == [w EXCEPT !.tag = Append(@, BadTag)]
    <3>1. AddMapKey(w, x) = Failed(y, "error")
      BY DEF AddMapKey, BadTag
    <3>2. y = WalkOf(s, d, n, Append(t, BadTag), p)
      BY DEF WalkOf
    <3> HIDE DEF y
    <3>3. [Failed(y, "error") EXCEPT !.next = "field"].status # "OK"
      BY <3>2, FailedStatus
    <3> QED BY <2>1, <3>1, <3>3
  <2>3. MapKeyProto(x) # {}
    <3> SUFFICES ASSUME MapKeyProto(x) = {} PROVE FALSE
      OBVIOUS
    <3>1. AddMapKeyPy(w, x) = Failed(w, "error")
      BY DEF AddMapKeyPy
    <3>2. [Failed(w, "error") EXCEPT !.next = "field"].status # "OK"
      BY FailedStatus
    <3> QED BY <2>1, <3>1, <3>2
  <2>4. MapKey(x) = KeyOf(x) /\ MapKeyProto(x) \subseteq KeyOf(x)
    BY <2>2 DEF MapKey, MapKeyProto
  <2>5. The(MapKey(x)) = The(MapKeyProto(x))
    BY <2>2, <2>3, <2>4, TheMember, OneMeaning
  <2>6. AddMapKey(w, x) = AddMapKeyPy(w, x)
    BY <2>2, <2>3, <2>5 DEF AddMapKey, AddMapKeyPy
  <2> QED BY <2>1, <2>6
<1>5. CASE s = "OK" /\ n = "listIndex"
  <2>1. /\ WalkOn("AddFieldTag", w, x) = [AddIndex(w, x) EXCEPT !.next = "field"]
        /\ WalkOn("get_field_tag", w, x) = [AddIndexPy(w, x) EXCEPT !.next = "field"]
    BY <1>1, <1>5 DEF WalkOn, ListIndexCallback
  <2> DEFINE u == TagIndex(w, The(FieldInt(x)))
  <2>2. AddIndex(w, x) = Failed(w, "error") \/ AddIndex(w, x) = u
    BY DEF AddIndex
  <2>3. AddIndexPy(w, x) = Failed(w, "error") \/ AddIndexPy(w, x) = u
    BY DEF AddIndexPy
  <2>4. [Failed(w, "error") EXCEPT !.next = "field"].status # "OK"
    BY FailedStatus
  <2> QED BY <2>1, <2>2, <2>3, <2>4
<1> QED BY <1>2, <1>3, <1>4, <1>5 DEF Nexts

\* A walk that is "OK" after an element was so before.
LEMMA RoundOK ==
    ASSUME NEW caller, NEW w, NEW x, WalkOn(caller, w, x).status = "OK"
    PROVE  w.status = "OK"
<1>1. w.status # "OK" => WalkOn(caller, w, x) = w
  BY DEF WalkOn
<1> QED BY <1>1

\* The two writers' walks along a path of C++, if both end well, are the same.
LEMMA SameWalks ==
    ASSUME keyType \in AllKeyTypes, NEW fields \in Seq(Element(Int32)),
           AddFieldTag(fields).status = "OK", GetFieldTag(fields).status = "OK"
    PROVE  AddFieldTag(fields) = GetFieldTag(fields)
<1> DEFINE n == Len(fields)
<1>1. n \in Nat /\ \A i \in 1..n : fields[i] \in Element(Int32)
  BY LenProperties, ElementOfSeq
<1>2. PICK f : Loops(f, "AddFieldTag", fields, WalkStart, n) /\ AddFieldTag(fields) = f[n]
  BY <1>1, WalkLoops DEF WalksLoop, AddFieldTag
<1>3. PICK g : Loops(g, "get_field_tag", fields, WalkStart, n) /\ GetFieldTag(fields) = g[n]
  BY <1>1, WalkLoops DEF WalksLoop, GetFieldTag
<1> HIDE DEF n
<1>4. f[0] = WalkStart /\ \A k \in 0..(n - 1) : f[k + 1] = WalkOn("AddFieldTag", f[k], fields[k + 1])
  BY <1>1, <1>2, LoopRounds DEF Round
<1>5. g[0] = WalkStart /\ \A k \in 0..(n - 1) : g[k + 1] = WalkOn("get_field_tag", g[k], fields[k + 1])
  BY <1>1, <1>3, LoopRounds DEF Round
<1> DEFINE Agree(k) == f[k].status = "OK" /\ g[k].status = "OK" => f[k] = g[k]
           P == {k \in Nat : k <= n => WalkGood("AddFieldTag", f[k], k) /\ Agree(k)}
<1>6. 0 \in P
  BY <1>4, <1>5, StartGood
<1>7. ASSUME NEW k \in Nat, k \in P
      PROVE  k + 1 \in P
  <2> SUFFICES ASSUME k + 1 <= n
               PROVE  WalkGood("AddFieldTag", f[k + 1], k + 1) /\ Agree(k + 1)
    OBVIOUS
  <2> DEFINE w == f[k]
             v == g[k]
             x == fields[k + 1]
  <2>1. /\ k \in 0..(n - 1) /\ k + 1 \in 1..n /\ WalkGood("AddFieldTag", w, k)
        /\ w.status = "OK" /\ v.status = "OK" => w = v
    BY <1>1, <1>7
  <2>2. f[k + 1] = WalkOn("AddFieldTag", w, x) /\ g[k + 1] = WalkOn("get_field_tag", v, x)
    BY <1>4, <1>5, <2>1
  <2>3. x \in Element(Int32) /\ x \in Element(Ints("AddFieldTag"))
    BY <1>1, <2>1 DEF Ints
  <2> HIDE DEF w, v, x
  <2>4. WalkGood("AddFieldTag", WalkOn("AddFieldTag", w, x), k + 1)
    BY <2>1, <2>3, RoundGood DEF Writers
  <2>5. ASSUME WalkOn("AddFieldTag", w, x).status = "OK", WalkOn("get_field_tag", v, x).status = "OK"
        PROVE  WalkOn("AddFieldTag", w, x) = WalkOn("get_field_tag", v, x)
    <3>1. w = v
      BY <2>1, <2>5, RoundOK
    <3>2. PICK s \in {"OK", "error", "crash"}, d \in BOOLEAN, m \in Nexts,
               t \in Seq(TagElement), p \in Seq(PlaceStep) : w = WalkOf(s, d, m, t, p)
      BY <2>1 DEF WalkGood
    <3> QED BY <2>3, <2>5, <3>1, <3>2, SameRound
  <2> QED BY <2>2, <2>4, <2>5
<1> HIDE DEF P
<1>8. Nat \subseteq P
  BY <1>6, <1>7, SetInduction
<1>9. Agree(n)
  BY <1>1, <1>8 DEF P
<1> QED BY <1>2, <1>3, <1>9

\* Two walks that are at the same place; the tags may differ.
SamePlace(w, v) ==
    \E d \in BOOLEAN, n \in Nexts : \E t, tt, p :
        w = WalkOf("OK", d, n, t, p) /\ v = WalkOf("OK", d, n, tt, p)

\* The place of a walk is a field of it.
LEMMA PlaceChanges ==
    ASSUME NEW s, NEW d, NEW n, NEW t, NEW p, NEW w, w = WalkOf(s, d, n, t, p), NEW e
    PROVE  [w EXCEPT !.place = e] = WalkOf(s, d, n, t, e)
BY DEF WalkOf

\* What was found, and what was written, with a new field, key or index.
LEMMA NextSamePlace ==
    ASSUME NEW d \in BOOLEAN, NEW n \in Nexts, NEW t, NEW tt, NEW p, NEW w, NEW v,
           w = WalkOf("OK", d, n, t, p), v = WalkOf("OK", d, n, tt, p)
    PROVE  SamePlace([w EXCEPT !.next = "field"], [v EXCEPT !.next = "field"])
<1> DEFINE a == [w EXCEPT !.next = "field"]
           b == [v EXCEPT !.next = "field"]
<1>1. a = WalkOf("OK", d, "field", t, p) /\ b = WalkOf("OK", d, "field", tt, p)
  BY NextChanges
<1> HIDE DEF a, b
<1>2. SamePlace(a, b)
  BY <1>1 DEF SamePlace, Nexts
<1> QED BY <1>2 DEF a, b

\* Where GetField finds the next field, key or index, AddFieldTag writes the same.
LEMMA FoundRound ==
    ASSUME keyType # "sint32", NEW w, NEW v, SamePlace(w, v), NEW x \in Element(Int32),
           WalkOn("GetField", w, x).status = "OK"
    PROVE  SamePlace(WalkOn("GetField", w, x), WalkOn("AddFieldTag", v, x))
<1>0. PICK d \in BOOLEAN, n \in Nexts :
          \E t, tt, p : w = WalkOf("OK", d, n, t, p) /\ v = WalkOf("OK", d, n, tt, p)
  BY DEF SamePlace
<1>1. PICK t, tt, p : w = WalkOf("OK", d, n, t, p) /\ v = WalkOf("OK", d, n, tt, p)
  BY <1>0
<1>2. /\ w.status = "OK" /\ w.desc = d /\ w.next = n /\ w.place = p
      /\ v.status = "OK" /\ v.desc = d /\ v.next = n /\ v.place = p
  BY <1>1, Selectors
<1>3. CASE n = "field"
  <2>1. /\ WalkOn("GetField", w, x) = WalkField("GetField", w, x)
        /\ WalkOn("AddFieldTag", v, x) = WalkField("AddFieldTag", v, x)
    BY <1>2, <1>3 DEF WalkOn
  <2>2. FindField("GetField", x) = FindField("AddFieldTag", x)
    BY Elements DEF FindField
  <2>3. CASE d = FALSE
    <3>1. WalkField("GetField", w, x) = Failed(w, BelowScalar("GetField", x))
      BY <1>2, <2>3 DEF WalkField
    <3>2. BelowScalar("GetField", x) \in {"error", "crash"}
      BY DEF BelowScalar
    <3> QED BY <1>1, <2>1, <3>1, <3>2, FailedStatus
  <2>4. CASE d = TRUE /\ FindField("GetField", x) = {}
    <3>1. WalkField("GetField", w, x) = Failed(w, "error")
      BY <1>2, <2>4 DEF WalkField
    <3> QED BY <1>1, <2>1, <3>1, FailedStatus
  <2>5. CASE d = TRUE /\ FindField("GetField", x) # {}
    <3> DEFINE m == The(FindField("GetField", x))
               a == EnterField(w, m)
               b == TagField(v, m)
               h == HasFields(m)
               o == Behind(m)
               aa == WithNext(a, o, h)
               bb == WithNext(b, o, h)
    <3>1. WalkField("GetField", w, x) = aa
      BY <1>2, <2>5 DEF WalkField, FieldCallback, WithNext
    <3>2. WalkField("AddFieldTag", v, x) = bb
      BY <1>2, <2>2, <2>5 DEF WalkField, FieldCallback, WithNext
    <3>3. h \in BOOLEAN /\ o \in Nexts
      BY DEF HasFields, Behind, Nexts
    <3> DEFINE q == Append(p, <<m>>)
    <3>4. b = WalkOf("OK", d, n, Append(tt, <<"field", m>>), q)
      BY <1>1, TagFieldWalk
    <3>5. a = Failed(w, "crash") \/ a = [w EXCEPT !.place = q]
      BY <1>2 DEF EnterField
    <3> HIDE DEF q, h, o
    <3>6. CASE a = Failed(w, "crash")
      <4>1. a = WalkOf("crash", d, n, t, p)
        BY <1>1, <3>6, FailedWalk
      <4> HIDE DEF a
      <4>2. aa = WalkOf("crash", h, o, t, p)
        BY <4>1, DescChanges
      <4> HIDE DEF aa
      <4>3. aa.status = "crash"
        BY <4>2, Selectors
      <4> QED BY <2>1, <3>1, <4>3
    <3>7. CASE a = [w EXCEPT !.place = q]
      <4>1. a = WalkOf("OK", d, n, t, q)
        BY <1>1, <3>7, PlaceChanges
      <4> HIDE DEF a, b
      <4>2. aa = WalkOf("OK", h, o, t, q)
        BY <4>1, DescChanges
      <4>3. bb = WalkOf("OK", h, o, Append(tt, <<"field", m>>), q)
        BY <3>4, DescChanges
      <4> HIDE DEF aa, bb
      <4>4. SamePlace(aa, bb)
        BY <3>3, <4>2, <4>3 DEF SamePlace
      <4> QED BY <2>1, <3>1, <3>2, <4>4
    <3> QED BY <3>5, <3>6, <3>7
  <2> QED BY <2>3, <2>4, <2>5
<1>4. CASE n = "mapKey"
  <2> DEFINE a == FindKey(w, x)
             b == AddMapKey(v, x)
  <2>1. /\ WalkOn("GetField", w, x) = [a EXCEPT !.next = "field"]
        /\ WalkOn("AddFieldTag", v, x) = [b EXCEPT !.next = "field"]
    BY <1>2, <1>4 DEF WalkOn, MapKeyCallback
  <2>2. FindMapKey(message.keys, x) # {}
    <3> SUFFICES ASSUME FindMapKey(message.keys, x) = {} PROVE FALSE
      OBVIOUS
    <3>1. a = Failed(w, "error")
      BY DEF FindKey
    <3>2. [Failed(w, "error") EXCEPT !.next = "field"].status # "OK"
      BY <1>1, FailedStatus
    <3> QED BY <2>1, <3>1, <3>2
  <2>3. FindMapKey(message.keys, x) \subseteq KeyOf(x) /\ MapKey(x) = KeyOf(x)
    BY DEF FindMapKey, MapKey
  <2> DEFINE k == The(MapKey(x))
  <2>4. The(FindMapKey(message.keys, x)) = k /\ MapKey(x) # {}
    BY <2>2, <2>3, TheMember, OneMeaning
  <2> DEFINE q == Extended(p, k)
  <2>5. a = [w EXCEPT !.place = q]
    BY <1>2, <2>2, <2>4 DEF FindKey
  <2>6. b = TagKey(v, k)
    BY <2>4 DEF AddMapKey
  <2> HIDE DEF a, b, k
  <2>7. b = WalkOf("OK", d, n, Append(tt, <<"key", k>>), q)
    BY <1>1, <2>6, TagKeyWalk
  <2> HIDE DEF q
  <2>8. a = WalkOf("OK", d, n, t, q)
    BY <1>1, <2>5, PlaceChanges
  <2> QED BY <2>1, <2>7, <2>8, NextSamePlace
<1>5. CASE n = "listIndex"
  <2> DEFINE a == FindIndex(w, x)
             b == AddIndex(v, x)
             i == The(FieldInt(x))
             q == Extended(p, <<"int", i>>)
  <2>1. /\ WalkOn("GetField", w, x) = [a EXCEPT !.next = "field"]
        /\ WalkOn("AddFieldTag", v, x) = [b EXCEPT !.next = "field"]
    BY <1>2, <1>5 DEF WalkOn, ListIndexCallback
  <2>2. \E j \in FieldInt(x) : j < message.size
    <3> SUFFICES ASSUME ~\E j \in FieldInt(x) : j < message.size PROVE FALSE
      OBVIOUS
    <3>1. a = Failed(w, "error")
      BY DEF FindIndex
    <3>2. [Failed(w, "error") EXCEPT !.next = "field"].status # "OK"
      BY <1>1, FailedStatus
    <3> QED BY <2>1, <3>1, <3>2
  <2>3. a = [w EXCEPT !.place = q]
    BY <1>2, <2>2 DEF FindIndex
  <2>4. b = TagIndex(v, i)
    BY <2>2 DEF AddIndex
  <2> HIDE DEF a, b, i
  <2>5. b = WalkOf("OK", d, n, Append(tt, <<"index", WireIndex(i)>>), q)
    BY <1>1, <2>4, TagIndexWalk
  <2> HIDE DEF q
  <2>6. a = WalkOf("OK", d, n, t, q)
    BY <1>1, <2>3, PlaceChanges
  <2> QED BY <2>1, <2>5, <2>6, NextSamePlace
<1> QED BY <1>3, <1>4, <1>5 DEF Nexts

\* What GetField finds, AddFieldTag writes a tag for.
LEMMA FoundWalks ==
    ASSUME keyType # "sint32", NEW fields \in Seq(Element(Int32)), GetField(fields).status = "OK"
    PROVE  /\ AddFieldTag(fields).status = "OK"
           /\ AddFieldTag(fields).place = GetField(fields).place
<1> DEFINE n == Len(fields)
<1>1. n \in Nat /\ \A i \in 1..n : fields[i] \in Element(Int32)
  BY LenProperties, ElementOfSeq
<1>2. PICK f : Loops(f, "GetField", fields, WalkStart, n) /\ GetField(fields) = f[n]
  BY <1>1, WalkLoops DEF WalksLoop, GetField
<1>3. PICK g : Loops(g, "AddFieldTag", fields, WalkStart, n) /\ AddFieldTag(fields) = g[n]
  BY <1>1, WalkLoops DEF WalksLoop, AddFieldTag
<1> HIDE DEF n
<1>4. f[0] = WalkStart /\ \A k \in 0..(n - 1) : f[k + 1] = WalkOn("GetField", f[k], fields[k + 1])
  BY <1>1, <1>2, LoopRounds DEF Round
<1>5. g[0] = WalkStart /\ \A k \in 0..(n - 1) : g[k + 1] = WalkOn("AddFieldTag", g[k], fields[k + 1])
  BY <1>1, <1>3, LoopRounds DEF Round
<1> DEFINE P == {k \in Nat : k <= n => (f[k].status = "OK" => SamePlace(f[k], g[k]))}
<1>6. 0 \in P
  <2>1. WalkStart = WalkOf("OK", TRUE, "field", <<>>, <<>>)
    BY DEF WalkStart, WalkOf
  <2>2. TRUE \in BOOLEAN /\ "field" \in Nexts
    BY DEF Nexts
  <2>3. SamePlace(WalkStart, WalkStart)
    BY <2>1, <2>2, Zenon DEF SamePlace
  <2> QED BY <1>4, <1>5, <2>3
<1>7. ASSUME NEW k \in Nat, k \in P
      PROVE  k + 1 \in P
  <2> SUFFICES ASSUME k + 1 <= n, f[k + 1].status = "OK"
               PROVE  SamePlace(f[k + 1], g[k + 1])
    OBVIOUS
  <2> DEFINE w == f[k]
             v == g[k]
             x == fields[k + 1]
  <2>1. /\ k \in 0..(n - 1) /\ k + 1 \in 1..n
        /\ w.status = "OK" => SamePlace(w, v)
    BY <1>1, <1>7
  <2>2. f[k + 1] = WalkOn("GetField", w, x) /\ g[k + 1] = WalkOn("AddFieldTag", v, x)
    BY <1>4, <1>5, <2>1
  <2>3. x \in Element(Int32)
    BY <1>1, <2>1
  <2> HIDE DEF w, v, x
  <2>4. WalkOn("GetField", w, x).status = "OK"
    BY <2>2
  <2>5. SamePlace(w, v)
    BY <2>1, <2>4, RoundOK
  <2> QED BY <2>2, <2>3, <2>4, <2>5, FoundRound
<1> HIDE DEF P
<1>8. Nat \subseteq P
  BY <1>6, <1>7, SetInduction
<1>9. SamePlace(f[n], g[n])
  BY <1>1, <1>2, <1>8 DEF P
<1>10. PICK d \in BOOLEAN, o \in Nexts :
           \E t, tt, p : f[n] = WalkOf("OK", d, o, t, p) /\ g[n] = WalkOf("OK", d, o, tt, p)
  BY <1>9 DEF SamePlace
<1>11. PICK t, tt, p : f[n] = WalkOf("OK", d, o, t, p) /\ g[n] = WalkOf("OK", d, o, tt, p)
  BY <1>10
<1>12. g[n].status = "OK" /\ g[n].place = p /\ f[n].place = p
  <2> DEFINE w == f[n]
             v == g[n]
  <2>1. w = WalkOf("OK", d, o, t, p) /\ v = WalkOf("OK", d, o, tt, p)
    BY <1>11
  <2> HIDE DEF w, v
  <2>2. v.status = "OK" /\ v.place = p /\ w.place = p
    BY <2>1, Selectors
  <2> QED BY <2>2 DEF w, v
<1> QED BY <1>2, <1>3, <1>12

------------------------------------------------------------------------------
(* The tag that was written *)

Caller == IF writer = "C++" THEN "AddFieldTag" ELSE "get_field_tag"

InputsOK ==
    /\ writer \in {"C++", "Python"} /\ keyType \in KeyTypes
    /\ path \in IF writer = "C++" THEN CppPaths ELSE PyPaths
    /\ message.size \in Nat

Written ==
    written = CASE status = "calling"                     -> WalkStart
                [] status # "calling" /\ writer = "C++"    -> AddFieldTag(path)
                [] status # "calling" /\ writer = "Python" -> GetFieldTag(path)

\* What is known of the tag whatever the path.
WrittenFacts ==
    /\ written.status \in {"OK", "error", "crash"}
    /\ written.tag \in Seq(TagElement) /\ written.place \in Seq(PlaceStep)
    /\ Len(written.place) <= Len(path)
    /\ WalkFacts(Caller, written.status, written.next, written.tag, written.place)

\* The inputs are of the right types.
LEMMA InputTypes ==
    ASSUME InputsOK
    PROVE  /\ Caller \in Writers /\ keyType \in AllKeyTypes
           /\ path \in Seq(Element(Ints(Caller))) /\ Len(path) \in Nat
           /\ writer = "C++" => path \in Seq(Element(Int32))
<1>1. Caller \in Writers /\ keyType \in AllKeyTypes
  BY FieldTagsAssumption DEF InputsOK, Caller, Writers, AllKeyTypes
<1>2. CASE writer = "C++"
  <2>1. Ints(Caller) = Int32
    BY <1>2 DEF Ints, Caller
  <2>2. path \in Seq(Element(Int32))
    BY <1>2, FieldTagsAssumption DEF InputsOK
  <2> QED BY <1>1, <2>1, <2>2, LenProperties
<1>3. CASE writer = "Python"
  <2>1. Ints(Caller) = Int
    BY <1>3 DEF Ints, Caller
  <2>2. path \in Seq(Element(Int))
    BY <1>3, FieldTagsAssumption DEF InputsOK
  <2> QED BY <1>1, <1>3, <2>1, <2>2, LenProperties
<1> QED BY <1>2, <1>3 DEF InputsOK

\* The tag that was written has the properties of all walks.
LEMMA WrittenGood == InputsOK /\ Written => WrittenFacts
<1> SUFFICES ASSUME InputsOK, Written PROVE WrittenFacts
  OBVIOUS
<1>1. \E k \in Nat : WalkGood(Caller, written, k) /\ k <= Len(path)
  <2>1. CASE status = "calling"
    <3>1. written = WalkStart
      BY <2>1 DEF Written
    <3>2. WalkGood(Caller, WalkStart, 0)
      BY StartGood
    <3>3. 0 <= Len(path)
      BY InputTypes
    <3> QED BY <3>1, <3>2, <3>3
  <2>2. CASE status # "calling"
    <3>1. written = WalkFields(Caller, path)
      <4>1. CASE writer = "C++"
        BY <2>2, <4>1 DEF Written, Caller, AddFieldTag
      <4>2. CASE writer = "Python"
        BY <2>2, <4>2 DEF Written, Caller, GetFieldTag
      <4> QED BY <4>1, <4>2 DEF InputsOK
    <3> DEFINE c == Caller
    <3>2. c \in Writers /\ path \in Seq(Element(Ints(c))) /\ keyType \in AllKeyTypes
      BY InputTypes
    <3> HIDE DEF c
    <3>3. WalkGood(c, WalkFields(c, path), Len(path))
      BY <3>2, WalkFieldsGood
    <3> QED BY <3>1, <3>3, InputTypes DEF c
  <2> QED BY <2>1, <2>2
<1>2. PICK k \in Nat : WalkGood(Caller, written, k) /\ k <= Len(path)
  BY <1>1
<1>3. PICK s \in {"OK", "error", "crash"}, d \in BOOLEAN, n \in Nexts,
           t \in Seq(TagElement), p \in Seq(PlaceStep) :
           written = WalkOf(s, d, n, t, p) /\ Len(p) <= k /\ WalkFacts(Caller, s, n, t, p)
  BY <1>2 DEF WalkGood
<1>4. /\ written.status = s /\ written.next = n /\ written.tag = t /\ written.place = p
  BY <1>3, Selectors
<1>5. Len(p) \in Nat /\ Len(path) \in Nat
  BY InputTypes, LenProperties
<1> QED BY <1>2, <1>3, <1>4, <1>5 DEF WrittenFacts

------------------------------------------------------------------------------
(* Back to the place *)

\* A key that was written is found under the int that it has been in between, if it
\* was not too long for it; whatever it was, some key is.
LEMMA KeyBack ==
    ASSUME keyType \in AllKeyTypes, NEW caller, NEW k, GoodKey(caller, k)
    PROVE  \E c \in Element(Int) :
              /\ KeyOf(MapKeyOfTag(k)) = {c}
              /\ (k[1] = "int" =>
                    caller # "get_field_tag" \/ keyType = "uint32" \/ k[2] \in Int32) => c = k
<1>1. k \in Element(Int) /\ k = <<k[1], k[2]>>
  BY Elements DEF GoodKey
<1>2. CASE keyType = "bool"
  <2>1. k[1] = "bool" /\ MapKeyOfTag(k) = k
    BY <1>2 DEF GoodKey, MapKeyOfTag
  <2>2. KeyOf(k) = {<<"bool", b>> : b \in FieldBool(k)} /\ FieldBool(k) = {k[2]}
    BY <1>2, <2>1 DEF KeyOf, FieldBool
  <2>3. KeyOf(k) = {<<k[1], k[2]>>}
    BY <2>1, <2>2
  <2> QED BY <1>1, <2>1, <2>3
<1>3. CASE keyType = "string"
  <2>1. k[1] = "str" /\ MapKeyOfTag(k) = k
    BY <1>3 DEF GoodKey, MapKeyOfTag
  <2>2. KeyOf(k) = {<<"str", FieldString(k)>>} /\ FieldString(k) = k[2]
    BY <1>3, <2>1 DEF KeyOf, FieldString
  <2> QED BY <1>1, <2>1, <2>2
<1>4. CASE keyType \notin {"bool", "string"}
  <2> DEFINE n == k[2]
             m == <<"int", ToInt(n)>>
             c == <<"int", Converted(ToInt(n))>>
  <2>1. /\ keyType # "sint32" /\ k[1] = "int" /\ n \in Int /\ k = <<"int", n>>
        /\ caller # "get_field_tag" => \E i \in Int32 : n = Converted(i)
        /\ caller = "get_field_tag" => Converted(n) = n
    BY <1>1, <1>4, Elements DEF GoodKey
  <2>2. MapKeyOfTag(k) = m
    BY <2>1 DEF MapKeyOfTag
  <2>3. KeyOf(m) = {c}
    <3> DEFINE y == ToInt(n)
    <3> HIDE DEF y
    <3>1. FieldInt(<<"int", y>>) = {y}
      BY DEF FieldInt
    <3>2. KeyOf(<<"int", y>>) = {<<"int", Converted(j)>> : j \in FieldInt(<<"int", y>>)}
      BY <1>4 DEF KeyOf
    <3>3. KeyOf(<<"int", y>>) = {<<"int", Converted(y)>>}
      BY <3>1, <3>2
    <3> QED BY <3>3 DEF y
  <2>4. c \in Element(Int)
    <3>1. ToInt(n) \in Int
      BY <2>1, Casts DEF ToInt
    <3>2. Converted(ToInt(n)) \in Int
      BY <1>4, <3>1, ConvertedInts
    <3> QED BY <3>2, Pairs
  <2>5. ASSUME caller # "get_field_tag" \/ keyType = "uint32" \/ n \in Int32
        PROVE  Converted(ToInt(n)) = n
    <3>1. CASE caller # "get_field_tag"
      <4>1. PICK i \in Int32 : n = Converted(i)
        BY <2>1, <3>1
      <4>2. ToInt(n) = i
        BY <1>4, <4>1, ConvertedInts
      <4> QED BY <4>1, <4>2
    <3>2. CASE caller = "get_field_tag" /\ n \in Int32
      <4>1. ToInt(n) = n
        BY <3>2, Casts DEF ToInt
      <4> QED BY <2>1, <3>2, <4>1
    <3>3. CASE caller = "get_field_tag" /\ keyType = "uint32"
      <4>1. \A y : Converted(y) = Unsigned(y, IntBits)
        BY <3>3 DEF Converted
      <4>2. Unsigned(n, IntBits) = n
        BY <2>1, <3>3, <4>1
      <4>3. Unsigned(Signed(n, IntBits), IntBits) = n
        BY <2>1, <4>2, Casts
      <4> QED BY <4>1, <4>3 DEF ToInt
    <3> QED BY <2>5, <3>1, <3>2, <3>3
  <2>6. (k[1] = "int" => caller # "get_field_tag" \/ keyType = "uint32" \/ k[2] \in Int32)
            => c = k
    BY <2>1, <2>5
  <2> HIDE DEF c, m
  <2> QED BY <2>2, <2>3, <2>4, <2>6
<1> QED BY <1>2, <1>3, <1>4

\* A tag that does not end the process.
Survives(steps) == Sound(steps) /\ Avoids(steps, {"scalars", "scalarMap"})

\* The tag was followed as far as place.
FollowInv ==
    /\ todo \in Seq(PlaceStep) /\ place \in Seq(PlaceStep)
    /\ here \in {message, Empty}
    /\ status \in {"calling", "raised", "tagged", "following", "there", "OutOfRange", "crash"}
    /\ status \in {"calling", "raised", "tagged"} => NotFollowed
    /\ status \in {"following", "there", "OutOfRange"} => Followed
    /\ status = "crash" => NotFollowed \/ Followed
    /\ status = "there" => todo = <<>>
    /\ AmongWhatIsThere
    /\ MessageTagsSurvive

IInv == InputsOK /\ Written /\ FollowInv

\* The step of the place that is due.
Due == written.place[Len(place) + 1]

\* What the step of the tag and the step of the place have to do with each other.
IsField == \E n \in Number : Due = <<n>> /\ Step = <<n>>

IsKey ==
    \E n \in Number, k \in Element(Int) :
        /\ Behind(n) = "mapKey" /\ GoodKey(Caller, k)
        /\ Due = <<n, k>> /\ Step = <<n, MapKeyOfTag(k)>>

IsIndex ==
    \E n \in Number, i \in Int :
        /\ Behind(n) = "listIndex"
        /\ Due = <<n, <<"int", i>>>> /\ Step = <<n, <<"int", ToInt(i)>>>>

\* The next step is a field, or a field with its key or its index.
LEMMA StepFacts ==
    ASSUME IInv, status = "following", todo # <<>>
    PROVE  /\ Len(place) + 1 \in DOMAIN written.place
           /\ IsField \/ IsKey \/ IsIndex
<1>1. WrittenFacts /\ Followed /\ todo \in Seq(PlaceStep) /\ place \in Seq(PlaceStep)
  BY WrittenGood DEF IInv, FollowInv
<1>2. /\ Len(todo) \in Nat /\ Len(todo) # 0 /\ Len(place) \in Nat
      /\ written.place \in Seq(PlaceStep) /\ DOMAIN written.place = 1..Len(written.place)
      /\ Step = todo[1] /\ 1 \in DOMAIN todo /\ Len(written.place) \in Nat
  BY <1>1, EmptySeq, LenProperties DEF WrittenFacts, Step
<1>3. Len(place) + 1 \in DOMAIN written.place
  BY <1>1, <1>2 DEF Followed
<1>4. Step = CastStep(Due)
  BY <1>1, <1>2 DEF Followed, Due
<1>5. GoodStep(Caller, Due)
  <2>1. \A j \in 1..Len(written.place) : GoodStep(Caller, written.place[j])
    BY <1>1 DEF WrittenFacts, WalkFacts
  <2> QED BY <1>2, <1>3, <2>1 DEF Due
<1>6. PICK n \in Number :
          \/ Due = <<n>>
          \/ /\ Behind(n) = "mapKey"
             /\ \E k \in Element(Int) : GoodKey(Caller, k) /\ Due = <<n, k>>
          \/ /\ Behind(n) = "listIndex"
             /\ \E i \in Int : Due = <<n, <<"int", i>>>>
  BY <1>5 DEF GoodStep
<1>7. CASE Due = <<n>>
  <2>1. Step = <<n>>
    BY <1>4, <1>7, CastSteps
  <2> QED BY <1>3, <1>7, <2>1 DEF IsField
<1>8. ASSUME Behind(n) = "mapKey", NEW k \in Element(Int), GoodKey(Caller, k), Due = <<n, k>>
      PROVE  IsKey
  <2>1. Step = <<n, MapKeyOfTag(k)>>
    BY <1>4, <1>8, CastSteps
  <2> QED BY <1>8, <2>1 DEF IsKey
<1>9. ASSUME Behind(n) = "listIndex", NEW i \in Int, Due = <<n, <<"int", i>>>>
      PROVE  IsIndex
  <2>1. Step = <<n, MapKeyOfTag(<<"int", i>>)>>
    BY <1>4, <1>9, CastSteps
  <2>2. MapKeyOfTag(<<"int", i>>) = <<"int", ToInt(i)>>
    BY DEF MapKeyOfTag
  <2> QED BY <1>9, <2>1, <2>2 DEF IsIndex
<1> QED BY <1>3, <1>6, <1>7, <1>8, <1>9

\* The step of the tag is the one of the place, after the casts.
LEMMA StepIsCast ==
    ASSUME IInv, status = "following", todo # <<>>
    PROVE  Step = CastStep(Due)
<1>1. Followed /\ todo \in Seq(PlaceStep)
  BY DEF IInv, FollowInv
<1>2. Step = todo[1] /\ 1 \in DOMAIN todo
  BY <1>1, EmptySeq, LenProperties DEF Step
<1> QED BY <1>1, <1>2 DEF Followed, Due

\* The inputs stay what they are, and the tag stays the one that was written.
LEMMA WrittenStays ==
    ASSUME InputsOK, UNCHANGED inputs
    PROVE  /\ InputsOK'
           /\ AddFieldTag(path)' = AddFieldTag(path) /\ GetFieldTag(path)' = GetFieldTag(path)
           /\ Written /\ status # "calling" /\ written' = written /\ status' # "calling" => Written'
<1>1. writer' = writer /\ keyType' = keyType /\ path' = path /\ message' = message
  BY DEF inputs
<1>2. InputsOK'
  BY <1>1 DEF InputsOK
<1>3. Len(path) \in Nat
  BY InputTypes
<1>4. PICK fields : fields = path
  OBVIOUS
<1>5. WalkFields("AddFieldTag", fields)' = WalkFields("AddFieldTag", fields)
  BY <1>3, <1>4, WalkUnchanged
<1>6. WalkFields("get_field_tag", fields)' = WalkFields("get_field_tag", fields)
  BY <1>3, <1>4, WalkUnchanged
<1>7. AddFieldTag(path)' = AddFieldTag(path)
  BY <1>1, <1>4, <1>5 DEF AddFieldTag
<1>8. GetFieldTag(path)' = GetFieldTag(path)
  BY <1>1, <1>4, <1>6 DEF GetFieldTag
<1> QED BY <1>1, <1>2, <1>7, <1>8 DEF Written, InputsOK

\* What is there before the merge stays what it is.
LEMMA ThereStays ==
    ASSUME UNCHANGED inputs, written' = written
    PROVE  /\ \A step : IsThere(step)' = IsThere(step)
           /\ Survives(written.place)' = Survives(written.place)
<1>1. keyType' = keyType /\ message' = message
  BY DEF inputs
<1>2. \A n : Converted(n)' = Converted(n)
  BY <1>1 DEF Converted
<1>3. \A y : KeyOf(y)' = KeyOf(y)
  BY <1>1, <1>2, Zenon DEF KeyOf
<1>4. \A ks, y : FindMapKey(ks, y)' = FindMapKey(ks, y)
  BY <1>3, Zenon DEF FindMapKey
<1>5. \A y : MapKeyOfTag(y)' = MapKeyOfTag(y)
  BY DEF MapKeyOfTag, ToInt, Signed
<1>6. ASSUME NEW step
      PROVE  IsThere(step)' = IsThere(step)
  BY <1>1, <1>4, <1>5 DEF IsThere
<1>7. \A steps, k : SizeAt(steps, k)' = SizeAt(steps, k)
  BY <1>1, <1>6, Zenon DEF SizeAt
<1>8. \A steps : InOrder(steps)' = InOrder(steps)
  BY <1>7, Zenon DEF InOrder
<1>9. \A steps : Survives(steps)' = Survives(steps)
  BY <1>8, Zenon DEF Survives, Sound, Complete, Avoids
<1> QED BY <1>6, <1>9

\* The step that is due, where the ints are not too long.
LEMMA DueFits ==
    ASSUME IInv, FitsInt(written.place), Len(place) + 1 \in DOMAIN written.place
    PROVE  /\ \A n, i : Behind(n) = "listIndex" /\ Due = <<n, <<"int", i>>>> => i >= 0 /\ i \in Int32
           /\ \A n, k : Behind(n) = "mapKey" /\ Due = <<n, k>> /\ k[1] = "int" =>
                 Caller # "get_field_tag" \/ keyType = "uint32" \/ k[2] \in Int32
<1> DEFINE d == Due
<1>1. Len(d) = 2 /\ d[2][1] = "int" =>
            IF Kind[d[1]] \in {"repeated", "scalars"}
            THEN d[2][2] >= 0 /\ d[2][2] \in Int32
            ELSE writer = "C++" \/ keyType = "uint32" \/ d[2][2] \in Int32
  BY DEF FitsInt, Due
<1> HIDE DEF d
<1>2. ASSUME NEW n, NEW i, Behind(n) = "listIndex", d = <<n, <<"int", i>>>>
      PROVE  i >= 0 /\ i \in Int32
  <2>1. Kind[n] \in {"repeated", "scalars"}
    BY <1>2 DEF Behind
  <2>2. Len(d) = 2 /\ d[1] = n /\ d[2][1] = "int" /\ d[2][2] = i
    BY <1>2
  <2> QED BY <1>1, <2>1, <2>2
<1>3. ASSUME NEW n, NEW k, Behind(n) = "mapKey", d = <<n, k>>, k[1] = "int"
      PROVE  Caller # "get_field_tag" \/ keyType = "uint32" \/ k[2] \in Int32
  <2>1. Kind[n] \notin {"repeated", "scalars"}
    BY <1>3 DEF Behind
  <2>2. Len(d) = 2 /\ d[1] = n /\ d[2] = k
    BY <1>3
  <2> QED BY <1>1, <1>3, <2>1, <2>2 DEF Caller
<1> QED BY <1>2, <1>3 DEF d

\* A step that reaches what is due, where the ints are not too long.
LEMMA Reaches ==
    ASSUME IInv, status = "following", todo # <<>>,
           NEW STATE step, step \in PlaceStep, FitsInt(written.place) => step = Due,
           NEW STATE content, content \in {message, Empty},
           IsThere(Due) /\ here = message => content = message,
           Reach(step, content)
    PROVE  IInv'
<1>1. /\ UNCHANGED inputs /\ written' = written /\ status' = status
      /\ place' = Append(place, step) /\ here' = content /\ todo' = Tail(todo)
  BY DEF Reach
<1>2. InputsOK' /\ Written'
  BY <1>1, WrittenStays DEF IInv
<1>3. /\ todo \in Seq(PlaceStep) /\ place \in Seq(PlaceStep) /\ Followed
      /\ Len(todo) \in Nat /\ Len(place) \in Nat /\ DOMAIN todo = 1..Len(todo)
      /\ DOMAIN place = 1..Len(place)
  BY LenProperties DEF IInv, FollowInv
<1>4. /\ todo' \in Seq(PlaceStep) /\ Len(todo') = Len(todo) - 1
      /\ \A j \in 1..Len(todo') : todo'[j] = todo[j + 1]
      /\ DOMAIN todo' = 1..Len(todo')
  BY <1>1, <1>3
<1>5. /\ place' \in Seq(PlaceStep) /\ Len(place') = Len(place) + 1
      /\ \A j \in 1..Len(place) : place'[j] = place[j]
      /\ place'[Len(place) + 1] = step
      /\ DOMAIN place' = 1..Len(place')
  BY <1>1, <1>3, AppendProperties, LenProperties
<1>6. Followed'
  <2>1. /\ BadTag \notin ToSet(written.tag)
        /\ Len(place) + Len(todo) = Len(written.place)
        /\ \A j \in DOMAIN todo : todo[j] = CastStep(written.place[Len(place) + j])
        /\ FitsInt(written.place) => \A j \in DOMAIN place : place[j] = written.place[j]
    BY <1>3 DEF Followed, BadTag
  <2>2. Len(place') + Len(todo') = Len(written.place)
    <3>1. Len(place) + Len(todo) = Len(written.place)
      BY <1>3 DEF Followed
    <3>2. /\ Len(todo) \in Nat /\ Len(place) \in Nat
          /\ Len(todo') = Len(todo) - 1 /\ Len(place') = Len(place) + 1
      BY <1>3, <1>4, <1>5
    <3> QED BY <3>1, <3>2
  <2>3. ASSUME NEW j \in DOMAIN todo'
        PROVE  todo'[j] = CastStep(written.place[Len(place') + j])
    <3>1. j \in 1..Len(todo') /\ j + 1 \in DOMAIN todo
      BY <1>3, <1>4
    <3>2. todo'[j] = todo[j + 1] /\ todo[j + 1] = CastStep(written.place[Len(place) + (j + 1)])
      BY <1>4, <2>1, <3>1
    <3>3. Len(place) + (j + 1) = Len(place') + j
      BY <1>3, <1>5, <3>1
    <3> QED BY <3>2, <3>3
  <2>4. FitsInt(written.place) => \A j \in DOMAIN place' : place'[j] = written.place[j]
    BY <1>3, <1>5, <2>1 DEF Due
  <2>5. FitsInt(written.place)' = FitsInt(written.place)
    BY <1>1 DEF FitsInt, inputs
  <2>6. \A s : CastStep(s)' = CastStep(s)
    BY DEF CastStep, MapKeyOfTag, ToInt, Signed
  <2> QED BY <1>1, <2>1, <2>2, <2>3, <2>4, <2>5, <2>6 DEF Followed, BadTag
<1>7. MessageTagsSurvive'
  BY <1>1 DEF MessageTagsSurvive
<1>8. here' \in {message', Empty'}
  BY <1>1 DEF Empty, inputs
<1>9. AmongWhatIsThere'
  <2>1. \A s : IsThere(s)' = IsThere(s)
    BY <1>1, ThereStays
  <2> SUFFICES ASSUME \A j \in DOMAIN place' : IsThere(written.place[j])
               PROVE  here' = message'
    BY <1>1, <2>1 DEF AmongWhatIsThere
  <2>2. \A j \in DOMAIN place : IsThere(written.place[j])
    BY <1>3, <1>5
  <2>3. IsThere(Due)
    BY <1>3, <1>5 DEF Due
  <2>4. here = message
    BY <2>2 DEF IInv, FollowInv, AmongWhatIsThere
  <2> QED BY <1>1, <2>3, <2>4 DEF inputs
<1> QED BY <1>1, <1>2, <1>4, <1>5, <1>6, <1>7, <1>8, <1>9 DEF IInv, FollowInv

\* Who does not go on is where he was.
LEMMA StillAmong ==
    ASSUME AmongWhatIsThere, UNCHANGED <<inputs, place, here>>,
           written' = written \/ place = <<>>
    PROVE  AmongWhatIsThere'
<1>1. message' = message /\ place' = place /\ here' = here
  BY DEF inputs
<1>2. CASE place = <<>>
  BY <1>1, <1>2 DEF AmongWhatIsThere
<1>3. CASE written' = written
  <2>1. \A s : IsThere(s)' = IsThere(s)
    BY <1>3, ThereStays
  <2> QED BY <1>1, <1>3, <2>1 DEF AmongWhatIsThere
<1> QED BY <1>2, <1>3

\* A step that ends the merge, in a crash only with a tag that may.
LEMMA Ends ==
    ASSUME IInv, status = "following", NEW how \in {"there", "OutOfRange", "crash"}, End(how),
           how = "there" => todo = <<>>,
           how = "crash" => ~Survives(written.place)
    PROVE  IInv'
<1>1. /\ UNCHANGED inputs /\ written' = written /\ status' = how /\ place' = place
      /\ here' = here /\ todo' = todo
  BY DEF End
<1>2. InputsOK' /\ Written'
  BY <1>1, WrittenStays DEF IInv
<1>3. Followed'
  <2>1. Followed
    BY DEF IInv, FollowInv
  <2>2. FitsInt(written.place)' = FitsInt(written.place)
    BY <1>1 DEF FitsInt, inputs
  <2>3. \A s : CastStep(s)' = CastStep(s)
    BY DEF CastStep, MapKeyOfTag, ToInt, Signed
  <2> QED BY <1>1, <2>1, <2>2, <2>3 DEF Followed
<1>4. Survives(written.place)' = Survives(written.place)
  BY <1>1, ThereStays
<1>5. MessageTagsSurvive'
  BY <1>1, <1>4 DEF MessageTagsSurvive, Survives
<1>6. here' \in {message', Empty'}
  BY <1>1 DEF Empty, inputs, IInv, FollowInv
<1>7. AmongWhatIsThere'
  BY <1>1, StillAmong DEF IInv, FollowInv
<1> QED BY <1>1, <1>2, <1>3, <1>5, <1>6, <1>7 DEF IInv, FollowInv

\* The invariant holds before the tag is written.
LEMMA InitInv == Init => IInv
<1> SUFFICES ASSUME Init PROVE IInv
  OBVIOUS
<1>1. InputsOK /\ Written
  BY FieldTagsAssumption DEF Init, InputsOK, Written
<1>2. todo = <<>> /\ place = <<>> /\ status = "calling" /\ here = message
  BY DEF Init
<1> QED BY <1>1, <1>2 DEF IInv, FollowInv, NotFollowed, AmongWhatIsThere, MessageTagsSurvive

\* AddFieldTag and get_field_tag write the tag, if they do not end the process.
LEMMA CallInv ==
    ASSUME IInv, CallAddFieldTag \/ CallGetFieldTag
    PROVE  IInv'
<1>1. /\ status = "calling" /\ UNCHANGED inputs /\ todo' = todo /\ here' = here /\ place' = place
      /\ writer = "C++" => written' = AddFieldTag(path)
      /\ writer = "Python" => written' = GetFieldTag(path)
      /\ \/ status' \in {"raised", "tagged"}
         \/ status' = "crash" /\ written'.status = "crash"
  BY DEF CallAddFieldTag, CallGetFieldTag
<1>2. InputsOK' /\ AddFieldTag(path)' = AddFieldTag(path) /\ GetFieldTag(path)' = GetFieldTag(path)
  BY <1>1, WrittenStays DEF IInv
<1>3. writer' = writer /\ message' = message
  BY <1>1 DEF inputs
<1>4. Written'
  BY <1>1, <1>2, <1>3 DEF Written, IInv, InputsOK
<1>5. NotFollowed' /\ todo' \in Seq(PlaceStep) /\ place' \in Seq(PlaceStep)
  BY <1>1 DEF NotFollowed, IInv, FollowInv
<1>6. MessageTagsSurvive'
  BY <1>1 DEF MessageTagsSurvive
<1>7. here' \in {message', Empty'}
  BY <1>1, <1>3 DEF Empty, IInv, FollowInv
<1>8. AmongWhatIsThere'
  <2>1. place = <<>>
    BY <1>1 DEF IInv, FollowInv, NotFollowed
  <2> QED BY <1>1, <2>1, StillAmong DEF IInv, FollowInv
<1> QED BY <1>1, <1>2, <1>4, <1>5, <1>6, <1>7, <1>8 DEF IInv, FollowInv

\* Only a tag that was not finished has an element without a key.
LEMMA ProcessFieldBadTagInv ==
    ASSUME IInv, ProcessFieldBadTag
    PROVE  IInv'
<1>1. /\ status = "tagged" /\ BadTag \in ToSet(written.tag) /\ status' = "crash" /\ UNCHANGED inputs
      /\ written' = written /\ todo' = todo /\ here' = here /\ place' = place
  BY DEF ProcessFieldBadTag, BadTag
<1>2. InputsOK' /\ Written'
  BY <1>1, WrittenStays DEF IInv
<1>3. NotFollowed' /\ todo' \in Seq(PlaceStep) /\ place' \in Seq(PlaceStep)
  BY <1>1 DEF NotFollowed, IInv, FollowInv
<1>4. written.status # "OK"
  BY <1>1, WrittenGood DEF IInv, WrittenFacts, WalkFacts
<1>5. MessageTagsSurvive'
  BY <1>1, <1>4 DEF MessageTagsSurvive
<1>6. here' \in {message', Empty'}
  BY <1>1 DEF Empty, inputs, IInv, FollowInv
<1>7. AmongWhatIsThere'
  BY <1>1, StillAmong DEF IInv, FollowInv
<1> QED BY <1>1, <1>2, <1>3, <1>5, <1>6, <1>7 DEF IInv, FollowInv

\* GetFieldTypes gives back the place, with the casts.
LEMMA ProcessFieldInv ==
    ASSUME IInv, ProcessField
    PROVE  IInv'
<1>1. /\ status = "tagged" /\ BadTag \notin ToSet(written.tag) /\ status' = "following"
      /\ UNCHANGED inputs /\ todo' = GetFieldTypes(written.tag)
      /\ written' = written /\ here' = here /\ place' = place
  BY DEF ProcessField, BadTag
<1>2. InputsOK' /\ Written'
  BY <1>1, WrittenStays DEF IInv
<1> DEFINE p == written.place
<1>3. /\ todo' = Cast(p) /\ p \in Seq(PlaceStep)
      /\ \A j \in 1..Len(p) : GoodStep(Caller, p[j])
  BY <1>1, WrittenGood DEF IInv, WrittenFacts, WalkFacts
<1>4. Len(p) \in Nat
  BY <1>3, LenProperties
<1>5. place' = <<>>
  BY <1>1 DEF IInv, FollowInv, NotFollowed
<1> HIDE DEF p
<1>6. ASSUME NEW j \in 1..Len(p)
      PROVE  CastStep(p[j]) \in PlaceStep
  <2>1. PICK n \in Number :
            \/ p[j] = <<n>>
            \/ \E k \in Element(Int) : p[j] = <<n, k>>
            \/ \E i \in Int : p[j] = <<n, <<"int", i>>>>
    BY <1>3 DEF GoodStep
  <2>2. CASE p[j] = <<n>>
    BY <2>2, CastSteps DEF PlaceStep
  <2>3. ASSUME NEW k \in Element(Int), p[j] = <<n, k>>
        PROVE  CastStep(p[j]) \in PlaceStep
    BY <2>3, CastSteps DEF PlaceStep
  <2> QED BY <2>1, <2>2, <2>3, Pairs
<1>7. /\ todo' \in Seq(PlaceStep) /\ Len(todo') = Len(p) /\ DOMAIN todo' = 1..Len(p)
      /\ \A j \in 1..Len(p) : todo'[j] = CastStep(p[j])
  BY <1>3, <1>4, <1>6 DEF Cast
<1>8. Followed'
  <2>1. \A s : CastStep(s)' = CastStep(s)
    BY DEF CastStep, MapKeyOfTag, ToInt, Signed
  <2>2. Len(place') = 0 /\ DOMAIN place' = {}
    BY <1>5
  <2>3. Len(place') + Len(todo') = Len(p)
    BY <1>4, <1>7, <2>2
  <2>4. \A j \in DOMAIN todo' : Len(place') + j = j
    BY <1>4, <1>7, <2>2
  <2>5. \A j \in DOMAIN todo' : todo'[j] = CastStep(p[Len(place') + j])
    BY <1>7, <2>4
  <2>6. written'.place = p /\ written'.tag = written.tag
    BY <1>1 DEF p
  <2> QED BY <1>1, <2>1, <2>2, <2>3, <2>5, <2>6 DEF Followed, BadTag
<1>9. MessageTagsSurvive'
  BY <1>1 DEF MessageTagsSurvive
<1>10. here' \in {message', Empty'}
  BY <1>1 DEF Empty, inputs, IInv, FollowInv
<1>11. place' \in Seq(PlaceStep)
  BY <1>5
<1>12. AmongWhatIsThere'
  BY <1>1, StillAmong DEF IInv, FollowInv
<1> QED BY <1>1, <1>2, <1>7, <1>8, <1>9, <1>10, <1>11, <1>12 DEF IInv, FollowInv

\* Without index or key, a step is the one that was written.
LEMMA FieldDue ==
    ASSUME IInv, NEW kinds, Following(kinds, 1)
    PROVE  Step = Due /\ Step \in PlaceStep
<1>1. IsField \/ IsKey \/ IsIndex
  BY StepFacts DEF Following
<1>2. Len(Step) = 1
  BY DEF Following
<1>3. CASE IsField
  BY <1>3 DEF IsField, PlaceStep
<1>4. CASE IsKey \/ IsIndex
  BY <1>2, <1>4 DEF IsKey, IsIndex
<1> QED BY <1>1, <1>3, <1>4

\* In a map, exactly one key is meant.
LEMMA KeyDue ==
    ASSUME IInv, Following({"map"}, 2)
    PROVE  \E c \in Element(Int) :
              /\ KeyOf(Step[2]) = {c} /\ <<Step[1], c>> \in PlaceStep
              /\ FitsInt(written.place) => <<Step[1], c>> = Due
<1>1. (IsField \/ IsKey \/ IsIndex) /\ Len(place) + 1 \in DOMAIN written.place
  BY StepFacts DEF Following
<1>2. Len(Step) = 2 /\ Kind[Step[1]] = "map"
  BY DEF Following
<1>3. IsKey
  <2>1. CASE IsField
    BY <1>2, <2>1 DEF IsField
  <2>2. CASE IsIndex
    BY <1>2, <2>2 DEF IsIndex, Behind
  <2> QED BY <1>1, <2>1, <2>2
<1>4. PICK n \in Number, k \in Element(Int) :
          /\ Behind(n) = "mapKey" /\ GoodKey(Caller, k)
          /\ Due = <<n, k>> /\ Step = <<n, MapKeyOfTag(k)>>
  BY <1>3 DEF IsKey
<1>5. Step[1] = n /\ Step[2] = MapKeyOfTag(k)
  BY <1>4
<1>6. keyType \in AllKeyTypes
  BY InputTypes DEF IInv
<1>7. PICK c \in Element(Int) :
          /\ KeyOf(MapKeyOfTag(k)) = {c}
          /\ (k[1] = "int" =>
                Caller # "get_field_tag" \/ keyType = "uint32" \/ k[2] \in Int32) => c = k
  BY <1>4, <1>6, KeyBack
<1>8. FitsInt(written.place) => c = k
  BY <1>1, <1>4, <1>7, DueFits
<1>9. <<n, c>> \in PlaceStep
  BY DEF PlaceStep
<1> QED BY <1>4, <1>5, <1>7, <1>8, <1>9

\* In a repeated field, an index that is not too long is the one that was written.
LEMMA IndexDue ==
    ASSUME IInv, Following({"repeated"}, 2)
    PROVE  \E n \in Number, i \in Int :
              /\ Due = <<n, <<"int", i>>>> /\ Step = <<n, <<"int", ToInt(i)>>>>
              /\ Step \in PlaceStep
              /\ FitsInt(written.place) => Step = Due /\ Step[2][2] >= 0
<1>1. (IsField \/ IsKey \/ IsIndex) /\ Len(place) + 1 \in DOMAIN written.place
  BY StepFacts DEF Following
<1>2. Len(Step) = 2 /\ Kind[Step[1]] = "repeated"
  BY DEF Following
<1>3. IsIndex
  <2>1. CASE IsField
    BY <1>2, <2>1 DEF IsField
  <2>2. CASE IsKey
    BY <1>2, <2>2 DEF IsKey, Behind
  <2> QED BY <1>1, <2>1, <2>2
<1>4. PICK n \in Number, i \in Int :
          /\ Behind(n) = "listIndex"
          /\ Due = <<n, <<"int", i>>>> /\ Step = <<n, <<"int", ToInt(i)>>>>
  BY <1>3 DEF IsIndex
<1>5. ToInt(i) \in Int
  BY Casts DEF ToInt
<1>6. <<"int", ToInt(i)>> \in Element(Int)
  BY <1>5, Pairs
<1>7. Step \in PlaceStep
  BY <1>4, <1>6 DEF PlaceStep
<1>8. FitsInt(written.place) => i >= 0 /\ i \in Int32
  BY <1>1, <1>4, DueFits
<1>9. i \in Int32 => ToInt(i) = i
  BY Casts DEF ToInt
<1>10. Step[2][2] = ToInt(i)
  BY <1>4
<1> QED BY <1>4, <1>7, <1>8, <1>9, <1>10

\* A field is stepped into, or is a scalar that the tag ends at.
LEMMA FollowFieldInv ==
    ASSUME IInv, FollowMessage \/ FollowScalar
    PROVE  IInv'
<1>1. here \in {message, Empty} /\ Empty \in {message, Empty}
  BY DEF IInv, FollowInv
<1>2. status = "following" /\ todo # <<>>
  BY DEF FollowMessage, FollowScalar, Following
<1>3. Step = Due /\ Step \in PlaceStep
  BY FieldDue DEF FollowMessage, FollowScalar
<1>4. CASE Reach(Step, here)
  BY <1>1, <1>2, <1>3, <1>4, Reaches
<1>5. CASE Kind[Step[1]] = "scalar" /\ Reach(Step, Empty)
  <2>1. ~IsThere(Due)
    BY <1>3, <1>5 DEF IsThere
  <2> QED BY <1>1, <1>2, <1>3, <1>5, <2>1, Reaches
<1> QED BY <1>4, <1>5 DEF FollowMessage, FollowScalar, Following

\* In an array of scalars, some element may be assigned: no index that fits is -1.
LEMMA FollowScalarsInv ==
    ASSUME IInv, FollowScalars
    PROVE  IInv'
<1>1. Empty \in {message, Empty}
  OBVIOUS
<1>2. status = "following" /\ todo # <<>> /\ Kind[Step[1]] = "scalars"
  BY DEF FollowScalars, Following
<1>3. Step \in PlaceStep
  BY <1>2 DEF IInv, FollowInv, Step
<1>4. FitsInt(written.place) => Step = Due
  <2>1. CASE Following({"scalars"}, 1)
    BY <2>1, FieldDue
  <2>2. CASE Following({"scalars"}, 2) /\ Step[2][2] = -1
    <3>1. (IsField \/ IsKey \/ IsIndex) /\ Len(place) + 1 \in DOMAIN written.place
      BY <1>2, StepFacts
    <3>2. Len(Step) = 2
      BY <2>2 DEF Following
    <3>3. ~IsField
      BY <3>2 DEF IsField
    <3>4. ~IsKey
      BY <1>2 DEF IsKey, Behind
    <3>5. PICK n \in Number, i \in Int :
              /\ Behind(n) = "listIndex"
              /\ Due = <<n, <<"int", i>>>> /\ Step = <<n, <<"int", ToInt(i)>>>>
      BY <3>1, <3>3, <3>4 DEF IsIndex
    <3>6. ToInt(i) = -1
      BY <2>2, <3>5
    <3>7. FitsInt(written.place) => i >= 0 /\ i \in Int32
      BY <3>1, <3>5, DueFits
    <3>8. i \in Int32 => ToInt(i) = i
      BY Casts DEF ToInt
    <3> QED BY <3>6, <3>7, <3>8
  <2> QED BY <2>1, <2>2 DEF FollowScalars
<1>5. CASE Reach(Step, Empty)
  <2>1. ~IsThere(Due)
    <3>1. IsField \/ IsKey \/ IsIndex
      BY <1>2, StepFacts
    <3>2. Due[1] = Step[1]
      BY <3>1 DEF IsField, IsKey, IsIndex
    <3> QED BY <1>2, <3>2 DEF IsThere
  <2> QED BY <1>1, <1>2, <1>3, <1>4, <1>5, <2>1, Reaches
<1>6. CASE End("OutOfRange")
  BY <1>2, <1>6, Ends
<1> QED BY <1>5, <1>6 DEF FollowScalars

\* The key that is found, or that AddMapEntry makes, is the one that was written.
LEMMA FollowKeyInv ==
    ASSUME IInv, FollowKey \/ AddMapEntry
    PROVE  IInv'
<1>1. here \in {message, Empty} /\ Empty \in {message, Empty}
  BY DEF IInv, FollowInv
<1>2. Following({"map"}, 2) /\ status = "following" /\ todo # <<>>
  BY DEF FollowKey, AddMapEntry, Following
<1>3. PICK c \in Element(Int) :
          /\ KeyOf(Step[2]) = {c} /\ <<Step[1], c>> \in PlaceStep
          /\ FitsInt(written.place) => <<Step[1], c>> = Due
  BY <1>2, KeyDue
<1>4. ASSUME NEW ks, FindMapKey(ks, Step[2]) # {}
      PROVE  The(FindMapKey(ks, Step[2])) = c
  <2>1. The(FindMapKey(ks, Step[2])) \in FindMapKey(ks, Step[2])
    BY <1>4, TheMember
  <2> QED BY <1>3, <2>1 DEF FindMapKey
<1> DEFINE s == <<Step[1], c>>
<1>5. s \in PlaceStep /\ (FitsInt(written.place) => s = Due)
  BY <1>3
<1>6. CASE FollowKey
  <2>1. Reach(s, here)
    BY <1>4, <1>6 DEF FollowKey
  <2> HIDE DEF s
  <2> QED BY <1>1, <1>2, <1>5, <2>1, Reaches
<1>7. CASE AddMapEntry
  <2>1. Reach(s, Empty) /\ FindMapKey(here.keys, Step[2]) = {}
    BY <1>4, <1>7 DEF AddMapEntry
  <2>2. here = message => ~IsThere(Due)
    <3>1. Kind[Step[1]] = "map" /\ Len(Step) = 2
      BY <1>2 DEF Following
    <3>2. Step = CastStep(Due)
      BY <1>2, StepIsCast
    <3>3. Due[1] = Step[1] /\ (Len(Due) = 2 => Step[2] = MapKeyOfTag(Due[2]))
      BY <3>2 DEF CastStep
    <3> QED BY <2>1, <3>1, <3>3 DEF IsThere
  <2> HIDE DEF s
  <2> QED BY <1>1, <1>2, <1>5, <2>1, <2>2, Reaches
<1> QED BY <1>6, <1>7

\* So is the element; the first one stands in for a negative index, which does not fit.
LEMMA FollowIndexInv ==
    ASSUME IInv, FollowElement \/ FollowNegative
    PROVE  IInv'
<1>1. here \in {message, Empty} /\ Empty \in {message, Empty}
  BY DEF IInv, FollowInv
<1>2. Following({"repeated"}, 2) /\ status = "following" /\ todo # <<>>
  BY DEF FollowElement, FollowNegative, Following
<1>3. PICK n \in Number, i \in Int :
          /\ Due = <<n, <<"int", i>>>> /\ Step = <<n, <<"int", ToInt(i)>>>>
          /\ Step \in PlaceStep
          /\ FitsInt(written.place) => Step = Due /\ Step[2][2] >= 0
  BY <1>2, IndexDue
<1>4. CASE Reach(Step, here)
  BY <1>1, <1>2, <1>3, <1>4, Reaches
<1>5. CASE End("OutOfRange")
  BY <1>2, <1>5, Ends
<1>6. CASE Reach(<<Step[1], <<"int", 0>>>>, here) /\ Step[2][2] < -1
  <2> DEFINE s == <<Step[1], <<"int", 0>>>>
  <2>1. s \in PlaceStep
    <3>1. <<"int", 0>> \in Element(Int) /\ Step[1] = n
      BY <1>3, Pairs
    <3> QED BY <3>1 DEF PlaceStep
  <2>2. ~FitsInt(written.place)
    <3>1. Step[2][2] = ToInt(i) /\ ToInt(i) \in Int
      BY <1>3, Casts DEF ToInt
    <3> QED BY <1>3, <1>6, <3>1
  <2>3. Reach(s, here)
    BY <1>6
  <2> HIDE DEF s
  <2> QED BY <1>1, <1>2, <2>1, <2>2, <2>3, Reaches
<1>7. CASE Reach(Step, Empty) /\ Step[2][2] = here.size
  <2>1. here = message => ~IsThere(Due)
    <3>1. /\ Due[1] = n /\ Step[1] = n /\ MapKeyOfTag(Due[2]) = Step[2]
          /\ Step[2][2] = ToInt(i) /\ ToInt(i) \in Int
      BY <1>3, Casts DEF MapKeyOfTag, ToInt
    <3>2. Kind[n] = "repeated"
      BY <1>2, <3>1 DEF Following
    <3>3. here = message => ~(MapKeyOfTag(Due[2])[2] < message.size)
      <4> SUFFICES ASSUME here = message
                   PROVE  ~(MapKeyOfTag(Due[2])[2] < message.size)
        OBVIOUS
      <4>1. MapKeyOfTag(Due[2])[2] = message.size
        BY <1>7, <3>1
      <4>2. message.size \in Int
        BY <1>7, <3>1
      <4> QED BY <4>1, <4>2
    <3> QED BY <3>1, <3>2, <3>3 DEF IsThere
  <2> QED BY <1>1, <1>2, <1>3, <1>7, <2>1, Reaches
<1> QED BY <1>4, <1>5, <1>6, <1>7 DEF FollowElement, FollowNegative

\* Where an index is in order, there is room for it.
LEMMA IndexHasRoom ==
    ASSUME IInv, status = "following", todo # <<>>, Survives(written.place),
           NEW n, NEW i \in Int, Kind[n] = "repeated", Due = <<n, <<"int", i>>>>
    PROVE  i \in Int32 /\ i >= 0 /\ i <= here.size
<1> DEFINE k == Len(place) + 1
           size == SizeAt(written.place, k)
<1>1. k \in DOMAIN written.place /\ Due = written.place[k]
  BY StepFacts DEF Due
<1>2. place \in Seq(PlaceStep) /\ here \in {message, Empty} /\ message.size \in Nat
  BY DEF IInv, InputsOK, FollowInv
<1>3. Len(place) \in Nat /\ DOMAIN place = 1..(k - 1)
  BY <1>2, LenProperties
<1>4. size \in Nat /\ size <= here.size
  <2>1. CASE \A j \in 1..(k - 1) : IsThere(written.place[j])
    <3>1. here = message
      BY <1>3, <2>1 DEF IInv, FollowInv, AmongWhatIsThere
    <3> QED BY <1>2, <2>1, <3>1 DEF SizeAt
  <2>2. CASE ~\A j \in 1..(k - 1) : IsThere(written.place[j])
    <3>1. size = 0
      BY <2>2 DEF SizeAt
    <3> QED BY <1>2, <3>1 DEF Empty
  <2> QED BY <2>1, <2>2
<1>5. here.size \in Nat
  BY <1>2 DEF Empty
<1> HIDE DEF k, size
<1>6. LET d == written.place[k]
      IN  Kind[d[1]] \in {"repeated", "scalars"} /\ Len(d) = 2 =>
              d[2][2] \in 0..size /\ d[2][2] \in Int32
  BY <1>1 DEF Survives, Sound, InOrder, size
<1>7. /\ Due[1] = n /\ Len(Due) = 2 /\ Due[2][2] = i
  OBVIOUS
<1>8. i \in 0..size /\ i \in Int32
  BY <1>1, <1>6, <1>7
<1> QED BY <1>4, <1>5, <1>8

\* The process ends on no tag that survives.
LEMMA FollowCrashInv ==
    ASSUME IInv, FollowCrash
    PROVE  IInv'
<1>1. status = "following" /\ todo # <<>> /\ End("crash")
  BY DEF FollowCrash, Following
<1>2. Len(place) + 1 \in DOMAIN written.place
  BY <1>1, StepFacts
<1>3. here.size \in Nat
  BY DEF IInv, InputsOK, FollowInv, Empty
<1>4. ASSUME Survives(written.place)
      PROVE  FALSE
  <2> DEFINE d == Due
  <2>1. /\ Kind[d[1]] \notin {"scalars", "scalarMap"}
        /\ Kind[d[1]] \in {"repeated", "map"} => Len(d) = 2
    BY <1>2, <1>4 DEF Survives, Sound, Complete, Avoids, Due
  <2> HIDE DEF d
  <2>2. Step[1] = d[1] /\ Len(Step) = Len(d)
    <3>1. IsField \/ IsKey \/ IsIndex
      BY <1>1, StepFacts
    <3> QED BY <3>1 DEF d, IsField, IsKey, IsIndex
  <2>3. CASE Following({"repeated", "map", "scalarMap"}, 1)
    BY <2>1, <2>2, <2>3 DEF Following
  <2>4. CASE Following({"scalarMap"}, 2) \/ Following({"scalars"}, 2)
    BY <2>1, <2>2, <2>4 DEF Following
  <2>5. CASE Following({"repeated"}, 2)
    <3>1. PICK n \in Number, i \in Int :
              Due = <<n, <<"int", i>>>> /\ Step = <<n, <<"int", ToInt(i)>>>>
      BY <2>5, IndexDue
    <3>2. Kind[n] = "repeated" /\ Step[2][2] = ToInt(i)
      BY <2>5, <3>1 DEF Following
    <3>3. i \in Int32 /\ i >= 0 /\ i <= here.size
      BY <1>1, <1>4, <3>1, <3>2, IndexHasRoom
    <3>4. Step[2][2] = i
      BY <3>2, <3>3, Casts DEF ToInt
    <3>5. ~(Step[2][2] > here.size) /\ ~(Step[2][2] < 0)
      BY <1>3, <3>3, <3>4
    <3>6. ~Following({"map"}, 2)
      BY <2>5 DEF Following
    <3> QED BY <2>3, <2>4, <3>5, <3>6 DEF FollowCrash
  <2>6. CASE Following({"map"}, 2) /\ FindMapKey(KeysAfterAdd, Step[2]) = {}
    <3>1. PICK c \in Element(Int) : KeyOf(Step[2]) = {c}
      BY <2>6, KeyDue
    <3> QED BY <2>6, <3>1 DEF FindMapKey, KeysAfterAdd
  <2> QED BY <2>3, <2>4, <2>5, <2>6 DEF FollowCrash
<1> QED BY <1>1, <1>4, Ends

\* Every step keeps the invariant.
LEMMA StepInv == IInv /\ [Next]_vars => IInv'
<1> SUFFICES ASSUME IInv, [Next]_vars
             PROVE  IInv'
  OBVIOUS
<1>1. CASE CallAddFieldTag \/ CallGetFieldTag
  BY <1>1, CallInv
<1>2. CASE ProcessFieldBadTag
  BY <1>2, ProcessFieldBadTagInv
<1>3. CASE ProcessField
  BY <1>3, ProcessFieldInv
<1>4. CASE FollowMessage \/ FollowScalar \/ FollowScalars
  BY <1>4, FollowFieldInv, FollowScalarsInv
<1>5. CASE FollowKey \/ AddMapEntry
  BY <1>5, FollowKeyInv
<1>6. CASE FollowElement \/ FollowNegative
  BY <1>6, FollowIndexInv
<1>7. CASE FollowCrash
  BY <1>7, FollowCrashInv
<1>8. CASE Arrive
  <2>1. status = "following" /\ todo = <<>> /\ End("there")
    BY <1>8 DEF Arrive
  <2> QED BY <2>1, Ends
<1>9. CASE UNCHANGED vars
  <2>1. UNCHANGED <<writer, keyType, path, message, written, todo, here, place, status>>
    BY <1>9 DEF vars, inputs
  <2>2. InputsOK' /\ Written'
    <3>1. UNCHANGED inputs
      BY <2>1 DEF inputs
    <3>2. CASE status = "calling"
      BY <2>1, <3>1, <3>2, WrittenStays DEF IInv, Written
    <3>3. CASE status # "calling"
      BY <2>1, <3>1, <3>3, WrittenStays DEF IInv
    <3> QED BY <3>2, <3>3
  <2>3. Followed' = Followed /\ MessageTagsSurvive' = MessageTagsSurvive
    <3>1. FitsInt(written.place)' = FitsInt(written.place)
      BY <2>1 DEF FitsInt
    <3>2. \A s : CastStep(s)' = CastStep(s)
      BY DEF CastStep, MapKeyOfTag, ToInt, Signed
    <3>3. Survives(written.place)' = Survives(written.place)
      BY <2>1, ThereStays DEF inputs
    <3> QED BY <2>1, <3>1, <3>2, <3>3 DEF Followed, MessageTagsSurvive, Survives
  <2>4. NotFollowed' = NotFollowed
    BY <2>1 DEF NotFollowed
  <2>5. here' \in {message', Empty'}
    BY <2>1 DEF Empty, IInv, FollowInv
  <2>6. AmongWhatIsThere'
    BY <2>1, StillAmong DEF inputs, IInv, FollowInv
  <2> QED BY <2>1, <2>2, <2>3, <2>4, <2>5, <2>6 DEF IInv, FollowInv
<1> QED BY <1>1, <1>2, <1>3, <1>4, <1>5, <1>6, <1>7, <1>8, <1>9 DEF Next

------------------------------------------------------------------------------
(* The theorems *)

\* The inductive invariant holds.
LEMMA IInvHolds == Spec => []IInv
BY InitInv, StepInv, PTL DEF Spec

\* What is known of the tag and of the place together has the right types.
LEMMA IInvTypes == IInv => TypeOK
<1> SUFFICES ASSUME IInv PROVE TypeOK
  OBVIOUS
<1>1. WrittenFacts /\ FollowInv /\ InputsOK
  BY WrittenGood DEF IInv
<1>2. ASSUME NEW t \in ToSet(written.tag), t[1] = "index"
      PROVE  t[2] \in 0..(2^LongBits - 1)
  <2>1. t \in TagElement
    <3>1. PICK j \in DOMAIN written.tag : t = written.tag[j]
      BY <1>2 DEF ToSet
    <3>2. written.tag \in Seq(TagElement)
      BY <1>1 DEF WrittenFacts
    <3> QED BY <3>1, <3>2, ElementOfSeq, LenProperties
  <2>2. t \in {"index"} \X (0..(2^LongBits - 1))
    BY <1>2, <2>1 DEF TagElement, BadTag
  <2> QED BY <2>2
<1>3. Len(todo) + Len(place) <= Len(path)
  <2>1. /\ Len(todo) \in Nat /\ Len(place) \in Nat /\ Len(path) \in Nat
        /\ Len(written.place) <= Len(path)
    BY <1>1, InputTypes, LenProperties DEF FollowInv, WrittenFacts
  <2>2. NotFollowed \/ Followed
    BY <1>1 DEF FollowInv
  <2>3. CASE NotFollowed
    <3>1. Len(todo) = 0 /\ Len(place) = 0
      BY <2>3 DEF NotFollowed
    <3> QED BY <2>1, <3>1
  <2>4. CASE Followed
    <3>1. Len(place) + Len(todo) = Len(written.place)
      BY <2>4 DEF Followed
    <3> QED BY <2>1, <3>1
  <2> QED BY <2>2, <2>3, <2>4
<1> QED BY <1>1, <1>2, <1>3 DEF TypeOK, FollowInv, InputsOK, WrittenFacts

\* At each moment the tag is the one that the walk along the path ends with, and what has
\* been followed of it and what is left make up the place it was written for.
THEOREM Invariance == Spec => []FieldTagsInv
<1>1. IInv => FieldTagsInv
  BY IInvTypes DEF IInv, Written, FollowInv, FieldTagsInv
<1> QED BY <1>1, IInvHolds, PTL

\* Every variable keeps its type; an index on the wire is a uint64, whatever index was given.
THEOREM Typing == Spec => []TypeOK
<1>1. FieldTagsInv => TypeOK
  BY DEF FieldTagsInv
<1> QED BY <1>1, Invariance, PTL

\* The merge arrives where the tag was written for, unless an int on the way is too long.
THEOREM TagsLeadBack == Spec => []LeadsBack
<1>1. IInv => LeadsBack
  <2> SUFFICES ASSUME IInv, status = "there", FitsInt(written.place)
               PROVE  place = written.place
    BY DEF LeadsBack
  <2>1. /\ todo = <<>> /\ place \in Seq(PlaceStep) /\ written.place \in Seq(PlaceStep)
        /\ Len(place) + Len(todo) = Len(written.place)
        /\ \A j \in DOMAIN place : place[j] = written.place[j]
    BY WrittenGood DEF IInv, FollowInv, Followed, WrittenFacts
  <2>2. Len(place) \in Nat /\ DOMAIN place = 1..Len(place) /\ Len(todo) = 0
    BY <2>1, LenProperties
  <2>3. Len(place) = Len(written.place)
    BY <2>1, <2>2
  <2> QED BY <2>1, <2>2, <2>3, SeqEqual
<1> QED BY <1>1, IInvHolds, PTL

\* No complete tag with its indices in order ends the process, neither where it is written
\* nor where it is followed, but those into arrays of scalars and maps with scalar values.
THEOREM MessageTags == Spec => []MessageTagsSurvive
<1>1. FieldTagsInv => MessageTagsSurvive
  BY DEF FieldTagsInv
<1> QED BY <1>1, Invariance, PTL

\* AddFieldTag and get_field_tag, where both accept a path, write the same tag for it.
THEOREM OneTag == Spec => []SameTag
<1>1. IInv => SameTag
  <2> SUFFICES ASSUME IInv, status = "tagged", writer = "C++", written.status = "OK",
                      GetFieldTag(path).status = "OK"
               PROVE  GetFieldTag(path).tag = written.tag
    BY DEF SameTag
  <2>1. written = AddFieldTag(path)
    BY DEF IInv, Written
  <2>2. keyType \in AllKeyTypes /\ path \in Seq(Element(Int32))
    BY InputTypes DEF IInv
  <2> QED BY <2>1, <2>2, SameWalks
<1> QED BY <1>1, IInvHolds, PTL

\* What GetField finds, AddFieldTag tags, and with the place that GetField has found.
THEOREM FoundTagged == Spec => []FoundIsTagged
<1>1. IInv => FoundIsTagged
  <2> SUFFICES ASSUME IInv, status = "tagged", writer = "C++", keyType # "sint32",
                      GetField(path).status = "OK"
               PROVE  written.status = "OK" /\ written.place = GetField(path).place
    BY DEF FoundIsTagged
  <2>1. written = AddFieldTag(path)
    BY DEF IInv, Written
  <2>2. path \in Seq(Element(Int32))
    BY InputTypes DEF IInv
  <2> QED BY <2>1, <2>2, FoundWalks
<1> QED BY <1>1, IInvHolds, PTL

==============================================================================
