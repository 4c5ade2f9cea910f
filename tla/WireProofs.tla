----------------------------- MODULE WireProofs -----------------------------
(***************************************************************************)
(* Proofs about Wire: the reader of frames, for every set of frame classes *)
(* of the catalogue, every length of their variable fields, every limit    *)
(* that is proposed and every way in which the network cuts the stream.    *)
(*                                                                         *)
(* 1. Sums.  The size of a payload and the place of a frame in the stream  *)
(*    are sums over a sequence; Total is such a sum and grows one weight   *)
(*    at a time.                                                           *)
(* 2. Classes.  Each of the 65 classes announces the payload that fill()   *)
(*    writes (Fits), under the numbers by which ReceivedFrame::process     *)
(*    makes it again (Right): a lemma for each group of classes.           *)
(* 3. Places and limits.  The ends of the frames, the bytes between two of *)
(*    them, and the chain of the limits that connection.tune sets.         *)
(* 4. The inductive invariant WireInv, action by action, and the five      *)
(*    invariants of the run that follow from it.                           *)
(***************************************************************************)
EXTENDS Wire, Flattening, FiniteSetTheorems

-----------------------------------------------------------------------------
(* Sums: the function of the partial sums of some weights.                  *)
Added(w, g, j) == IF j = 0 THEN 0 ELSE g[j - 1] + w[j]
Sums(w, n, g) == g = [j \in 0..n |-> Added(w, g, j)]
Total(w, n) == (CHOOSE g : Sums(w, n, g))[n]

(* One partial sum from the one before it.                                  *)
LEMMA AddedStep ==
    ASSUME NEW w, NEW g, NEW n \in Nat
    PROVE  Added(w, g, 0) = 0 /\ Added(w, g, n + 1) = g[n] + w[n + 1]
<1> DEFINE j == n + 1
<1>1. j - 1 = n /\ j # 0
  OBVIOUS
<1> HIDE DEF j
<1>2. Added(w, g, j) = g[n] + w[j]
  BY <1>1 DEF Added
<1>3. Added(w, g, 0) = 0
  BY DEF Added
<1> QED
  BY <1>2, <1>3 DEF j

(* The partial sum at a place.                                              *)
LEMMA SumsStep ==
    ASSUME NEW w, NEW n, NEW g, Sums(w, n, g), NEW j \in 0..n
    PROVE  g[j] = Added(w, g, j)
BY DEF Sums

Agree(w, v, m) == \A j \in 1..m : w[j] = v[j]

(* There is only one function of partial sums, as far as the weights agree. *)
LEMMA SumsUnique ==
    ASSUME NEW w, NEW v, NEW m \in Nat, NEW n \in Nat, m <= n, Agree(w, v, m),
           NEW g, NEW h, Sums(w, m, g), Sums(v, n, h)
    PROVE  \A j \in 0..m : g[j] = h[j]
<1> DEFINE S == {k \in Nat : k \in 0..m => g[k] = h[k]}
<1>1. 0 \in S
  <2>1. 0 \in 0..m /\ 0 \in 0..n
    OBVIOUS
  <2>2. g[0] = 0 /\ h[0] = 0
    BY <2>1, SumsStep, AddedStep
  <2> QED
    BY <2>2
<1>2. ASSUME NEW k \in Nat, k \in S PROVE k + 1 \in S
  <2> SUFFICES ASSUME k + 1 \in 0..m PROVE g[k + 1] = h[k + 1]
    OBVIOUS
  <2>1. k + 1 \in 0..n /\ k \in 0..m /\ k + 1 \in 1..m
    OBVIOUS
  <2>2. g[k] = h[k] /\ w[k + 1] = v[k + 1]
    BY <1>2, <2>1 DEF Agree
  <2>3. g[k + 1] = Added(w, g, k + 1) /\ h[k + 1] = Added(v, h, k + 1)
    BY <2>1, SumsStep
  <2>4. Added(w, g, k + 1) = g[k] + w[k + 1] /\ Added(v, h, k + 1) = h[k] + v[k + 1]
    BY AddedStep
  <2> QED
    BY <2>2, <2>3, <2>4
<1>3. Nat \subseteq S
  <2> HIDE DEF S
  <2> QED
    BY <1>1, <1>2, SetInduction
<1> QED
  BY <1>3

(* There is one.                                                            *)
LEMMA SumsExist ==
    ASSUME NEW w, NEW n \in Nat, \A j \in 1..n : w[j] \in Nat
    PROVE  \E g \in [0..n -> Nat] : Sums(w, n, g)
<1> DEFINE Eq(k, g) == \A j \in 0..k : g[j] = Added(w, g, j)
           P(k) == k <= n => \E g \in [0..k -> Nat] : Eq(k, g)
           S == {k \in Nat : P(k)}
<1>1. P(0)
  <2> DEFINE g == [j \in 0..0 |-> 0]
  <2>1. g \in [0..0 -> Nat]
    OBVIOUS
  <2>2. Eq(0, g)
    BY AddedStep
  <2> QED
    BY <2>1, <2>2
<1>2. ASSUME NEW k \in Nat, P(k) PROVE P(k + 1)
  <2> SUFFICES ASSUME k + 1 <= n PROVE \E g \in [0..k + 1 -> Nat] : Eq(k + 1, g)
    OBVIOUS
  <2>1. PICK g \in [0..k -> Nat] : Eq(k, g)
    <3>1. k <= n
      OBVIOUS
    <3> QED
      BY <1>2, <3>1
  <2> DEFINE h == [j \in 0..k + 1 |-> IF j <= k THEN g[j] ELSE g[k] + w[k + 1]]
  <2>2. k + 1 \in 1..n /\ k \in 0..k
    OBVIOUS
  <2>3. g[k] + w[k + 1] \in Nat
    BY <2>1, <2>2
  <2>4. h \in [0..k + 1 -> Nat]
    BY <2>1, <2>3
  <2>5. ASSUME NEW j \in 0..k + 1 PROVE h[j] = Added(w, h, j)
    <3>1. CASE j = 0
      BY <2>1, <3>1, AddedStep
    <3>2. CASE j # 0
      <4> DEFINE i == j - 1
      <4>1. i \in Nat /\ i \in 0..k /\ i + 1 = j
        BY <3>2
      <4>2. h[i] = g[i]
        BY <4>1
      <4>3. Added(w, h, i + 1) = h[i] + w[i + 1] /\ Added(w, g, i + 1) = g[i] + w[i + 1]
        BY <4>1, AddedStep
      <4>4. CASE j <= k
        <5>1. g[j] = Added(w, g, j)
          BY <2>1, <4>4
        <5> QED
          BY <4>1, <4>2, <4>3, <4>4, <5>1
      <4>5. CASE j = k + 1
        <5>1. i = k
          BY <4>5
        <5> QED
          BY <4>1, <4>2, <4>3, <4>5, <5>1
      <4> QED
        BY <4>4, <4>5
    <3> QED
      BY <3>1, <3>2
  <2> QED
    BY <2>4, <2>5
<1>3. \A k \in Nat : P(k)
  <2> HIDE DEF P
  <2>1. 0 \in S /\ \A k \in Nat : k \in S => k + 1 \in S
    BY <1>1, <1>2
  <2> QED
    BY <2>1, SetInduction
<1>4. PICK g \in [0..n -> Nat] : Eq(n, g)
  <2>1. P(n)
    BY <1>3, Zenon
  <2>2. n <= n
    OBVIOUS
  <2> QED
    BY <2>1, <2>2, Zenon
<1>5. Sums(w, n, g)
  BY <1>4 DEF Sums
<1> QED
  BY <1>5

(* What Total takes.                                                        *)
LEMMA TotalSums ==
    ASSUME NEW w, NEW n \in Nat, \A j \in 1..n : w[j] \in Nat, NEW g, Sums(w, n, g)
    PROVE  \A m \in 0..n : Total(w, m) = g[m] /\ g[m] \in Nat
<1> SUFFICES ASSUME NEW m \in 0..n PROVE Total(w, m) = g[m] /\ g[m] \in Nat
  OBVIOUS
<1>1. m \in Nat /\ m <= n /\ m \in 0..m /\ \A j \in 1..m : w[j] \in Nat
  OBVIOUS
<1>2. PICK f \in [0..m -> Nat] : Sums(w, m, f)
  BY <1>1, SumsExist
<1> DEFINE c == CHOOSE d : Sums(w, m, d)
<1>3. Sums(w, m, c)
  BY <1>2
<1> HIDE DEF c
<1>a. Agree(w, w, m)
  BY DEF Agree
<1>4. c[m] = g[m]
  BY <1>1, <1>3, <1>a, SumsUnique
<1>5. f[m] = g[m]
  BY <1>1, <1>2, <1>a, SumsUnique
<1> QED
  BY <1>1, <1>2, <1>4, <1>5 DEF Total, c

(* A total grows by the next weight.                                        *)
LEMMA TotalStep ==
    ASSUME NEW w, NEW n \in Nat, \A j \in 1..n : w[j] \in Nat
    PROVE  /\ Total(w, 0) = 0
           /\ \A m \in 0..n : Total(w, m) \in Nat
           /\ \A m \in 1..n : Total(w, m) = Total(w, m - 1) + w[m]
<1>1. PICK g \in [0..n -> Nat] : Sums(w, n, g)
  BY SumsExist
<1>2. \A m \in 0..n : Total(w, m) = g[m] /\ g[m] \in Nat
  BY <1>1, TotalSums
<1>3. 0 \in 0..n
  OBVIOUS
<1>4. Total(w, 0) = 0
  BY <1>1, <1>2, <1>3, SumsStep, AddedStep
<1>5. ASSUME NEW m \in 1..n PROVE Total(w, m) = Total(w, m - 1) + w[m]
  <2>1. m \in 0..n /\ m - 1 \in 0..n /\ m - 1 \in Nat /\ (m - 1) + 1 = m
    OBVIOUS
  <2>2. g[m] = Added(w, g, m)
    BY <1>1, <2>1, SumsStep
  <2>3. Added(w, g, (m - 1) + 1) = g[m - 1] + w[(m - 1) + 1]
    BY <2>1, AddedStep
  <2> QED
    BY <1>2, <2>1, <2>2, <2>3
<1> QED
  BY <1>2, <1>4, <1>5

(* Totals of weights that agree.                                            *)
LEMMA TotalSame ==
    ASSUME NEW w, NEW v, NEW n \in Nat, \A j \in 1..n : w[j] \in Nat, \A j \in 1..n : w[j] = v[j]
    PROVE  Total(w, n) = Total(v, n)
<1>1. PICK g \in [0..n -> Nat] : Sums(w, n, g)
  BY SumsExist
<1>2. \A j \in 1..n : v[j] \in Nat
  OBVIOUS
<1>3. PICK h \in [0..n -> Nat] : Sums(v, n, h)
  BY <1>2, SumsExist
<1>4. n \in 0..n /\ n <= n
  OBVIOUS
<1>5. Total(w, n) = g[n]
  BY <1>1, <1>4, TotalSums
<1>6. Total(v, n) = h[n]
  BY <1>2, <1>3, <1>4, TotalSums
<1>7. Agree(w, v, n)
  BY DEF Agree
<1>8. \A j \in 0..n : g[j] = h[j]
  BY <1>1, <1>3, <1>4, <1>7, SumsUnique
<1> QED
  BY <1>4, <1>5, <1>6, <1>8

-----------------------------------------------------------------------------
(* Fields: what fill() writes for a list of them, and what a constructor    *)
(* has to announce for it.                                                  *)
Field == {"octet", "bits", "empty", "short", "long", "emptylong", "longlong", "shortstr", "longstr",
          "table", "metadata", "data"}
Constant(f) ==
    IF f \in {"octet", "bits", "empty", "shortstr"} THEN 1
    ELSE IF f = "short" THEN 2
    ELSE IF f \in {"long", "emptylong", "longstr"} THEN 4
    ELSE IF f = "longlong" THEN 8 ELSE 0
Variable(f) == IF f \in {"shortstr", "longstr", "table", "metadata", "data"} THEN 1 ELSE 0
Own(f) == IF f = "table" THEN 4 ELSE IF f = "metadata" THEN 2 ELSE 0

Widths(F, n) == [i \in 1..Len(F) |-> Width(F[i], n)]
Filled(F, n) == Total(Widths(F, n), Len(F))
Count(F, f) == Cardinality({i \in DOMAIN F : F[i] = f})
Fits(F, x, o) ==
    /\ F \in Seq(Field) /\ x \in Nat /\ o \in Nat
    /\ Count(F, "table") \in Nat /\ Count(F, "metadata") \in Nat
    /\ \A n \in Nat : Filled(F, n) = x + o * n + 4 * Count(F, "table") + 2 * Count(F, "metadata")

(* The width of a field.                                                    *)
LEMMA WidthFacts ==
    ASSUME NEW f \in Field, NEW n \in Nat
    PROVE  Width(f, n) = Constant(f) + Variable(f) * n + Own(f) /\ Width(f, n) \in Nat
BY DEF Field, Constant, Variable, Own, Width

(* One field more.                                                          *)
LEMMA CountAppend ==
    ASSUME NEW F \in Seq(Field), NEW f \in Field, NEW g
    PROVE  /\ Count(F, g) \in Nat
           /\ Count(Append(F, f), g) = Count(F, g) + (IF f = g THEN 1 ELSE 0)
<1> DEFINE A == Append(F, f)
           l == Len(F)
           C == {i \in DOMAIN F : F[i] = g}
           D == {i \in DOMAIN A : A[i] = g}
<1>1. /\ l \in Nat /\ DOMAIN F = 1..l /\ DOMAIN A = 1..(l + 1)
      /\ A[l + 1] = f /\ \A i \in 1..l : A[i] = F[i]
  BY AppendProperties, LenProperties
<1>2. IsFiniteSet(C) /\ Cardinality(C) \in Nat
  <2>1. IsFiniteSet(1..l)
    BY <1>1, FS_Interval
  <2>2. C \subseteq 1..l
    BY <1>1
  <2>3. IsFiniteSet(C)
    BY <2>1, <2>2, FS_Subset
  <2> QED
    BY <2>3, FS_CardinalityType
<1>3. l + 1 \notin C
  BY <1>1
<1>4. CASE f = g
  <2>1. D = C \union {l + 1}
    BY <1>1, <1>4
  <2>2. Cardinality(C \union {l + 1}) = Cardinality(C) + 1
    BY <1>2, <1>3, FS_AddElement
  <2> QED
    BY <1>2, <1>4, <2>1, <2>2 DEF Count
<1>5. CASE f # g
  <2>1. D = C
    BY <1>1, <1>5
  <2>2. Count(F, g) = Cardinality(C) /\ Count(A, g) = Cardinality(D)
    BY DEF Count
  <2> HIDE DEF A, C, D
  <2>3. Count(A, g) = Count(F, g) /\ Count(F, g) \in Nat
    BY <1>2, <2>1, <2>2
  <2> QED
    BY <1>5, <2>3 DEF A
<1> QED
  BY <1>4, <1>5

(* fill() writes one more field behind the others.                          *)
LEMMA FilledAppend ==
    ASSUME NEW F \in Seq(Field), NEW f \in Field, NEW n \in Nat
    PROVE  /\ Filled(F, n) \in Nat
           /\ Filled(Append(F, f), n) = Filled(F, n) + Width(f, n)
<1> DEFINE A == Append(F, f)
           l == Len(F)
           v == Widths(F, n)
           w == Widths(A, n)
<1>1. /\ l \in Nat /\ Len(A) = l + 1 /\ A[l + 1] = f /\ \A i \in 1..l : A[i] = F[i]
  BY AppendProperties, LenProperties
<1>2. \A i \in 1..l : F[i] \in Field
  BY ElementOfSeq
<1>3. \A i \in 1..l : v[i] \in Nat /\ v[i] = w[i]
  <2> SUFFICES ASSUME NEW i \in 1..l PROVE v[i] \in Nat /\ v[i] = w[i]
    OBVIOUS
  <2>1. v[i] = Width(F[i], n)
    BY DEF Widths
  <2>2. i \in 1..Len(A) /\ A[i] = F[i]
    BY <1>1
  <2>3. w[i] = Width(A[i], n)
    BY <2>2 DEF Widths
  <2>4. Width(F[i], n) \in Nat
    BY <1>2, WidthFacts
  <2> QED
    BY <2>1, <2>2, <2>3, <2>4
<1>4. w[l + 1] = Width(f, n) /\ w[l + 1] \in Nat
  <2>1. l + 1 \in 1..Len(A) /\ A[l + 1] = f
    BY <1>1
  <2>2. w[l + 1] = Width(A[l + 1], n)
    BY <2>1 DEF Widths
  <2>3. Width(f, n) \in Nat
    BY WidthFacts
  <2> HIDE DEF A, w, l
  <2> QED
    BY <2>1, <2>2, <2>3
<1>5. \A i \in 1..(l + 1) : w[i] \in Nat
  BY <1>1, <1>3, <1>4
<1>6. Filled(F, n) = Total(v, l) /\ Filled(A, n) = Total(w, l + 1)
  BY <1>1 DEF Filled
<1> HIDE DEF A, l, v, w
<1>7. Total(v, l) = Total(w, l)
  BY <1>1, <1>3, TotalSame
<1>8. l + 1 \in 1..(l + 1) /\ l + 1 \in Nat /\ (l + 1) - 1 = l /\ l \in 0..l
  BY <1>1
<1>9. Total(w, l + 1) = Total(w, (l + 1) - 1) + w[l + 1]
  BY <1>5, <1>8, TotalStep
<1>10. Total(v, l) \in Nat
  BY <1>1, <1>3, <1>8, TotalStep
<1> QED
  BY <1>4, <1>6, <1>7, <1>8, <1>9, <1>10 DEF A

(* No fields: nothing to announce.                                          *)
LEMMA FitsEmpty == Fits(<<>>, 0, 0)
<1>1. <<>> \in Seq(Field) /\ Len(<<>>) = 0 /\ DOMAIN <<>> = {}
  BY EmptySeq
<1>2. \A f : Count(<<>>, f) = 0
  <2>1. \A f : {i \in DOMAIN <<>> : <<>>[i] = f} = {}
    BY <1>1
  <2> QED
    BY <2>1, FS_EmptySet DEF Count
<1>3. \A n \in Nat : Filled(<<>>, n) = 0
  <2>1. \A n \in Nat : \A j \in 1..0 : Widths(<<>>, n)[j] \in Nat
    OBVIOUS
  <2> QED
    BY <1>1, <2>1, TotalStep DEF Filled
<1> QED
  BY <1>1, <1>2, <1>3 DEF Fits

(* A constructor that adds a field's constant and variable part to what it  *)
(* announced for the others announces all of them.                          *)
LEMMA FitsAppend ==
    ASSUME NEW F, NEW x, NEW o, Fits(F, x, o), NEW f \in Field
    PROVE  Fits(Append(F, f), x + Constant(f), o + Variable(f))
<1> DEFINE A == Append(F, f)
           a == Count(F, "table")
           b == Count(F, "metadata")
           c == Count(A, "table")
           d == Count(A, "metadata")
           y == Constant(f)
           p == Variable(f)
<1>1. /\ F \in Seq(Field) /\ x \in Nat /\ o \in Nat /\ a \in Nat /\ b \in Nat
      /\ \A n \in Nat : Filled(F, n) = x + o * n + 4 * a + 2 * b
  BY DEF Fits
<1>2. A \in Seq(Field)
  BY <1>1, AppendProperties
<1>3. y \in Nat /\ p \in Nat
  BY DEF Constant, Variable
<1>4. /\ c = a + (IF f = "table" THEN 1 ELSE 0) /\ d = b + (IF f = "metadata" THEN 1 ELSE 0)
  BY <1>1, CountAppend
<1> HIDE DEF A, a, b, c, d, y, p
<1>5. c \in Nat /\ d \in Nat /\ 4 * c + 2 * d = 4 * a + 2 * b + Own(f)
  BY <1>1, <1>4 DEF Own
<1>6. Own(f) \in Nat
  BY DEF Own
<1>7. ASSUME NEW n \in Nat PROVE Filled(A, n) = (x + y) + (o + p) * n + 4 * c + 2 * d
  <2>1. Filled(A, n) = Filled(F, n) + Width(f, n)
    BY <1>1, FilledAppend DEF A
  <2>2. Width(f, n) = y + p * n + Own(f)
    BY WidthFacts DEF y, p
  <2>3. Filled(F, n) = x + o * n + 4 * a + 2 * b
    BY <1>1
  <2>4. (o + p) * n = o * n + p * n /\ o * n \in Nat /\ p * n \in Nat
    BY <1>1, <1>3
  <2>5. (x + o * n + 4 * a + 2 * b) + (y + p * n + Own(f)) = (x + y) + (o * n + p * n) + 4 * c + 2 * d
    <3> DEFINE s == o * n
               t == p * n
               u == Own(f)
    <3>1. s \in Nat /\ t \in Nat /\ u \in Nat /\ 4 * c + 2 * d = 4 * a + 2 * b + u
      BY <1>5, <1>6, <2>4
    <3> HIDE DEF s, t, u
    <3>2. (x + s + 4 * a + 2 * b) + (y + t + u) = (x + y) + (s + t) + 4 * c + 2 * d
      BY <1>1, <1>3, <1>5, <3>1
    <3> QED
      BY <3>2 DEF s, t, u
  <2> QED
    BY <2>1, <2>2, <2>3, <2>4, <2>5
<1>8. x + y \in Nat /\ o + p \in Nat
  BY <1>1, <1>3
<1> QED
  BY <1>2, <1>5, <1>7, <1>8 DEF Fits, A, c, d, y, p

Push(s, x) == Append(s, x)

(* What Append does.                                                        *)
LEMMA PushFacts ==
    ASSUME NEW X, NEW s \in Seq(X), NEW x \in X
    PROVE  /\ Push(s, x) \in Seq(X) /\ Len(Push(s, x)) = Len(s) + 1
           /\ Push(s, x)[Len(s) + 1] = x /\ \A i \in 1..Len(s) : Push(s, x)[i] = s[i]
BY AppendProperties DEF Push

(* The tuples of up to six elements, by their elements and by the last one. *)
LEMMA Tuple1 ==
    ASSUME NEW X, NEW s \in Seq(X), Len(s) = 1, NEW a \in X,
           s[1] = a
    PROVE  s = <<a>>
OBVIOUS

(* The tuple of 1 element as the last one put behind the others.            *)
LEMMA Push1 ==
    ASSUME NEW X, NEW a \in X
    PROVE  Push(<<>>, a) = <<a>>
BY DEF Push

(* A sequence of 2 elements is the tuple of its elements.                   *)
LEMMA Tuple2 ==
    ASSUME NEW X, NEW s \in Seq(X), Len(s) = 2, NEW a \in X, NEW b \in X,
           s[1] = a, s[2] = b
    PROVE  s = <<a, b>>
OBVIOUS

(* The tuple of 2 elements as the last one put behind the others.           *)
LEMMA Push2 ==
    ASSUME NEW X, NEW a \in X, NEW b \in X
    PROVE  Push(<<a>>, b) = <<a, b>>
<1> DEFINE s == <<a>>
           A == Push(s, b)
<1>1. Len(s) = 1 /\ s[1] = a
  OBVIOUS
<1>2. s \in Seq(X)
  OBVIOUS
<1> HIDE DEF s
<1>3. A \in Seq(X)
  BY <1>2, PushFacts, Zenon
<1>4. Len(A) = Len(s) + 1
  BY <1>2, PushFacts, Zenon
<1>5. A[Len(s) + 1] = b
  BY <1>2, PushFacts, Zenon
<1>6. \A i \in 1..Len(s) : A[i] = s[i]
  BY <1>2, PushFacts, SMT
<1> HIDE DEF A
<1>7. Len(A) = 2 /\ A[1] = a /\ A[2] = b
  BY <1>1, <1>4, <1>5, <1>6
<1>8. A = <<a, b>>
  BY <1>3, <1>7, Tuple2
<1> QED
  BY <1>8 DEF A, s

(* A sequence of 3 elements is the tuple of its elements.                   *)
LEMMA Tuple3 ==
    ASSUME NEW X, NEW s \in Seq(X), Len(s) = 3, NEW a \in X, NEW b \in X, NEW c \in X,
           s[1] = a, s[2] = b, s[3] = c
    PROVE  s = <<a, b, c>>
OBVIOUS

(* The tuple of 3 elements as the last one put behind the others.           *)
LEMMA Push3 ==
    ASSUME NEW X, NEW a \in X, NEW b \in X, NEW c \in X
    PROVE  Push(<<a, b>>, c) = <<a, b, c>>
<1> DEFINE s == <<a, b>>
           A == Push(s, c)
<1>1. Len(s) = 2 /\ s[1] = a /\ s[2] = b
  OBVIOUS
<1>2. s \in Seq(X)
  OBVIOUS
<1> HIDE DEF s
<1>3. A \in Seq(X)
  BY <1>2, PushFacts, Zenon
<1>4. Len(A) = Len(s) + 1
  BY <1>2, PushFacts, Zenon
<1>5. A[Len(s) + 1] = c
  BY <1>2, PushFacts, Zenon
<1>6. \A i \in 1..Len(s) : A[i] = s[i]
  BY <1>2, PushFacts, SMT
<1> HIDE DEF A
<1>7. Len(A) = 3 /\ A[1] = a /\ A[2] = b /\ A[3] = c
  BY <1>1, <1>4, <1>5, <1>6
<1>8. A = <<a, b, c>>
  BY <1>3, <1>7, Tuple3
<1> QED
  BY <1>8 DEF A, s

(* A sequence of 4 elements is the tuple of its elements.                   *)
LEMMA Tuple4 ==
    ASSUME NEW X, NEW s \in Seq(X), Len(s) = 4, NEW a \in X, NEW b \in X, NEW c \in X, NEW d \in X,
           s[1] = a, s[2] = b, s[3] = c, s[4] = d
    PROVE  s = <<a, b, c, d>>
OBVIOUS

(* The tuple of 4 elements as the last one put behind the others.           *)
LEMMA Push4 ==
    ASSUME NEW X, NEW a \in X, NEW b \in X, NEW c \in X, NEW d \in X
    PROVE  Push(<<a, b, c>>, d) = <<a, b, c, d>>
<1> DEFINE s == <<a, b, c>>
           A == Push(s, d)
<1>1. Len(s) = 3 /\ s[1] = a /\ s[2] = b /\ s[3] = c
  OBVIOUS
<1>2. s \in Seq(X)
  OBVIOUS
<1> HIDE DEF s
<1>3. A \in Seq(X)
  BY <1>2, PushFacts, Zenon
<1>4. Len(A) = Len(s) + 1
  BY <1>2, PushFacts, Zenon
<1>5. A[Len(s) + 1] = d
  BY <1>2, PushFacts, Zenon
<1>6. \A i \in 1..Len(s) : A[i] = s[i]
  BY <1>2, PushFacts, SMT
<1> HIDE DEF A
<1>7. Len(A) = 4 /\ A[1] = a /\ A[2] = b /\ A[3] = c /\ A[4] = d
  BY <1>1, <1>4, <1>5, <1>6
<1>8. A = <<a, b, c, d>>
  BY <1>3, <1>7, Tuple4
<1> QED
  BY <1>8 DEF A, s

(* A sequence of 5 elements is the tuple of its elements.                   *)
LEMMA Tuple5 ==
    ASSUME NEW X, NEW s \in Seq(X), Len(s) = 5, NEW a \in X, NEW b \in X, NEW c \in X, NEW d \in X,
           NEW e \in X,
           s[1] = a, s[2] = b, s[3] = c, s[4] = d, s[5] = e
    PROVE  s = <<a, b, c, d, e>>
OBVIOUS

(* The tuple of 5 elements as the last one put behind the others.           *)
LEMMA Push5 ==
    ASSUME NEW X, NEW a \in X, NEW b \in X, NEW c \in X, NEW d \in X, NEW e \in X
    PROVE  Push(<<a, b, c, d>>, e) = <<a, b, c, d, e>>
<1> DEFINE s == <<a, b, c, d>>
           A == Push(s, e)
<1>1. Len(s) = 4 /\ s[1] = a /\ s[2] = b /\ s[3] = c /\ s[4] = d
  OBVIOUS
<1>2. s \in Seq(X)
  OBVIOUS
<1> HIDE DEF s
<1>3. A \in Seq(X)
  BY <1>2, PushFacts, Zenon
<1>4. Len(A) = Len(s) + 1
  BY <1>2, PushFacts, Zenon
<1>5. A[Len(s) + 1] = e
  BY <1>2, PushFacts, Zenon
<1>6. \A i \in 1..Len(s) : A[i] = s[i]
  BY <1>2, PushFacts, SMT
<1> HIDE DEF A
<1>7. Len(A) = 5 /\ A[1] = a /\ A[2] = b /\ A[3] = c /\ A[4] = d /\ A[5] = e
  BY <1>1, <1>4, <1>5, <1>6
<1>8. A = <<a, b, c, d, e>>
  BY <1>3, <1>7, Tuple5
<1> QED
  BY <1>8 DEF A, s

(* A sequence of 6 elements is the tuple of its elements.                   *)
LEMMA Tuple6 ==
    ASSUME NEW X, NEW s \in Seq(X), Len(s) = 6, NEW a \in X, NEW b \in X, NEW c \in X, NEW d \in X,
           NEW e \in X, NEW f \in X,
           s[1] = a, s[2] = b, s[3] = c, s[4] = d, s[5] = e, s[6] = f
    PROVE  s = <<a, b, c, d, e, f>>
OBVIOUS

(* The tuple of 6 elements as the last one put behind the others.           *)
LEMMA Push6 ==
    ASSUME NEW X, NEW a \in X, NEW b \in X, NEW c \in X, NEW d \in X, NEW e \in X, NEW f \in X
    PROVE  Push(<<a, b, c, d, e>>, f) = <<a, b, c, d, e, f>>
<1> DEFINE s == <<a, b, c, d, e>>
           A == Push(s, f)
<1>1. Len(s) = 5 /\ s[1] = a /\ s[2] = b /\ s[3] = c /\ s[4] = d /\ s[5] = e
  OBVIOUS
<1>2. s \in Seq(X)
  OBVIOUS
<1> HIDE DEF s
<1>3. A \in Seq(X)
  BY <1>2, PushFacts, Zenon
<1>4. Len(A) = Len(s) + 1
  BY <1>2, PushFacts, Zenon
<1>5. A[Len(s) + 1] = f
  BY <1>2, PushFacts, Zenon
<1>6. \A i \in 1..Len(s) : A[i] = s[i]
  BY <1>2, PushFacts, SMT
<1> HIDE DEF A
<1>7. Len(A) = 6 /\ A[1] = a /\ A[2] = b /\ A[3] = c /\ A[4] = d /\ A[5] = e /\ A[6] = f
  BY <1>1, <1>4, <1>5, <1>6
<1>8. A = <<a, b, c, d, e, f>>
  BY <1>3, <1>7, Tuple6
<1> QED
  BY <1>8 DEF A, s

(* More fields behind those that there are.                                 *)
LEMMA Behind0 ==
    ASSUME NEW F, NEW x, NEW o, Fits(F, x, o)
    PROVE  Fits(F \o <<>>, x, o)
BY ConcatEmptySeq DEF Fits

(* One field behind those that there are.                                   *)
LEMMA Behind1 ==
    ASSUME NEW F, NEW x, NEW o, Fits(F, x, o), NEW a \in Field
    PROVE  Fits(F \o <<a>>, x + Constant(a),
                o + Variable(a))
<1> DEFINE G == <<>>
           H == <<a>>
           y == x
           p == o
<1>1. F \in Seq(Field)
  BY DEF Fits
<1>2. Fits(F \o G, y, p)
  BY Behind0
<1>3. G \in Seq(Field)
  BY EmptySeq
<1>4. Append(G, a) = H
  BY Push1 DEF Push
<1> HIDE DEF G
<1> HIDE DEF H, y, p
<1>5. F \o Append(G, a) = Append(F \o G, a)
  BY <1>1, <1>3, ConcatAppend
<1>6. Fits(Append(F \o G, a), y + Constant(a), p + Variable(a))
  BY <1>2, FitsAppend
<1>7. Fits(F \o H, y + Constant(a), p + Variable(a))
  BY <1>4, <1>5, <1>6
<1> QED
  BY <1>7 DEF H, y, p

(* Two fields behind those that there are.                                  *)
LEMMA Behind2 ==
    ASSUME NEW F, NEW x, NEW o, Fits(F, x, o), NEW a \in Field, NEW b \in Field
    PROVE  Fits(F \o <<a, b>>, x + Constant(a) + Constant(b),
                o + Variable(a) + Variable(b))
<1> DEFINE G == <<a>>
           H == <<a, b>>
           y == x + Constant(a)
           p == o + Variable(a)
<1>1. F \in Seq(Field)
  BY DEF Fits
<1>2. Fits(F \o G, y, p)
  BY Behind1
<1>3. G \in Seq(Field)
  OBVIOUS
<1>4. Append(G, b) = H
  BY Push2 DEF Push
<1> HIDE DEF G
<1> HIDE DEF H, y, p
<1>5. F \o Append(G, b) = Append(F \o G, b)
  BY <1>1, <1>3, ConcatAppend
<1>6. Fits(Append(F \o G, b), y + Constant(b), p + Variable(b))
  BY <1>2, FitsAppend
<1>7. Fits(F \o H, y + Constant(b), p + Variable(b))
  BY <1>4, <1>5, <1>6
<1> QED
  BY <1>7 DEF H, y, p

(* Three fields behind those that there are.                                *)
LEMMA Behind3 ==
    ASSUME NEW F, NEW x, NEW o, Fits(F, x, o), NEW a \in Field, NEW b \in Field, NEW c \in Field
    PROVE  Fits(F \o <<a, b, c>>, x + Constant(a) + Constant(b) + Constant(c),
                o + Variable(a) + Variable(b) + Variable(c))
<1> DEFINE G == <<a, b>>
           H == <<a, b, c>>
           y == x + Constant(a) + Constant(b)
           p == o + Variable(a) + Variable(b)
<1>1. F \in Seq(Field)
  BY DEF Fits
<1>2. Fits(F \o G, y, p)
  BY Behind2
<1>3. G \in Seq(Field)
  OBVIOUS
<1>4. Append(G, c) = H
  BY Push3 DEF Push
<1> HIDE DEF G
<1> HIDE DEF H, y, p
<1>5. F \o Append(G, c) = Append(F \o G, c)
  BY <1>1, <1>3, ConcatAppend
<1>6. Fits(Append(F \o G, c), y + Constant(c), p + Variable(c))
  BY <1>2, FitsAppend
<1>7. Fits(F \o H, y + Constant(c), p + Variable(c))
  BY <1>4, <1>5, <1>6
<1> QED
  BY <1>7 DEF H, y, p

(* Four fields behind those that there are.                                 *)
LEMMA Behind4 ==
    ASSUME NEW F, NEW x, NEW o, Fits(F, x, o), NEW a \in Field, NEW b \in Field, NEW c \in Field,
           NEW d \in Field
    PROVE  Fits(F \o <<a, b, c, d>>, x + Constant(a) + Constant(b) + Constant(c) + Constant(d),
                o + Variable(a) + Variable(b) + Variable(c) + Variable(d))
<1> DEFINE G == <<a, b, c>>
           H == <<a, b, c, d>>
           y == x + Constant(a) + Constant(b) + Constant(c)
           p == o + Variable(a) + Variable(b) + Variable(c)
<1>1. F \in Seq(Field)
  BY DEF Fits
<1>2. Fits(F \o G, y, p)
  BY Behind3
<1>3. G \in Seq(Field)
  OBVIOUS
<1>4. Append(G, d) = H
  BY Push4 DEF Push
<1> HIDE DEF G
<1> HIDE DEF H, y, p
<1>5. F \o Append(G, d) = Append(F \o G, d)
  BY <1>1, <1>3, ConcatAppend
<1>6. Fits(Append(F \o G, d), y + Constant(d), p + Variable(d))
  BY <1>2, FitsAppend
<1>7. Fits(F \o H, y + Constant(d), p + Variable(d))
  BY <1>4, <1>5, <1>6
<1> QED
  BY <1>7 DEF H, y, p

(* Five fields behind those that there are.                                 *)
LEMMA Behind5 ==
    ASSUME NEW F, NEW x, NEW o, Fits(F, x, o), NEW a \in Field, NEW b \in Field, NEW c \in Field,
           NEW d \in Field, NEW e \in Field
    PROVE  Fits(F \o <<a, b, c, d, e>>,
                x + Constant(a) + Constant(b) + Constant(c) + Constant(d) + Constant(e),
                o + Variable(a) + Variable(b) + Variable(c) + Variable(d) + Variable(e))
<1> DEFINE G == <<a, b, c, d>>
           H == <<a, b, c, d, e>>
           y == x + Constant(a) + Constant(b) + Constant(c) + Constant(d)
           p == o + Variable(a) + Variable(b) + Variable(c) + Variable(d)
<1>1. F \in Seq(Field)
  BY DEF Fits
<1>2. Fits(F \o G, y, p)
  BY Behind4
<1>3. G \in Seq(Field)
  OBVIOUS
<1>4. Append(G, e) = H
  BY Push5 DEF Push
<1> HIDE DEF G
<1> HIDE DEF H, y, p
<1>5. F \o Append(G, e) = Append(F \o G, e)
  BY <1>1, <1>3, ConcatAppend
<1>6. Fits(Append(F \o G, e), y + Constant(e), p + Variable(e))
  BY <1>2, FitsAppend
<1>7. Fits(F \o H, y + Constant(e), p + Variable(e))
  BY <1>4, <1>5, <1>6
<1> QED
  BY <1>7 DEF H, y, p

(* Six fields behind those that there are.                                  *)
LEMMA Behind6 ==
    ASSUME NEW F, NEW x, NEW o, Fits(F, x, o), NEW a \in Field, NEW b \in Field, NEW c \in Field,
           NEW d \in Field, NEW e \in Field, NEW f \in Field
    PROVE  Fits(F \o <<a, b, c, d, e, f>>,
                x + Constant(a) + Constant(b) + Constant(c) + Constant(d) + Constant(e) + Constant(f),
                o + Variable(a) + Variable(b) + Variable(c) + Variable(d) + Variable(e) + Variable(f))
<1> DEFINE G == <<a, b, c, d, e>>
           H == <<a, b, c, d, e, f>>
           y == x + Constant(a) + Constant(b) + Constant(c) + Constant(d) + Constant(e)
           p == o + Variable(a) + Variable(b) + Variable(c) + Variable(d) + Variable(e)
<1>1. F \in Seq(Field)
  BY DEF Fits
<1>2. Fits(F \o G, y, p)
  BY Behind5
<1>3. G \in Seq(Field)
  OBVIOUS
<1>4. Append(G, f) = H
  BY Push6 DEF Push
<1> HIDE DEF G
<1> HIDE DEF H, y, p
<1>5. F \o Append(G, f) = Append(F \o G, f)
  BY <1>1, <1>3, ConcatAppend
<1>6. Fits(Append(F \o G, f), y + Constant(f), p + Variable(f))
  BY <1>2, FitsAppend
<1>7. Fits(F \o H, y + Constant(f), p + Variable(f))
  BY <1>4, <1>5, <1>6
<1> QED
  BY <1>7 DEF H, y, p

(* The fields in numbers.                                                   *)
LEMMA FieldValues ==
    /\ "octet" \in Field /\ Constant("octet") = 1 /\ Variable("octet") = 0
    /\ "bits" \in Field /\ Constant("bits") = 1 /\ Variable("bits") = 0
    /\ "empty" \in Field /\ Constant("empty") = 1 /\ Variable("empty") = 0
    /\ "short" \in Field /\ Constant("short") = 2 /\ Variable("short") = 0
    /\ "long" \in Field /\ Constant("long") = 4 /\ Variable("long") = 0
    /\ "emptylong" \in Field /\ Constant("emptylong") = 4 /\ Variable("emptylong") = 0
    /\ "longlong" \in Field /\ Constant("longlong") = 8 /\ Variable("longlong") = 0
    /\ "shortstr" \in Field /\ Constant("shortstr") = 1 /\ Variable("shortstr") = 1
    /\ "longstr" \in Field /\ Constant("longstr") = 4 /\ Variable("longstr") = 1
    /\ "table" \in Field /\ Constant("table") = 0 /\ Variable("table") = 1
    /\ "metadata" \in Field /\ Constant("metadata") = 0 /\ Variable("metadata") = 1
    /\ "data" \in Field /\ Constant("data") = 0 /\ Variable("data") = 1
BY DEF Field, Constant, Variable

(* What comes in front of the fields of a class.                            *)
LEMMA Fronts == Fits(<<"short", "short">>, 4, 0) /\ Fits(<<"short">>, 2, 0)
<1>0. "short" \in Field /\ Constant("short") = 2 /\ Variable("short") = 0
  BY FieldValues
<1>1. /\ Fits(<<>> \o <<"short">>, 0 + 2, 0 + 0)
      /\ Fits(<<>> \o <<"short", "short">>, 0 + 2 + 2, 0 + 0 + 0)
  <2> DEFINE a == "short"
  <2> HIDE DEF a
  <2>1. a \in Field /\ Constant(a) = 2 /\ Variable(a) = 0
    BY <1>0 DEF a
  <2>2. /\ Fits(<<>> \o <<a>>, 0 + Constant(a), 0 + Variable(a))
        /\ Fits(<<>> \o <<a, a>>, 0 + Constant(a) + Constant(a), 0 + Variable(a) + Variable(a))
    BY <2>1, FitsEmpty, Behind1, Behind2
  <2>3. Fits(<<>> \o <<a>>, 0 + 2, 0 + 0) /\ Fits(<<>> \o <<a, a>>, 0 + 2 + 2, 0 + 0 + 0)
    BY <2>1, <2>2
  <2> QED
    BY <2>3 DEF a
<1>2. <<>> \o <<"short">> = <<"short">> /\ <<>> \o <<"short", "short">> = <<"short", "short">>
  <2>1. <<"short">> \in Seq(Field) /\ <<"short", "short">> \in Seq(Field)
    BY FieldValues
  <2> QED
    BY <2>1, ConcatEmptySeq
<1>3. 0 + 2 = 2 /\ 0 + 0 = 0 /\ 0 + 2 + 2 = 4 /\ 0 + 0 + 0 = 0
  OBVIOUS
<1> QED
  BY <1>1, <1>2, <1>3

-----------------------------------------------------------------------------
(* The classes: their constructors announce what fill() writes, and their   *)
(* numbers are those under which ReceivedFrame::process makes them again.   *)
Handler == {"unimplemented", "start", "tune", "setReady", "connectionError", "connectionClosed",
            "reportBlocked", "reportUnblocked", "reportReady", "reportSuccess", "reportError",
            "reportClosed", "reportCancelled", "recall", "deliver", "getOK", "confirm", "header",
            "body", "reportHeartbeat"}
FrameRecord ==
    [type : Nat, class : Nat, method : Nat, fields : Seq(Field), fixed : Nat, operands : Nat,
     synchronous : BOOLEAN, handshake : BOOLEAN, shutdown : BOOLEAN, process : Handler]
Sound(r, t, c, m) ==
    /\ r \in FrameRecord /\ r.type = t /\ r.class = c /\ r.method = m
    /\ Fits(r.fields, r.fixed, r.operands)
Right(k) == \E t \in Nat, c \in Nat, m \in Nat : Sound(Catalogue[k], t, c, m) /\ process(t, c, m) = k

(* The record of a frame on a channel (ExtFrame).                           *)
LEMMA ExtRecord ==
    ASSUME NEW t \in Nat, NEW S, NEW F \in S, NEW x \in Nat, NEW o \in Nat
    PROVE  ExtFrame(t, F, x, o) \in
              [type : Nat, class : Nat, method : Nat, fields : S, fixed : Nat, operands : Nat,
               synchronous : BOOLEAN, handshake : BOOLEAN, shutdown : BOOLEAN, process : Handler]
<1> DEFINE N == Nat
           B == BOOLEAN
           Q == Handler
<1>1. t \in N /\ x \in N /\ o \in N /\ 0 \in N
  OBVIOUS
<1>2. "unimplemented" \in Q
  BY DEF Handler
<1>3. FALSE \in B
  BY Zenon
<1> HIDE DEF N, B, Q
<1>4. ExtFrame(t, F, x, o) \in
         [type : N, class : N, method : N, fields : S, fixed : N, operands : N,
          synchronous : B, handshake : B, shutdown : B, process : Q]
  BY <1>1, <1>2, <1>3, Zenon DEF ExtFrame
<1> QED
  BY <1>4, Zenon DEF N, B, Q

(* An ExtFrame that announces what its fields take is Sound.                *)
LEMMA SoundExt ==
    ASSUME NEW t \in Nat, NEW F, NEW x, NEW o, Fits(F, x, o)
    PROVE  Sound(ExtFrame(t, F, x, o), t, 0, 0)
<1>1. F \in Seq(Field) /\ x \in Nat /\ o \in Nat
  BY DEF Fits
<1> DEFINE r == ExtFrame(t, F, x, o)
<1>2. r \in FrameRecord
  <2> DEFINE S == Seq(Field)
  <2>1. F \in S
    BY <1>1
  <2> HIDE DEF S
  <2>2. r \in [type : Nat, class : Nat, method : Nat, fields : S, fixed : Nat, operands : Nat,
               synchronous : BOOLEAN, handshake : BOOLEAN, shutdown : BOOLEAN, process : Handler]
    BY <1>1, <2>1, ExtRecord
  <2> QED
    BY <2>2 DEF FrameRecord, S
<1>3. r.type = t /\ r.class = 0 /\ r.method = 0 /\ r.fields = F /\ r.fixed = x /\ r.operands = o
  BY DEF ExtFrame
<1> QED
  BY <1>2, <1>3 DEF Sound

(* A MethodFrame adds the two numbers of its method to the payload.         *)
LEMMA SoundMethod ==
    ASSUME NEW c \in Nat, NEW m \in Nat, NEW G, NEW x, NEW o,
           Fits(<<"short", "short">> \o G, x + 4, o)
    PROVE  Sound(MethodFrame(c, m, G, x, o), 1, c, m)
<1> DEFINE F == <<"short", "short">> \o G
           y == x + 4
           e == ExtFrame(1, F, y, o)
           r == [e EXCEPT !.class = c, !.method = m, !.synchronous = TRUE]
<1>1. MethodFrame(c, m, G, x, o) = r
  BY DEF MethodFrame
<1> HIDE DEF F, y
<1>2. Sound(e, 1, 0, 0)
  BY SoundExt DEF F, y
<1>3. e.fields = F /\ e.fixed = y /\ e.operands = o /\ e \in FrameRecord /\ e.type = 1
  BY <1>2 DEF ExtFrame, Sound
<1> HIDE DEF e
<1>4. r \in FrameRecord /\ r.type = 1 /\ r.class = c /\ r.method = m
  BY <1>3 DEF FrameRecord
<1>5. r.fields = F /\ r.fixed = y /\ r.operands = o
  BY <1>3 DEF FrameRecord
<1>6. Fits(F, y, o)
  BY DEF F, y
<1> HIDE DEF r
<1> QED
  BY <1>1, <1>4, <1>5, <1>6 DEF Sound

(* A HeaderFrame adds the number of its class to the payload.               *)
LEMMA SoundHeader ==
    ASSUME NEW c \in Nat, NEW G, NEW x, NEW o, Fits(<<"short">> \o G, x + 2, o)
    PROVE  Sound(HeaderFrame(c, G, x, o), 2, c, 0)
<1> DEFINE F == <<"short">> \o G
           y == x + 2
           e == ExtFrame(2, F, y, o)
           r == [e EXCEPT !.class = c]
<1>1. HeaderFrame(c, G, x, o) = r
  BY DEF HeaderFrame
<1> HIDE DEF F, y
<1>2. Sound(e, 2, 0, 0)
  BY SoundExt DEF F, y
<1>3. e.fields = F /\ e.fixed = y /\ e.operands = o /\ e \in FrameRecord /\ e.type = 2 /\ e.method = 0
  BY <1>2 DEF ExtFrame, Sound
<1> HIDE DEF e
<1>4. r \in FrameRecord /\ r.type = 2 /\ r.class = c /\ r.method = 0
  BY <1>3 DEF FrameRecord
<1>5. r.fields = F /\ r.fixed = y /\ r.operands = o
  BY <1>3 DEF FrameRecord
<1>6. Fits(F, y, o)
  BY DEF F, y
<1> HIDE DEF r
<1> QED
  BY <1>1, <1>4, <1>5, <1>6 DEF Sound

(* What a class overrides does not touch its numbers and its size.          *)
LEMMA SoundProcessed ==
    ASSUME NEW r, NEW t, NEW c, NEW m, Sound(r, t, c, m), NEW q \in Handler
    PROVE  Sound(Processed(r, q), t, c, m)
BY DEF Sound, FrameRecord, Processed

(* A class that overrides synchronous().                                    *)
LEMMA SoundAsynchronous ==
    ASSUME NEW r, NEW t, NEW c, NEW m, Sound(r, t, c, m)
    PROVE  Sound(Asynchronous(r), t, c, m)
BY DEF Sound, FrameRecord, Asynchronous

(* A class of which synchronous() depends on the nowait bit.                *)
LEMMA SoundUnlessNoWait ==
    ASSUME NEW r, NEW t, NEW c, NEW m, Sound(r, t, c, m)
    PROVE  Sound(UnlessNoWait(r, FALSE), t, c, m)
BY DEF Sound, FrameRecord, UnlessNoWait

(* A class that overrides partOfHandshake().                                *)
LEMMA SoundPartOfHandshake ==
    ASSUME NEW r, NEW t, NEW c, NEW m, Sound(r, t, c, m)
    PROVE  Sound(PartOfHandshake(r), t, c, m)
BY DEF Sound, FrameRecord, PartOfHandshake

(* A class that overrides partOfShutdown().                                 *)
LEMMA SoundPartOfShutdown ==
    ASSUME NEW r, NEW t, NEW c, NEW m, Sound(r, t, c, m)
    PROVE  Sound(PartOfShutdown(r), t, c, m)
BY DEF Sound, FrameRecord, PartOfShutdown

(* The handlers that the classes name.                                      *)
LEMMA HandlerNames ==
    /\ "unimplemented" \in Handler /\ "start" \in Handler /\ "tune" \in Handler
    /\ "setReady" \in Handler /\ "connectionError" \in Handler /\ "connectionClosed" \in Handler
    /\ "reportBlocked" \in Handler /\ "reportUnblocked" \in Handler /\ "reportReady" \in Handler
    /\ "reportSuccess" \in Handler /\ "reportError" \in Handler /\ "reportClosed" \in Handler
    /\ "reportCancelled" \in Handler /\ "recall" \in Handler /\ "deliver" \in Handler
    /\ "getOK" \in Handler /\ "confirm" \in Handler /\ "header" \in Handler
    /\ "body" \in Handler /\ "reportHeartbeat" \in Handler
BY DEF Handler

(* A method frame with no fields.                                           *)
LEMMA Method0 ==
    ASSUME NEW i \in Nat, NEW m \in Nat, NEW x \in Nat, NEW o \in Nat,
           x = 0, o = 0
    PROVE  Sound(MethodFrame(i, m, <<>>, x, o), 1, i, m)
<1> DEFINE F == <<"short", "short">>
           G == <<>>
           y == 4
           p == 0
<1>1. Fits(F \o G, y, p)
  BY Fronts, Behind0
<1>2. y = x + 4 /\ p = o
  BY DEF Constant, Variable
<1> HIDE DEF F, G, y, p
<1>3. Fits(F \o G, x + 4, o)
  BY <1>1, <1>2
<1>4. Sound(MethodFrame(i, m, G, x, o), 1, i, m)
  BY <1>3, SoundMethod DEF F
<1> QED
  BY <1>4 DEF G

(* A method frame with one field.                                           *)
LEMMA Method1 ==
    ASSUME NEW i \in Nat, NEW m \in Nat, NEW x \in Nat, NEW o \in Nat, NEW a \in Field,
           x = Constant(a), o = Variable(a)
    PROVE  Sound(MethodFrame(i, m, <<a>>, x, o), 1, i, m)
<1> DEFINE F == <<"short", "short">>
           G == <<a>>
           y == 4 + Constant(a)
           p == 0 + Variable(a)
<1>1. Fits(F \o G, y, p)
  BY Fronts, Behind1
<1>2. y = x + 4 /\ p = o
  BY DEF Constant, Variable
<1> HIDE DEF F, G, y, p
<1>3. Fits(F \o G, x + 4, o)
  BY <1>1, <1>2
<1>4. Sound(MethodFrame(i, m, G, x, o), 1, i, m)
  BY <1>3, SoundMethod DEF F
<1> QED
  BY <1>4 DEF G

(* A method frame with two fields.                                          *)
LEMMA Method2 ==
    ASSUME NEW i \in Nat, NEW m \in Nat, NEW x \in Nat, NEW o \in Nat, NEW a \in Field, NEW b \in Field,
           x = Constant(a) + Constant(b), o = Variable(a) + Variable(b)
    PROVE  Sound(MethodFrame(i, m, <<a, b>>, x, o), 1, i, m)
<1> DEFINE F == <<"short", "short">>
           G == <<a, b>>
           y == 4 + Constant(a) + Constant(b)
           p == 0 + Variable(a) + Variable(b)
<1>1. Fits(F \o G, y, p)
  BY Fronts, Behind2
<1>2. y = x + 4 /\ p = o
  BY DEF Constant, Variable
<1> HIDE DEF F, G, y, p
<1>3. Fits(F \o G, x + 4, o)
  BY <1>1, <1>2
<1>4. Sound(MethodFrame(i, m, G, x, o), 1, i, m)
  BY <1>3, SoundMethod DEF F
<1> QED
  BY <1>4 DEF G

(* A method frame with three fields.                                        *)
LEMMA Method3 ==
    ASSUME NEW i \in Nat, NEW m \in Nat, NEW x \in Nat, NEW o \in Nat, NEW a \in Field,
           NEW b \in Field, NEW c \in Field,
           x = Constant(a) + Constant(b) + Constant(c), o = Variable(a) + Variable(b) + Variable(c)
    PROVE  Sound(MethodFrame(i, m, <<a, b, c>>, x, o), 1, i, m)
<1> DEFINE F == <<"short", "short">>
           G == <<a, b, c>>
           y == 4 + Constant(a) + Constant(b) + Constant(c)
           p == 0 + Variable(a) + Variable(b) + Variable(c)
<1>1. Fits(F \o G, y, p)
  BY Fronts, Behind3
<1>2. y = x + 4 /\ p = o
  BY DEF Constant, Variable
<1> HIDE DEF F, G, y, p
<1>3. Fits(F \o G, x + 4, o)
  BY <1>1, <1>2
<1>4. Sound(MethodFrame(i, m, G, x, o), 1, i, m)
  BY <1>3, SoundMethod DEF F
<1> QED
  BY <1>4 DEF G

(* A method frame with four fields.                                         *)
LEMMA Method4 ==
    ASSUME NEW i \in Nat, NEW m \in Nat, NEW x \in Nat, NEW o \in Nat, NEW a \in Field,
           NEW b \in Field, NEW c \in Field, NEW d \in Field,
           x = Constant(a) + Constant(b) + Constant(c) + Constant(d),
           o = Variable(a) + Variable(b) + Variable(c) + Variable(d)
    PROVE  Sound(MethodFrame(i, m, <<a, b, c, d>>, x, o), 1, i, m)
<1> DEFINE F == <<"short", "short">>
           G == <<a, b, c, d>>
           y == 4 + Constant(a) + Constant(b) + Constant(c) + Constant(d)
           p == 0 + Variable(a) + Variable(b) + Variable(c) + Variable(d)
<1>1. Fits(F \o G, y, p)
  BY Fronts, Behind4
<1>2. y = x + 4 /\ p = o
  BY DEF Constant, Variable
<1> HIDE DEF F, G, y, p
<1>3. Fits(F \o G, x + 4, o)
  BY <1>1, <1>2
<1>4. Sound(MethodFrame(i, m, G, x, o), 1, i, m)
  BY <1>3, SoundMethod DEF F
<1> QED
  BY <1>4 DEF G

(* A method frame with five fields.                                         *)
LEMMA Method5 ==
    ASSUME NEW i \in Nat, NEW m \in Nat, NEW x \in Nat, NEW o \in Nat, NEW a \in Field,
           NEW b \in Field, NEW c \in Field, NEW d \in Field, NEW e \in Field,
           x = Constant(a) + Constant(b) + Constant(c) + Constant(d) + Constant(e),
           o = Variable(a) + Variable(b) + Variable(c) + Variable(d) + Variable(e)
    PROVE  Sound(MethodFrame(i, m, <<a, b, c, d, e>>, x, o), 1, i, m)
<1> DEFINE F == <<"short", "short">>
           G == <<a, b, c, d, e>>
           y == 4 + Constant(a) + Constant(b) + Constant(c) + Constant(d) + Constant(e)
           p == 0 + Variable(a) + Variable(b) + Variable(c) + Variable(d) + Variable(e)
<1>1. Fits(F \o G, y, p)
  BY Fronts, Behind5
<1>2. y = x + 4 /\ p = o
  BY DEF Constant, Variable
<1> HIDE DEF F, G, y, p
<1>3. Fits(F \o G, x + 4, o)
  BY <1>1, <1>2
<1>4. Sound(MethodFrame(i, m, G, x, o), 1, i, m)
  BY <1>3, SoundMethod DEF F
<1> QED
  BY <1>4 DEF G

(* A method frame with six fields.                                          *)
LEMMA Method6 ==
    ASSUME NEW i \in Nat, NEW m \in Nat, NEW x \in Nat, NEW o \in Nat, NEW a \in Field,
           NEW b \in Field, NEW c \in Field, NEW d \in Field, NEW e \in Field, NEW f \in Field,
           x = Constant(a) + Constant(b) + Constant(c) + Constant(d) + Constant(e) + Constant(f),
           o = Variable(a) + Variable(b) + Variable(c) + Variable(d) + Variable(e) + Variable(f)
    PROVE  Sound(MethodFrame(i, m, <<a, b, c, d, e, f>>, x, o), 1, i, m)
<1> DEFINE F == <<"short", "short">>
           G == <<a, b, c, d, e, f>>
           y == 4 + Constant(a) + Constant(b) + Constant(c) + Constant(d) + Constant(e) + Constant(f)
           p == 0 + Variable(a) + Variable(b) + Variable(c) + Variable(d) + Variable(e) + Variable(f)
<1>1. Fits(F \o G, y, p)
  BY Fronts, Behind6
<1>2. y = x + 4 /\ p = o
  BY DEF Constant, Variable
<1> HIDE DEF F, G, y, p
<1>3. Fits(F \o G, x + 4, o)
  BY <1>1, <1>2
<1>4. Sound(MethodFrame(i, m, G, x, o), 1, i, m)
  BY <1>3, SoundMethod DEF F
<1> QED
  BY <1>4 DEF G

(* A header frame with three fields.                                        *)
LEMMA Header3 ==
    ASSUME NEW i \in Nat, NEW x \in Nat, NEW o \in Nat, NEW a \in Field, NEW b \in Field, NEW c \in Field,
           x = Constant(a) + Constant(b) + Constant(c), o = Variable(a) + Variable(b) + Variable(c)
    PROVE  Sound(HeaderFrame(i, <<a, b, c>>, x, o), 2, i, 0)
<1> DEFINE F == <<"short">>
           G == <<a, b, c>>
           y == 2 + Constant(a) + Constant(b) + Constant(c)
           p == 0 + Variable(a) + Variable(b) + Variable(c)
<1>1. Fits(F \o G, y, p)
  BY Fronts, Behind3
<1>2. y = x + 2 /\ p = o
  BY DEF Constant, Variable
<1> HIDE DEF F, G, y, p
<1>3. Fits(F \o G, x + 2, o)
  BY <1>1, <1>2
<1>4. Sound(HeaderFrame(i, G, x, o), 2, i, 0)
  BY <1>3, SoundHeader DEF F
<1> QED
  BY <1>4 DEF G

(* A frame without a payload.                                               *)
LEMMA Ext0 ==
    ASSUME NEW t \in Nat
    PROVE  Sound(ExtFrame(t, <<>>, 0, 0), t, 0, 0)
BY FitsEmpty, SoundExt

(* A frame whose payload is one field.                                      *)
LEMMA Ext1 ==
    ASSUME NEW t \in Nat, NEW x \in Nat, NEW o \in Nat, NEW a \in Field, x = Constant(a), o = Variable(a)
    PROVE  Sound(ExtFrame(t, <<a>>, x, o), t, 0, 0)
<1> DEFINE G == <<a>>
<1>1. Fits(Append(<<>>, a), 0 + Constant(a), 0 + Variable(a))
  BY FitsEmpty, FitsAppend
<1>2. Append(<<>>, a) = G
  BY Push1 DEF Push
<1>3. 0 + Constant(a) = x /\ 0 + Variable(a) = o
  BY DEF Constant, Variable
<1> HIDE DEF G
<1>4. Fits(G, x, o)
  BY <1>1, <1>2, <1>3
<1>5. Sound(ExtFrame(t, G, x, o), t, 0, 0)
  BY <1>4, SoundExt
<1> QED
  BY <1>5 DEF G

(* Ack, reject and nack of the basic class share their fields: a delivery   *)
(* tag and a byte of bits.                                                  *)
LEMMA TagAndBits ==
    ASSUME NEW i \in Nat, NEW m \in Nat
    PROVE  Sound(MethodFrame(i, m, <<"longlong", "bits">>, 9, 0), 1, i, m)
<1> DEFINE a == "longlong"
           b == "bits"
           x == 9
           o == 0
<1>1. x \in Nat /\ o \in Nat /\ a \in Field /\ b \in Field
  BY FieldValues
<1>2. x = Constant(a) + Constant(b) /\ o = Variable(a) + Variable(b)
  BY FieldValues
<1> HIDE DEF a, b, x, o
<1>3. Sound(MethodFrame(i, m, <<a, b>>, x, o), 1, i, m)
  BY <1>1, <1>2, Method2
<1> QED
  BY <1>3 DEF a, b, x, o

(* The frames of the connection class.                                      *)
LEMMA ConnectionRight ==
    \A k \in {"ConnectionStart", "ConnectionStartOK", "ConnectionSecure",
              "ConnectionSecureOK", "ConnectionTune", "ConnectionTuneOK",
              "ConnectionOpen", "ConnectionOpenOK", "ConnectionClose",
              "ConnectionCloseOK", "ConnectionBlock", "ConnectionUnblock"} : Right(k)
<1>1. Right("ConnectionStart")
  <2>1. Sound(MethodFrame(10, 10, <<"octet", "octet", "table", "longstr", "longstr">>, 10, 3), 1, 10, 10)
    <3>1. 3 \in Nat /\ 10 \in Nat
      OBVIOUS
    <3>2. "octet" \in Field /\ "longstr" \in Field /\ "table" \in Field
      BY FieldValues
    <3>3. 10 = Constant("octet") + Constant("octet") + Constant("table") + Constant("longstr")
        + Constant("longstr")
      BY FieldValues
    <3>4. 3 = Variable("octet") + Variable("octet") + Variable("table") + Variable("longstr")
        + Variable("longstr")
      BY FieldValues
    <3> QED
      BY <3>1, <3>2, <3>3, <3>4, Method5, Zenon
  <2>2. Sound(ConnectionStartFrame, 1, 10, 10)
    BY <2>1, SoundProcessed, HandlerNames, Zenon DEF ConnectionStartFrame, ConnectionFrame
  <2>3. Catalogue["ConnectionStart"] = ConnectionStartFrame
    BY DEF Catalogue
  <2>4. process(1, 10, 10) = "ConnectionStart"
    BY DEF process, processMethodFrame, processConnectionFrame
  <2> QED
    BY <2>2, <2>3, <2>4 DEF Right
<1>2. Right("ConnectionStartOK")
  <2>1. Sound(MethodFrame(10, 11, <<"table", "shortstr", "longstr", "shortstr">>, 6, 4), 1, 10, 11)
    <3>1. 4 \in Nat /\ 6 \in Nat /\ 10 \in Nat /\ 11 \in Nat
      OBVIOUS
    <3>2. "shortstr" \in Field /\ "longstr" \in Field /\ "table" \in Field
      BY FieldValues
    <3>3. 6 = Constant("table") + Constant("shortstr") + Constant("longstr") + Constant("shortstr")
      BY FieldValues
    <3>4. 4 = Variable("table") + Variable("shortstr") + Variable("longstr") + Variable("shortstr")
      BY FieldValues
    <3> QED
      BY <3>1, <3>2, <3>3, <3>4, Method4, Zenon
  <2>2. Sound(ConnectionStartOKFrame, 1, 10, 11)
    BY <2>1, SoundPartOfHandshake, Zenon DEF ConnectionStartOKFrame, ConnectionFrame
  <2>3. Catalogue["ConnectionStartOK"] = ConnectionStartOKFrame
    BY DEF Catalogue
  <2>4. process(1, 10, 11) = "ConnectionStartOK"
    BY DEF process, processMethodFrame, processConnectionFrame
  <2> QED
    BY <2>2, <2>3, <2>4 DEF Right
<1>3. Right("ConnectionSecure")
  <2>1. Sound(MethodFrame(10, 20, <<"longstr">>, 4, 1), 1, 10, 20)
    BY Method1, FieldValues
  <2>2. Sound(ConnectionSecureFrame, 1, 10, 20)
    BY <2>1 DEF ConnectionSecureFrame, ConnectionFrame
  <2>3. Catalogue["ConnectionSecure"] = ConnectionSecureFrame
    BY DEF Catalogue
  <2>4. process(1, 10, 20) = "ConnectionSecure"
    BY DEF process, processMethodFrame, processConnectionFrame
  <2> QED
    BY <2>2, <2>3, <2>4 DEF Right
<1>4. Right("ConnectionSecureOK")
  <2>1. Sound(MethodFrame(10, 21, <<"longstr">>, 4, 1), 1, 10, 21)
    BY Method1, FieldValues
  <2>2. Sound(ConnectionSecureOKFrame, 1, 10, 21)
    BY <2>1 DEF ConnectionSecureOKFrame, ConnectionFrame
  <2>3. Catalogue["ConnectionSecureOK"] = ConnectionSecureOKFrame
    BY DEF Catalogue
  <2>4. process(1, 10, 21) = "ConnectionSecureOK"
    BY DEF process, processMethodFrame, processConnectionFrame
  <2> QED
    BY <2>2, <2>3, <2>4 DEF Right
<1>5. Right("ConnectionTune")
  <2>1. Sound(MethodFrame(10, 30, <<"short", "long", "short">>, 8, 0), 1, 10, 30)
    <3>1. 0 \in Nat /\ 8 \in Nat /\ 10 \in Nat /\ 30 \in Nat
      OBVIOUS
    <3>2. "short" \in Field /\ "long" \in Field
      BY FieldValues
    <3>3. 8 = Constant("short") + Constant("long") + Constant("short")
      BY FieldValues
    <3>4. 0 = Variable("short") + Variable("long") + Variable("short")
      BY FieldValues
    <3> QED
      BY <3>1, <3>2, <3>3, <3>4, Method3, Zenon
  <2>2. Sound(ConnectionTuneFrame, 1, 10, 30)
    BY <2>1, SoundProcessed, HandlerNames, Zenon DEF ConnectionTuneFrame, ConnectionFrame
  <2>3. Catalogue["ConnectionTune"] = ConnectionTuneFrame
    BY DEF Catalogue
  <2>4. process(1, 10, 30) = "ConnectionTune"
    BY DEF process, processMethodFrame, processConnectionFrame
  <2> QED
    BY <2>2, <2>3, <2>4 DEF Right
<1>6. Right("ConnectionTuneOK")
  <2>1. Sound(MethodFrame(10, 31, <<"short", "long", "short">>, 8, 0), 1, 10, 31)
    <3>1. 0 \in Nat /\ 8 \in Nat /\ 10 \in Nat /\ 31 \in Nat
      OBVIOUS
    <3>2. "short" \in Field /\ "long" \in Field
      BY FieldValues
    <3>3. 8 = Constant("short") + Constant("long") + Constant("short")
      BY FieldValues
    <3>4. 0 = Variable("short") + Variable("long") + Variable("short")
      BY FieldValues
    <3> QED
      BY <3>1, <3>2, <3>3, <3>4, Method3, Zenon
  <2>2. Sound(ConnectionTuneOKFrame, 1, 10, 31)
    BY <2>1, SoundPartOfHandshake, Zenon DEF ConnectionTuneOKFrame, ConnectionFrame
  <2>3. Catalogue["ConnectionTuneOK"] = ConnectionTuneOKFrame
    BY DEF Catalogue
  <2>4. process(1, 10, 31) = "ConnectionTuneOK"
    BY DEF process, processMethodFrame, processConnectionFrame
  <2> QED
    BY <2>2, <2>3, <2>4 DEF Right
<1>7. Right("ConnectionOpen")
  <2>1. Sound(MethodFrame(10, 40, <<"shortstr", "empty", "bits">>, 3, 1), 1, 10, 40)
    <3>1. 1 \in Nat /\ 3 \in Nat /\ 10 \in Nat /\ 40 \in Nat
      OBVIOUS
    <3>2. "bits" \in Field /\ "empty" \in Field /\ "shortstr" \in Field
      BY FieldValues
    <3>3. 3 = Constant("shortstr") + Constant("empty") + Constant("bits")
      BY FieldValues
    <3>4. 1 = Variable("shortstr") + Variable("empty") + Variable("bits")
      BY FieldValues
    <3> QED
      BY <3>1, <3>2, <3>3, <3>4, Method3, Zenon
  <2>2. Sound(ConnectionOpenFrame, 1, 10, 40)
    BY <2>1, SoundPartOfHandshake, Zenon DEF ConnectionOpenFrame, ConnectionFrame
  <2>3. Catalogue["ConnectionOpen"] = ConnectionOpenFrame
    BY DEF Catalogue
  <2>4. process(1, 10, 40) = "ConnectionOpen"
    BY DEF process, processMethodFrame, processConnectionFrame
  <2> QED
    BY <2>2, <2>3, <2>4 DEF Right
<1>8. Right("ConnectionOpenOK")
  <2>1. Sound(MethodFrame(10, 41, <<"empty">>, 1, 0), 1, 10, 41)
    BY Method1, FieldValues
  <2>2. Sound(ConnectionOpenOKFrame, 1, 10, 41)
    BY <2>1, SoundProcessed, HandlerNames, Zenon DEF ConnectionOpenOKFrame, ConnectionFrame
  <2>3. Catalogue["ConnectionOpenOK"] = ConnectionOpenOKFrame
    BY DEF Catalogue
  <2>4. process(1, 10, 41) = "ConnectionOpenOK"
    BY DEF process, processMethodFrame, processConnectionFrame
  <2> QED
    BY <2>2, <2>3, <2>4 DEF Right
<1>9. Right("ConnectionClose")
  <2>1. Sound(MethodFrame(10, 50, <<"short", "shortstr", "short", "short">>, 7, 1), 1, 10, 50)
    <3>1. 1 \in Nat /\ 7 \in Nat /\ 10 \in Nat /\ 50 \in Nat
      OBVIOUS
    <3>2. "short" \in Field /\ "shortstr" \in Field
      BY FieldValues
    <3>3. 7 = Constant("short") + Constant("shortstr") + Constant("short") + Constant("short")
      BY FieldValues
    <3>4. 1 = Variable("short") + Variable("shortstr") + Variable("short") + Variable("short")
      BY FieldValues
    <3> QED
      BY <3>1, <3>2, <3>3, <3>4, Method4, Zenon
  <2>2. Sound(ConnectionCloseFrame, 1, 10, 50)
    BY <2>1, SoundProcessed, SoundPartOfShutdown, HandlerNames, Zenon DEF ConnectionCloseFrame,
        ConnectionFrame
  <2>3. Catalogue["ConnectionClose"] = ConnectionCloseFrame
    BY DEF Catalogue
  <2>4. process(1, 10, 50) = "ConnectionClose"
    BY DEF process, processMethodFrame, processConnectionFrame
  <2> QED
    BY <2>2, <2>3, <2>4 DEF Right
<1>10. Right("ConnectionCloseOK")
  <2>1. Sound(MethodFrame(10, 51, <<>>, 0, 0), 1, 10, 51)
    BY Method0, FieldValues
  <2>2. Sound(ConnectionCloseOKFrame, 1, 10, 51)
    BY <2>1, SoundProcessed, HandlerNames, Zenon DEF ConnectionCloseOKFrame, ConnectionFrame
  <2>3. Catalogue["ConnectionCloseOK"] = ConnectionCloseOKFrame
    BY DEF Catalogue
  <2>4. process(1, 10, 51) = "ConnectionCloseOK"
    BY DEF process, processMethodFrame, processConnectionFrame
  <2> QED
    BY <2>2, <2>3, <2>4 DEF Right
<1>11. Right("ConnectionBlock")
  <2>1. Sound(MethodFrame(10, 60, <<"shortstr">>, 1, 1), 1, 10, 60)
    BY Method1, FieldValues
  <2>2. Sound(ConnectionBlockFrame, 1, 10, 60)
    BY <2>1, SoundProcessed, HandlerNames, Zenon DEF ConnectionBlockFrame, ConnectionFrame
  <2>3. Catalogue["ConnectionBlock"] = ConnectionBlockFrame
    BY DEF Catalogue
  <2>4. process(1, 10, 60) = "ConnectionBlock"
    BY DEF process, processMethodFrame, processConnectionFrame
  <2> QED
    BY <2>2, <2>3, <2>4 DEF Right
<1>12. Right("ConnectionUnblock")
  <2>1. Sound(MethodFrame(10, 61, <<>>, 0, 0), 1, 10, 61)
    BY Method0, FieldValues
  <2>2. Sound(ConnectionUnblockFrame, 1, 10, 61)
    BY <2>1, SoundProcessed, HandlerNames, Zenon DEF ConnectionUnblockFrame, ConnectionFrame
  <2>3. Catalogue["ConnectionUnblock"] = ConnectionUnblockFrame
    BY DEF Catalogue
  <2>4. process(1, 10, 61) = "ConnectionUnblock"
    BY DEF process, processMethodFrame, processConnectionFrame
  <2> QED
    BY <2>2, <2>3, <2>4 DEF Right
<1> QED
  BY <1>1, <1>2, <1>3, <1>4, <1>5, <1>6, <1>7, <1>8, <1>9, <1>10, <1>11, <1>12

(* The frames of the channel class.                                         *)
LEMMA ChannelRight ==
    \A k \in {"ChannelOpen", "ChannelOpenOK", "ChannelFlow",
              "ChannelFlowOK", "ChannelClose", "ChannelCloseOK"} : Right(k)
<1>1. Right("ChannelOpen")
  <2>1. Sound(MethodFrame(20, 10, <<"empty">>, 1, 0), 1, 20, 10)
    BY Method1, FieldValues
  <2>2. Sound(ChannelOpenFrame, 1, 20, 10)
    BY <2>1 DEF ChannelOpenFrame, ChannelFrame
  <2>3. Catalogue["ChannelOpen"] = ChannelOpenFrame
    BY DEF Catalogue
  <2>4. process(1, 20, 10) = "ChannelOpen"
    BY DEF process, processMethodFrame, processChannelFrame
  <2> QED
    BY <2>2, <2>3, <2>4 DEF Right
<1>2. Right("ChannelOpenOK")
  <2>1. Sound(MethodFrame(20, 11, <<"emptylong">>, 4, 0), 1, 20, 11)
    BY Method1, FieldValues
  <2>2. Sound(ChannelOpenOKFrame, 1, 20, 11)
    BY <2>1, SoundProcessed, HandlerNames, Zenon DEF ChannelOpenOKFrame, ChannelFrame
  <2>3. Catalogue["ChannelOpenOK"] = ChannelOpenOKFrame
    BY DEF Catalogue
  <2>4. process(1, 20, 11) = "ChannelOpenOK"
    BY DEF process, processMethodFrame, processChannelFrame
  <2> QED
    BY <2>2, <2>3, <2>4 DEF Right
<1>3. Right("ChannelFlow")
  <2>1. Sound(MethodFrame(20, 20, <<"bits">>, 1, 0), 1, 20, 20)
    BY Method1, FieldValues
  <2>2. Sound(ChannelFlowFrame, 1, 20, 20)
    BY <2>1 DEF ChannelFlowFrame, ChannelFrame
  <2>3. Catalogue["ChannelFlow"] = ChannelFlowFrame
    BY DEF Catalogue
  <2>4. process(1, 20, 20) = "ChannelFlow"
    BY DEF process, processMethodFrame, processChannelFrame
  <2> QED
    BY <2>2, <2>3, <2>4 DEF Right
<1>4. Right("ChannelFlowOK")
  <2>1. Sound(MethodFrame(20, 21, <<"bits">>, 1, 0), 1, 20, 21)
    BY Method1, FieldValues
  <2>2. Sound(ChannelFlowOKFrame, 1, 20, 21)
    BY <2>1, SoundProcessed, HandlerNames, Zenon DEF ChannelFlowOKFrame, ChannelFrame
  <2>3. Catalogue["ChannelFlowOK"] = ChannelFlowOKFrame
    BY DEF Catalogue
  <2>4. process(1, 20, 21) = "ChannelFlowOK"
    BY DEF process, processMethodFrame, processChannelFrame
  <2> QED
    BY <2>2, <2>3, <2>4 DEF Right
<1>5. Right("ChannelClose")
  <2>1. Sound(MethodFrame(20, 40, <<"short", "shortstr", "short", "short">>, 7, 1), 1, 20, 40)
    <3>1. 1 \in Nat /\ 7 \in Nat /\ 20 \in Nat /\ 40 \in Nat
      OBVIOUS
    <3>2. "short" \in Field /\ "shortstr" \in Field
      BY FieldValues
    <3>3. 7 = Constant("short") + Constant("shortstr") + Constant("short") + Constant("short")
      BY FieldValues
    <3>4. 1 = Variable("short") + Variable("shortstr") + Variable("short") + Variable("short")
      BY FieldValues
    <3> QED
      BY <3>1, <3>2, <3>3, <3>4, Method4, Zenon
  <2>2. Sound(ChannelCloseFrame, 1, 20, 40)
    BY <2>1, SoundProcessed, HandlerNames, Zenon DEF ChannelCloseFrame, ChannelFrame
  <2>3. Catalogue["ChannelClose"] = ChannelCloseFrame
    BY DEF Catalogue
  <2>4. process(1, 20, 40) = "ChannelClose"
    BY DEF process, processMethodFrame, processChannelFrame
  <2> QED
    BY <2>2, <2>3, <2>4 DEF Right
<1>6. Right("ChannelCloseOK")
  <2>1. Sound(MethodFrame(20, 41, <<>>, 0, 0), 1, 20, 41)
    BY Method0, FieldValues
  <2>2. Sound(ChannelCloseOKFrame, 1, 20, 41)
    BY <2>1, SoundProcessed, HandlerNames, Zenon DEF ChannelCloseOKFrame, ChannelFrame
  <2>3. Catalogue["ChannelCloseOK"] = ChannelCloseOKFrame
    BY DEF Catalogue
  <2>4. process(1, 20, 41) = "ChannelCloseOK"
    BY DEF process, processMethodFrame, processChannelFrame
  <2> QED
    BY <2>2, <2>3, <2>4 DEF Right
<1> QED
  BY <1>1, <1>2, <1>3, <1>4, <1>5, <1>6

(* The frames of the exchange class.                                        *)
LEMMA ExchangeRight ==
    \A k \in {"ExchangeDeclare", "ExchangeDeclareOK", "ExchangeDelete",
              "ExchangeDeleteOK", "ExchangeBind", "ExchangeBindOK",
              "ExchangeUnbind", "ExchangeUnbindOK"} : Right(k)
<1>1. Right("ExchangeDeclare")
  <2>1. Sound(MethodFrame(40, 10, <<"short", "shortstr", "shortstr", "bits", "table">>, 5, 3), 1, 40, 10)
    <3>1. 3 \in Nat /\ 5 \in Nat /\ 10 \in Nat /\ 40 \in Nat
      OBVIOUS
    <3>2. "bits" \in Field /\ "short" \in Field /\ "shortstr" \in Field /\ "table" \in Field
      BY FieldValues
    <3>3. 5 = Constant("short") + Constant("shortstr") + Constant("shortstr") + Constant("bits")
        + Constant("table")
      BY FieldValues
    <3>4. 3 = Variable("short") + Variable("shortstr") + Variable("shortstr") + Variable("bits")
        + Variable("table")
      BY FieldValues
    <3> QED
      BY <3>1, <3>2, <3>3, <3>4, Method5, Zenon
  <2>2. Sound(ExchangeDeclareFrame(FALSE), 1, 40, 10)
    BY <2>1, SoundUnlessNoWait, Zenon DEF ExchangeDeclareFrame, ExchangeFrame
  <2>3. Catalogue["ExchangeDeclare"] = ExchangeDeclareFrame(FALSE)
    BY DEF Catalogue
  <2>4. process(1, 40, 10) = "ExchangeDeclare"
    BY DEF process, processMethodFrame, processExchangeFrame
  <2> QED
    BY <2>2, <2>3, <2>4 DEF Right
<1>2. Right("ExchangeDeclareOK")
  <2>1. Sound(MethodFrame(40, 11, <<>>, 0, 0), 1, 40, 11)
    BY Method0, FieldValues
  <2>2. Sound(ExchangeDeclareOKFrame, 1, 40, 11)
    BY <2>1, SoundProcessed, HandlerNames, Zenon DEF ExchangeDeclareOKFrame, ExchangeFrame
  <2>3. Catalogue["ExchangeDeclareOK"] = ExchangeDeclareOKFrame
    BY DEF Catalogue
  <2>4. process(1, 40, 11) = "ExchangeDeclareOK"
    BY DEF process, processMethodFrame, processExchangeFrame
  <2> QED
    BY <2>2, <2>3, <2>4 DEF Right
<1>3. Right("ExchangeDelete")
  <2>1. Sound(MethodFrame(40, 20, <<"short", "shortstr", "bits">>, 4, 1), 1, 40, 20)
    <3>1. 1 \in Nat /\ 4 \in Nat /\ 20 \in Nat /\ 40 \in Nat
      OBVIOUS
    <3>2. "bits" \in Field /\ "short" \in Field /\ "shortstr" \in Field
      BY FieldValues
    <3>3. 4 = Constant("short") + Constant("shortstr") + Constant("bits")
      BY FieldValues
    <3>4. 1 = Variable("short") + Variable("shortstr") + Variable("bits")
      BY FieldValues
    <3> QED
      BY <3>1, <3>2, <3>3, <3>4, Method3, Zenon
  <2>2. Sound(ExchangeDeleteFrame(FALSE), 1, 40, 20)
    BY <2>1, SoundUnlessNoWait, Zenon DEF ExchangeDeleteFrame, ExchangeFrame
  <2>3. Catalogue["ExchangeDelete"] = ExchangeDeleteFrame(FALSE)
    BY DEF Catalogue
  <2>4. process(1, 40, 20) = "ExchangeDelete"
    BY DEF process, processMethodFrame, processExchangeFrame
  <2> QED
    BY <2>2, <2>3, <2>4 DEF Right
<1>4. Right("ExchangeDeleteOK")
  <2>1. Sound(MethodFrame(40, 21, <<>>, 0, 0), 1, 40, 21)
    BY Method0, FieldValues
  <2>2. Sound(ExchangeDeleteOKFrame, 1, 40, 21)
    BY <2>1, SoundProcessed, HandlerNames, Zenon DEF ExchangeDeleteOKFrame, ExchangeFrame
  <2>3. Catalogue["ExchangeDeleteOK"] = ExchangeDeleteOKFrame
    BY DEF Catalogue
  <2>4. process(1, 40, 21) = "ExchangeDeleteOK"
    BY DEF process, processMethodFrame, processExchangeFrame
  <2> QED
    BY <2>2, <2>3, <2>4 DEF Right
<1>5. Right("ExchangeBind")
  <2>1. Sound(MethodFrame(40, 30, <<"short", "shortstr", "shortstr", "shortstr", "bits", "table">>, 6,
      4), 1, 40, 30)
    <3>1. 4 \in Nat /\ 6 \in Nat /\ 30 \in Nat /\ 40 \in Nat
      OBVIOUS
    <3>2. "bits" \in Field /\ "short" \in Field /\ "shortstr" \in Field /\ "table" \in Field
      BY FieldValues
    <3>3. 6 = Constant("short") + Constant("shortstr") + Constant("shortstr") + Constant("shortstr")
        + Constant("bits") + Constant("table")
      BY FieldValues
    <3>4. 4 = Variable("short") + Variable("shortstr") + Variable("shortstr") + Variable("shortstr")
        + Variable("bits") + Variable("table")
      BY FieldValues
    <3> QED
      BY <3>1, <3>2, <3>3, <3>4, Method6, Zenon
  <2>2. Sound(ExchangeBindFrame(FALSE), 1, 40, 30)
    BY <2>1, SoundUnlessNoWait, Zenon DEF ExchangeBindFrame, ExchangeFrame
  <2>3. Catalogue["ExchangeBind"] = ExchangeBindFrame(FALSE)
    BY DEF Catalogue
  <2>4. process(1, 40, 30) = "ExchangeBind"
    BY DEF process, processMethodFrame, processExchangeFrame
  <2> QED
    BY <2>2, <2>3, <2>4 DEF Right
<1>6. Right("ExchangeBindOK")
  <2>1. Sound(MethodFrame(40, 31, <<>>, 0, 0), 1, 40, 31)
    BY Method0, FieldValues
  <2>2. Sound(ExchangeBindOKFrame, 1, 40, 31)
    BY <2>1, SoundProcessed, HandlerNames, Zenon DEF ExchangeBindOKFrame, ExchangeFrame
  <2>3. Catalogue["ExchangeBindOK"] = ExchangeBindOKFrame
    BY DEF Catalogue
  <2>4. process(1, 40, 31) = "ExchangeBindOK"
    BY DEF process, processMethodFrame, processExchangeFrame
  <2> QED
    BY <2>2, <2>3, <2>4 DEF Right
<1>7. Right("ExchangeUnbind")
  <2>1. Sound(MethodFrame(40, 40, <<"short", "shortstr", "shortstr", "shortstr", "bits", "table">>, 6,
      4), 1, 40, 40)
    <3>1. 4 \in Nat /\ 6 \in Nat /\ 40 \in Nat
      OBVIOUS
    <3>2. "bits" \in Field /\ "short" \in Field /\ "shortstr" \in Field /\ "table" \in Field
      BY FieldValues
    <3>3. 6 = Constant("short") + Constant("shortstr") + Constant("shortstr") + Constant("shortstr")
        + Constant("bits") + Constant("table")
      BY FieldValues
    <3>4. 4 = Variable("short") + Variable("shortstr") + Variable("shortstr") + Variable("shortstr")
        + Variable("bits") + Variable("table")
      BY FieldValues
    <3> QED
      BY <3>1, <3>2, <3>3, <3>4, Method6, Zenon
  <2>2. Sound(ExchangeUnbindFrame(FALSE), 1, 40, 40)
    BY <2>1, SoundUnlessNoWait, Zenon DEF ExchangeUnbindFrame, ExchangeFrame
  <2>3. Catalogue["ExchangeUnbind"] = ExchangeUnbindFrame(FALSE)
    BY DEF Catalogue
  <2>4. process(1, 40, 40) = "ExchangeUnbind"
    BY DEF process, processMethodFrame, processExchangeFrame
  <2> QED
    BY <2>2, <2>3, <2>4 DEF Right
<1>8. Right("ExchangeUnbindOK")
  <2>1. Sound(MethodFrame(40, 51, <<>>, 0, 0), 1, 40, 51)
    BY Method0, FieldValues
  <2>2. Sound(ExchangeUnbindOKFrame, 1, 40, 51)
    BY <2>1, SoundProcessed, HandlerNames, Zenon DEF ExchangeUnbindOKFrame, ExchangeFrame
  <2>3. Catalogue["ExchangeUnbindOK"] = ExchangeUnbindOKFrame
    BY DEF Catalogue
  <2>4. process(1, 40, 51) = "ExchangeUnbindOK"
    BY DEF process, processMethodFrame, processExchangeFrame
  <2> QED
    BY <2>2, <2>3, <2>4 DEF Right
<1> QED
  BY <1>1, <1>2, <1>3, <1>4, <1>5, <1>6, <1>7, <1>8

(* The frames of the queue class.                                           *)
LEMMA QueueRight ==
    \A k \in {"QueueDeclare", "QueueDeclareOK", "QueueBind",
              "QueueBindOK", "QueuePurge", "QueuePurgeOK",
              "QueueDelete", "QueueDeleteOK", "QueueUnbind",
              "QueueUnbindOK"} : Right(k)
<1>1. Right("QueueDeclare")
  <2>1. Sound(MethodFrame(50, 10, <<"short", "shortstr", "bits", "table">>, 4, 2), 1, 50, 10)
    <3>1. 2 \in Nat /\ 4 \in Nat /\ 10 \in Nat /\ 50 \in Nat
      OBVIOUS
    <3>2. "bits" \in Field /\ "short" \in Field /\ "shortstr" \in Field /\ "table" \in Field
      BY FieldValues
    <3>3. 4 = Constant("short") + Constant("shortstr") + Constant("bits") + Constant("table")
      BY FieldValues
    <3>4. 2 = Variable("short") + Variable("shortstr") + Variable("bits") + Variable("table")
      BY FieldValues
    <3> QED
      BY <3>1, <3>2, <3>3, <3>4, Method4, Zenon
  <2>2. Sound(QueueDeclareFrame(FALSE), 1, 50, 10)
    BY <2>1, SoundUnlessNoWait, Zenon DEF QueueDeclareFrame, QueueFrame
  <2>3. Catalogue["QueueDeclare"] = QueueDeclareFrame(FALSE)
    BY DEF Catalogue
  <2>4. process(1, 50, 10) = "QueueDeclare"
    BY DEF process, processMethodFrame, processQueueFrame
  <2> QED
    BY <2>2, <2>3, <2>4 DEF Right
<1>2. Right("QueueDeclareOK")
  <2>1. Sound(MethodFrame(50, 11, <<"shortstr", "long", "long">>, 9, 1), 1, 50, 11)
    <3>1. 1 \in Nat /\ 9 \in Nat /\ 11 \in Nat /\ 50 \in Nat
      OBVIOUS
    <3>2. "long" \in Field /\ "shortstr" \in Field
      BY FieldValues
    <3>3. 9 = Constant("shortstr") + Constant("long") + Constant("long")
      BY FieldValues
    <3>4. 1 = Variable("shortstr") + Variable("long") + Variable("long")
      BY FieldValues
    <3> QED
      BY <3>1, <3>2, <3>3, <3>4, Method3, Zenon
  <2>2. Sound(QueueDeclareOKFrame, 1, 50, 11)
    BY <2>1, SoundProcessed, HandlerNames, Zenon DEF QueueDeclareOKFrame, QueueFrame
  <2>3. Catalogue["QueueDeclareOK"] = QueueDeclareOKFrame
    BY DEF Catalogue
  <2>4. process(1, 50, 11) = "QueueDeclareOK"
    BY DEF process, processMethodFrame, processQueueFrame
  <2> QED
    BY <2>2, <2>3, <2>4 DEF Right
<1>3. Right("QueueBind")
  <2>1. Sound(MethodFrame(50, 20, <<"short", "shortstr", "shortstr", "shortstr", "bits", "table">>, 6,
      4), 1, 50, 20)
    <3>1. 4 \in Nat /\ 6 \in Nat /\ 20 \in Nat /\ 50 \in Nat
      OBVIOUS
    <3>2. "bits" \in Field /\ "short" \in Field /\ "shortstr" \in Field /\ "table" \in Field
      BY FieldValues
    <3>3. 6 = Constant("short") + Constant("shortstr") + Constant("shortstr") + Constant("shortstr")
        + Constant("bits") + Constant("table")
      BY FieldValues
    <3>4. 4 = Variable("short") + Variable("shortstr") + Variable("shortstr") + Variable("shortstr")
        + Variable("bits") + Variable("table")
      BY FieldValues
    <3> QED
      BY <3>1, <3>2, <3>3, <3>4, Method6, Zenon
  <2>2. Sound(QueueBindFrame(FALSE), 1, 50, 20)
    BY <2>1, SoundUnlessNoWait, Zenon DEF QueueBindFrame, QueueFrame
  <2>3. Catalogue["QueueBind"] = QueueBindFrame(FALSE)
    BY DEF Catalogue
  <2>4. process(1, 50, 20) = "QueueBind"
    BY DEF process, processMethodFrame, processQueueFrame
  <2> QED
    BY <2>2, <2>3, <2>4 DEF Right
<1>4. Right("QueueBindOK")
  <2>1. Sound(MethodFrame(50, 21, <<>>, 0, 0), 1, 50, 21)
    BY Method0, FieldValues
  <2>2. Sound(QueueBindOKFrame, 1, 50, 21)
    BY <2>1, SoundProcessed, HandlerNames, Zenon DEF QueueBindOKFrame, QueueFrame
  <2>3. Catalogue["QueueBindOK"] = QueueBindOKFrame
    BY DEF Catalogue
  <2>4. process(1, 50, 21) = "QueueBindOK"
    BY DEF process, processMethodFrame, processQueueFrame
  <2> QED
    BY <2>2, <2>3, <2>4 DEF Right
<1>5. Right("QueuePurge")
  <2>1. Sound(MethodFrame(50, 30, <<"short", "shortstr", "bits">>, 4, 1), 1, 50, 30)
    <3>1. 1 \in Nat /\ 4 \in Nat /\ 30 \in Nat /\ 50 \in Nat
      OBVIOUS
    <3>2. "bits" \in Field /\ "short" \in Field /\ "shortstr" \in Field
      BY FieldValues
    <3>3. 4 = Constant("short") + Constant("shortstr") + Constant("bits")
      BY FieldValues
    <3>4. 1 = Variable("short") + Variable("shortstr") + Variable("bits")
      BY FieldValues
    <3> QED
      BY <3>1, <3>2, <3>3, <3>4, Method3, Zenon
  <2>2. Sound(QueuePurgeFrame(FALSE), 1, 50, 30)
    BY <2>1, SoundUnlessNoWait, Zenon DEF QueuePurgeFrame, QueueFrame
  <2>3. Catalogue["QueuePurge"] = QueuePurgeFrame(FALSE)
    BY DEF Catalogue
  <2>4. process(1, 50, 30) = "QueuePurge"
    BY DEF process, processMethodFrame, processQueueFrame
  <2> QED
    BY <2>2, <2>3, <2>4 DEF Right
<1>6. Right("QueuePurgeOK")
  <2>1. Sound(MethodFrame(50, 31, <<"long">>, 4, 0), 1, 50, 31)
    BY Method1, FieldValues
  <2>2. Sound(QueuePurgeOKFrame, 1, 50, 31)
    BY <2>1, SoundProcessed, HandlerNames, Zenon DEF QueuePurgeOKFrame, QueueFrame
  <2>3. Catalogue["QueuePurgeOK"] = QueuePurgeOKFrame
    BY DEF Catalogue
  <2>4. process(1, 50, 31) = "QueuePurgeOK"
    BY DEF process, processMethodFrame, processQueueFrame
  <2> QED
    BY <2>2, <2>3, <2>4 DEF Right
<1>7. Right("QueueDelete")
  <2>1. Sound(MethodFrame(50, 40, <<"short", "shortstr", "bits">>, 4, 1), 1, 50, 40)
    <3>1. 1 \in Nat /\ 4 \in Nat /\ 40 \in Nat /\ 50 \in Nat
      OBVIOUS
    <3>2. "bits" \in Field /\ "short" \in Field /\ "shortstr" \in Field
      BY FieldValues
    <3>3. 4 = Constant("short") + Constant("shortstr") + Constant("bits")
      BY FieldValues
    <3>4. 1 = Variable("short") + Variable("shortstr") + Variable("bits")
      BY FieldValues
    <3> QED
      BY <3>1, <3>2, <3>3, <3>4, Method3, Zenon
  <2>2. Sound(QueueDeleteFrame(FALSE), 1, 50, 40)
    BY <2>1, SoundUnlessNoWait, Zenon DEF QueueDeleteFrame, QueueFrame
  <2>3. Catalogue["QueueDelete"] = QueueDeleteFrame(FALSE)
    BY DEF Catalogue
  <2>4. process(1, 50, 40) = "QueueDelete"
    BY DEF process, processMethodFrame, processQueueFrame
  <2> QED
    BY <2>2, <2>3, <2>4 DEF Right
<1>8. Right("QueueDeleteOK")
  <2>1. Sound(MethodFrame(50, 41, <<"long">>, 4, 0), 1, 50, 41)
    BY Method1, FieldValues
  <2>2. Sound(QueueDeleteOKFrame, 1, 50, 41)
    BY <2>1, SoundProcessed, HandlerNames, Zenon DEF QueueDeleteOKFrame, QueueFrame
  <2>3. Catalogue["QueueDeleteOK"] = QueueDeleteOKFrame
    BY DEF Catalogue
  <2>4. process(1, 50, 41) = "QueueDeleteOK"
    BY DEF process, processMethodFrame, processQueueFrame
  <2> QED
    BY <2>2, <2>3, <2>4 DEF Right
<1>9. Right("QueueUnbind")
  <2>1. Sound(MethodFrame(50, 50, <<"short", "shortstr", "shortstr", "shortstr", "table">>, 5, 4), 1, 50, 50)
    <3>1. 4 \in Nat /\ 5 \in Nat /\ 50 \in Nat
      OBVIOUS
    <3>2. "short" \in Field /\ "shortstr" \in Field /\ "table" \in Field
      BY FieldValues
    <3>3. 5 = Constant("short") + Constant("shortstr") + Constant("shortstr") + Constant("shortstr")
        + Constant("table")
      BY FieldValues
    <3>4. 4 = Variable("short") + Variable("shortstr") + Variable("shortstr") + Variable("shortstr")
        + Variable("table")
      BY FieldValues
    <3> QED
      BY <3>1, <3>2, <3>3, <3>4, Method5, Zenon
  <2>2. Sound(QueueUnbindFrame, 1, 50, 50)
    BY <2>1 DEF QueueUnbindFrame, QueueFrame
  <2>3. Catalogue["QueueUnbind"] = QueueUnbindFrame
    BY DEF Catalogue
  <2>4. process(1, 50, 50) = "QueueUnbind"
    BY DEF process, processMethodFrame, processQueueFrame
  <2> QED
    BY <2>2, <2>3, <2>4 DEF Right
<1>10. Right("QueueUnbindOK")
  <2>1. Sound(MethodFrame(50, 51, <<>>, 0, 0), 1, 50, 51)
    BY Method0, FieldValues
  <2>2. Sound(QueueUnbindOKFrame, 1, 50, 51)
    BY <2>1, SoundProcessed, HandlerNames, Zenon DEF QueueUnbindOKFrame, QueueFrame
  <2>3. Catalogue["QueueUnbindOK"] = QueueUnbindOKFrame
    BY DEF Catalogue
  <2>4. process(1, 50, 51) = "QueueUnbindOK"
    BY DEF process, processMethodFrame, processQueueFrame
  <2> QED
    BY <2>2, <2>3, <2>4 DEF Right
<1> QED
  BY <1>1, <1>2, <1>3, <1>4, <1>5, <1>6, <1>7, <1>8, <1>9, <1>10

(* The frames of the basic class.                                           *)
LEMMA BasicRight ==
    \A k \in {"BasicQos", "BasicQosOK", "BasicConsume",
              "BasicConsumeOK", "BasicCancel", "BasicCancelOK",
              "BasicPublish", "BasicReturn", "BasicDeliver",
              "BasicGet", "BasicGetOK", "BasicGetEmpty",
              "BasicAck", "BasicReject", "BasicNack",
              "BasicRecoverAsync", "BasicRecover", "BasicRecoverOK"} : Right(k)
<1>1. Right("BasicQos")
  <2>1. Sound(MethodFrame(60, 10, <<"long", "short", "bits">>, 7, 0), 1, 60, 10)
    <3>1. 0 \in Nat /\ 7 \in Nat /\ 10 \in Nat /\ 60 \in Nat
      OBVIOUS
    <3>2. "bits" \in Field /\ "short" \in Field /\ "long" \in Field
      BY FieldValues
    <3>3. 7 = Constant("long") + Constant("short") + Constant("bits")
      BY FieldValues
    <3>4. 0 = Variable("long") + Variable("short") + Variable("bits")
      BY FieldValues
    <3> QED
      BY <3>1, <3>2, <3>3, <3>4, Method3, Zenon
  <2>2. Sound(BasicQosFrame, 1, 60, 10)
    BY <2>1 DEF BasicQosFrame, BasicFrame
  <2>3. Catalogue["BasicQos"] = BasicQosFrame
    BY DEF Catalogue
  <2>4. process(1, 60, 10) = "BasicQos"
    BY DEF process, processMethodFrame, processBasicFrame
  <2> QED
    BY <2>2, <2>3, <2>4 DEF Right
<1>2. Right("BasicQosOK")
  <2>1. Sound(MethodFrame(60, 11, <<>>, 0, 0), 1, 60, 11)
    BY Method0, FieldValues
  <2>2. Sound(BasicQosOKFrame, 1, 60, 11)
    BY <2>1, SoundProcessed, HandlerNames, Zenon DEF BasicQosOKFrame, BasicFrame
  <2>3. Catalogue["BasicQosOK"] = BasicQosOKFrame
    BY DEF Catalogue
  <2>4. process(1, 60, 11) = "BasicQosOK"
    BY DEF process, processMethodFrame, processBasicFrame
  <2> QED
    BY <2>2, <2>3, <2>4 DEF Right
<1>3. Right("BasicConsume")
  <2>1. Sound(MethodFrame(60, 20, <<"short", "shortstr", "shortstr", "bits", "table">>, 5, 3), 1, 60, 20)
    <3>1. 3 \in Nat /\ 5 \in Nat /\ 20 \in Nat /\ 60 \in Nat
      OBVIOUS
    <3>2. "bits" \in Field /\ "short" \in Field /\ "shortstr" \in Field /\ "table" \in Field
      BY FieldValues
    <3>3. 5 = Constant("short") + Constant("shortstr") + Constant("shortstr") + Constant("bits")
        + Constant("table")
      BY FieldValues
    <3>4. 3 = Variable("short") + Variable("shortstr") + Variable("shortstr") + Variable("bits")
        + Variable("table")
      BY FieldValues
    <3> QED
      BY <3>1, <3>2, <3>3, <3>4, Method5, Zenon
  <2>2. Sound(BasicConsumeFrame(FALSE), 1, 60, 20)
    BY <2>1, SoundUnlessNoWait, Zenon DEF BasicConsumeFrame, BasicFrame
  <2>3. Catalogue["BasicConsume"] = BasicConsumeFrame(FALSE)
    BY DEF Catalogue
  <2>4. process(1, 60, 20) = "BasicConsume"
    BY DEF process, processMethodFrame, processBasicFrame
  <2> QED
    BY <2>2, <2>3, <2>4 DEF Right
<1>4. Right("BasicConsumeOK")
  <2>1. Sound(MethodFrame(60, 21, <<"shortstr">>, 1, 1), 1, 60, 21)
    BY Method1, FieldValues
  <2>2. Sound(BasicConsumeOKFrame, 1, 60, 21)
    BY <2>1, SoundProcessed, HandlerNames, Zenon DEF BasicConsumeOKFrame, BasicFrame
  <2>3. Catalogue["BasicConsumeOK"] = BasicConsumeOKFrame
    BY DEF Catalogue
  <2>4. process(1, 60, 21) = "BasicConsumeOK"
    BY DEF process, processMethodFrame, processBasicFrame
  <2> QED
    BY <2>2, <2>3, <2>4 DEF Right
<1>5. Right("BasicCancel")
  <2>1. Sound(MethodFrame(60, 30, <<"shortstr", "bits">>, 2, 1), 1, 60, 30)
    <3>1. 1 \in Nat /\ 2 \in Nat /\ 30 \in Nat /\ 60 \in Nat
      OBVIOUS
    <3>2. "bits" \in Field /\ "shortstr" \in Field
      BY FieldValues
    <3>3. 2 = Constant("shortstr") + Constant("bits")
      BY FieldValues
    <3>4. 1 = Variable("shortstr") + Variable("bits")
      BY FieldValues
    <3> QED
      BY <3>1, <3>2, <3>3, <3>4, Method2, Zenon
  <2>2. Sound(BasicCancelFrame(FALSE), 1, 60, 30)
    BY <2>1, SoundProcessed, SoundUnlessNoWait, HandlerNames, Zenon DEF BasicCancelFrame, BasicFrame
  <2>3. Catalogue["BasicCancel"] = BasicCancelFrame(FALSE)
    BY DEF Catalogue
  <2>4. process(1, 60, 30) = "BasicCancel"
    BY DEF process, processMethodFrame, processBasicFrame
  <2> QED
    BY <2>2, <2>3, <2>4 DEF Right
<1>6. Right("BasicCancelOK")
  <2>1. Sound(MethodFrame(60, 31, <<"shortstr">>, 1, 1), 1, 60, 31)
    BY Method1, FieldValues
  <2>2. Sound(BasicCancelOKFrame, 1, 60, 31)
    BY <2>1, SoundProcessed, HandlerNames, Zenon DEF BasicCancelOKFrame, BasicFrame
  <2>3. Catalogue["BasicCancelOK"] = BasicCancelOKFrame
    BY DEF Catalogue
  <2>4. process(1, 60, 31) = "BasicCancelOK"
    BY DEF process, processMethodFrame, processBasicFrame
  <2> QED
    BY <2>2, <2>3, <2>4 DEF Right
<1>7. Right("BasicPublish")
  <2>1. Sound(MethodFrame(60, 40, <<"short", "shortstr", "shortstr", "bits">>, 5, 2), 1, 60, 40)
    <3>1. 2 \in Nat /\ 5 \in Nat /\ 40 \in Nat /\ 60 \in Nat
      OBVIOUS
    <3>2. "bits" \in Field /\ "short" \in Field /\ "shortstr" \in Field
      BY FieldValues
    <3>3. 5 = Constant("short") + Constant("shortstr") + Constant("shortstr") + Constant("bits")
      BY FieldValues
    <3>4. 2 = Variable("short") + Variable("shortstr") + Variable("shortstr") + Variable("bits")
      BY FieldValues
    <3> QED
      BY <3>1, <3>2, <3>3, <3>4, Method4, Zenon
  <2>2. Sound(BasicPublishFrame, 1, 60, 40)
    BY <2>1, SoundAsynchronous, Zenon DEF BasicPublishFrame, BasicFrame
  <2>3. Catalogue["BasicPublish"] = BasicPublishFrame
    BY DEF Catalogue
  <2>4. process(1, 60, 40) = "BasicPublish"
    BY DEF process, processMethodFrame, processBasicFrame
  <2> QED
    BY <2>2, <2>3, <2>4 DEF Right
<1>8. Right("BasicReturn")
  <2>1. Sound(MethodFrame(60, 50, <<"short", "shortstr", "shortstr", "shortstr">>, 5, 3), 1, 60, 50)
    <3>1. 3 \in Nat /\ 5 \in Nat /\ 50 \in Nat /\ 60 \in Nat
      OBVIOUS
    <3>2. "short" \in Field /\ "shortstr" \in Field
      BY FieldValues
    <3>3. 5 = Constant("short") + Constant("shortstr") + Constant("shortstr") + Constant("shortstr")
      BY FieldValues
    <3>4. 3 = Variable("short") + Variable("shortstr") + Variable("shortstr") + Variable("shortstr")
      BY FieldValues
    <3> QED
      BY <3>1, <3>2, <3>3, <3>4, Method4, Zenon
  <2>2. Sound(BasicReturnFrame, 1, 60, 50)
    BY <2>1, SoundProcessed, SoundAsynchronous, HandlerNames, Zenon DEF BasicReturnFrame, BasicFrame
  <2>3. Catalogue["BasicReturn"] = BasicReturnFrame
    BY DEF Catalogue
  <2>4. process(1, 60, 50) = "BasicReturn"
    BY DEF process, processMethodFrame, processBasicFrame
  <2> QED
    BY <2>2, <2>3, <2>4 DEF Right
<1>9. Right("BasicDeliver")
  <2>1. Sound(MethodFrame(60, 60, <<"shortstr", "longlong", "bits", "shortstr", "shortstr">>, 12, 3),
      1, 60, 60)
    <3>1. 3 \in Nat /\ 12 \in Nat /\ 60 \in Nat
      OBVIOUS
    <3>2. "bits" \in Field /\ "longlong" \in Field /\ "shortstr" \in Field
      BY FieldValues
    <3>3. 12 = Constant("shortstr") + Constant("longlong") + Constant("bits") + Constant("shortstr")
        + Constant("shortstr")
      BY FieldValues
    <3>4. 3 = Variable("shortstr") + Variable("longlong") + Variable("bits") + Variable("shortstr")
        + Variable("shortstr")
      BY FieldValues
    <3> QED
      BY <3>1, <3>2, <3>3, <3>4, Method5, Zenon
  <2>2. Sound(BasicDeliverFrame, 1, 60, 60)
    BY <2>1, SoundProcessed, SoundAsynchronous, HandlerNames, Zenon DEF BasicDeliverFrame, BasicFrame
  <2>3. Catalogue["BasicDeliver"] = BasicDeliverFrame
    BY DEF Catalogue
  <2>4. process(1, 60, 60) = "BasicDeliver"
    BY DEF process, processMethodFrame, processBasicFrame
  <2> QED
    BY <2>2, <2>3, <2>4 DEF Right
<1>10. Right("BasicGet")
  <2>1. Sound(MethodFrame(60, 70, <<"short", "shortstr", "bits">>, 4, 1), 1, 60, 70)
    <3>1. 1 \in Nat /\ 4 \in Nat /\ 60 \in Nat /\ 70 \in Nat
      OBVIOUS
    <3>2. "bits" \in Field /\ "short" \in Field /\ "shortstr" \in Field
      BY FieldValues
    <3>3. 4 = Constant("short") + Constant("shortstr") + Constant("bits")
      BY FieldValues
    <3>4. 1 = Variable("short") + Variable("shortstr") + Variable("bits")
      BY FieldValues
    <3> QED
      BY <3>1, <3>2, <3>3, <3>4, Method3, Zenon
  <2>2. Sound(BasicGetFrame, 1, 60, 70)
    BY <2>1 DEF BasicGetFrame, BasicFrame
  <2>3. Catalogue["BasicGet"] = BasicGetFrame
    BY DEF Catalogue
  <2>4. process(1, 60, 70) = "BasicGet"
    BY DEF process, processMethodFrame, processBasicFrame
  <2> QED
    BY <2>2, <2>3, <2>4 DEF Right
<1>11. Right("BasicGetOK")
  <2>1. Sound(MethodFrame(60, 71, <<"longlong", "bits", "shortstr", "shortstr", "long">>, 15, 2), 1, 60, 71)
    <3>1. 2 \in Nat /\ 15 \in Nat /\ 60 \in Nat /\ 71 \in Nat
      OBVIOUS
    <3>2. "bits" \in Field /\ "long" \in Field /\ "longlong" \in Field /\ "shortstr" \in Field
      BY FieldValues
    <3>3. 15 = Constant("longlong") + Constant("bits") + Constant("shortstr") + Constant("shortstr")
        + Constant("long")
      BY FieldValues
    <3>4. 2 = Variable("longlong") + Variable("bits") + Variable("shortstr") + Variable("shortstr")
        + Variable("long")
      BY FieldValues
    <3> QED
      BY <3>1, <3>2, <3>3, <3>4, Method5, Zenon
  <2>2. Sound(BasicGetOKFrame, 1, 60, 71)
    BY <2>1, SoundProcessed, HandlerNames, Zenon DEF BasicGetOKFrame, BasicFrame
  <2>3. Catalogue["BasicGetOK"] = BasicGetOKFrame
    BY DEF Catalogue
  <2>4. process(1, 60, 71) = "BasicGetOK"
    BY DEF process, processMethodFrame, processBasicFrame
  <2> QED
    BY <2>2, <2>3, <2>4 DEF Right
<1>12. Right("BasicGetEmpty")
  <2>1. Sound(MethodFrame(60, 72, <<"empty">>, 1, 0), 1, 60, 72)
    BY Method1, FieldValues
  <2>2. Sound(BasicGetEmptyFrame, 1, 60, 72)
    BY <2>1, SoundProcessed, HandlerNames, Zenon DEF BasicGetEmptyFrame, BasicFrame
  <2>3. Catalogue["BasicGetEmpty"] = BasicGetEmptyFrame
    BY DEF Catalogue
  <2>4. process(1, 60, 72) = "BasicGetEmpty"
    BY DEF process, processMethodFrame, processBasicFrame
  <2> QED
    BY <2>2, <2>3, <2>4 DEF Right
<1>13. Right("BasicAck")
  <2>1. Sound(MethodFrame(60, 80, <<"longlong", "bits">>, 9, 0), 1, 60, 80)
    BY TagAndBits
  <2>2. Sound(BasicAckFrame, 1, 60, 80)
    BY <2>1, SoundProcessed, SoundAsynchronous, HandlerNames, Zenon DEF BasicAckFrame, BasicFrame
  <2>3. Catalogue["BasicAck"] = BasicAckFrame
    BY DEF Catalogue
  <2>4. process(1, 60, 80) = "BasicAck"
    BY DEF process, processMethodFrame, processBasicFrame
  <2> QED
    BY <2>2, <2>3, <2>4 DEF Right
<1>14. Right("BasicReject")
  <2>1. Sound(MethodFrame(60, 90, <<"longlong", "bits">>, 9, 0), 1, 60, 90)
    BY TagAndBits
  <2>2. Sound(BasicRejectFrame, 1, 60, 90)
    BY <2>1, SoundAsynchronous, Zenon DEF BasicRejectFrame, BasicFrame
  <2>3. Catalogue["BasicReject"] = BasicRejectFrame
    BY DEF Catalogue
  <2>4. process(1, 60, 90) = "BasicReject"
    BY DEF process, processMethodFrame, processBasicFrame
  <2> QED
    BY <2>2, <2>3, <2>4 DEF Right
<1>15. Right("BasicNack")
  <2>1. Sound(MethodFrame(60, 120, <<"longlong", "bits">>, 9, 0), 1, 60, 120)
    BY TagAndBits
  <2>2. Sound(BasicNackFrame, 1, 60, 120)
    BY <2>1, SoundProcessed, HandlerNames, Zenon DEF BasicNackFrame, BasicFrame
  <2>3. Catalogue["BasicNack"] = BasicNackFrame
    BY DEF Catalogue
  <2>4. process(1, 60, 120) = "BasicNack"
    BY DEF process, processMethodFrame, processBasicFrame
  <2> QED
    BY <2>2, <2>3, <2>4 DEF Right
<1>16. Right("BasicRecoverAsync")
  <2>1. Sound(MethodFrame(60, 100, <<"bits">>, 1, 0), 1, 60, 100)
    BY Method1, FieldValues
  <2>2. Sound(BasicRecoverAsyncFrame, 1, 60, 100)
    BY <2>1, SoundAsynchronous, Zenon DEF BasicRecoverAsyncFrame, BasicFrame
  <2>3. Catalogue["BasicRecoverAsync"] = BasicRecoverAsyncFrame
    BY DEF Catalogue
  <2>4. process(1, 60, 100) = "BasicRecoverAsync"
    BY DEF process, processMethodFrame, processBasicFrame
  <2> QED
    BY <2>2, <2>3, <2>4 DEF Right
<1>17. Right("BasicRecover")
  <2>1. Sound(MethodFrame(60, 110, <<"bits">>, 1, 0), 1, 60, 110)
    BY Method1, FieldValues
  <2>2. Sound(BasicRecoverFrame, 1, 60, 110)
    BY <2>1, SoundAsynchronous, Zenon DEF BasicRecoverFrame, BasicFrame
  <2>3. Catalogue["BasicRecover"] = BasicRecoverFrame
    BY DEF Catalogue
  <2>4. process(1, 60, 110) = "BasicRecover"
    BY DEF process, processMethodFrame, processBasicFrame
  <2> QED
    BY <2>2, <2>3, <2>4 DEF Right
<1>18. Right("BasicRecoverOK")
  <2>1. Sound(MethodFrame(60, 111, <<>>, 0, 0), 1, 60, 111)
    BY Method0, FieldValues
  <2>2. Sound(BasicRecoverOKFrame, 1, 60, 111)
    BY <2>1, SoundProcessed, HandlerNames, Zenon DEF BasicRecoverOKFrame, BasicFrame
  <2>3. Catalogue["BasicRecoverOK"] = BasicRecoverOKFrame
    BY DEF Catalogue
  <2>4. process(1, 60, 111) = "BasicRecoverOK"
    BY DEF process, processMethodFrame, processBasicFrame
  <2> QED
    BY <2>2, <2>3, <2>4 DEF Right
<1> QED
  BY <1>1, <1>2, <1>3, <1>4, <1>5, <1>6, <1>7, <1>8, <1>9, <1>10, <1>11, <1>12, <1>13, <1>14, <1>15,
      <1>16, <1>17, <1>18

(* The frames that are not method frames.                                   *)
LEMMA ContentRight ==
    \A k \in {"BasicHeader", "Body", "Heartbeat"} : Right(k)
<1>1. Right("BasicHeader")
  <2>1. Sound(HeaderFrame(60, <<"short", "longlong", "metadata">>, 10, 1), 2, 60, 0)
    <3>1. 1 \in Nat /\ 10 \in Nat /\ 60 \in Nat
      OBVIOUS
    <3>2. "short" \in Field /\ "longlong" \in Field /\ "metadata" \in Field
      BY FieldValues
    <3>3. 10 = Constant("short") + Constant("longlong") + Constant("metadata")
      BY FieldValues
    <3>4. 1 = Variable("short") + Variable("longlong") + Variable("metadata")
      BY FieldValues
    <3> QED
      BY <3>1, <3>2, <3>3, <3>4, Header3, Zenon
  <2>2. Sound(BasicHeaderFrame, 2, 60, 0)
    BY <2>1, SoundProcessed, HandlerNames, Zenon DEF BasicHeaderFrame
  <2>3. Catalogue["BasicHeader"] = BasicHeaderFrame
    BY DEF Catalogue
  <2>4. process(2, 60, 0) = "BasicHeader"
    BY DEF process, processHeaderFrame
  <2> QED
    BY <2>2, <2>3, <2>4 DEF Right
<1>2. Right("Body")
  <2>1. Sound(ExtFrame(3, <<"data">>, 0, 1), 3, 0, 0)
    BY Ext1, FieldValues
  <2>2. Sound(BodyFrame, 3, 0, 0)
    BY <2>1, SoundProcessed, HandlerNames, Zenon DEF BodyFrame
  <2>3. Catalogue["Body"] = BodyFrame
    BY DEF Catalogue
  <2>4. process(3, 0, 0) = "Body"
    BY DEF process
  <2> QED
    BY <2>2, <2>3, <2>4 DEF Right
<1>3. Right("Heartbeat")
  <2>1. Sound(ExtFrame(8, <<>>, 0, 0), 8, 0, 0)
    BY Ext0, FieldValues
  <2>2. Sound(HeartbeatFrame, 8, 0, 0)
    BY <2>1, SoundProcessed, HandlerNames, Zenon DEF HeartbeatFrame
  <2>3. Catalogue["Heartbeat"] = HeartbeatFrame
    BY DEF Catalogue
  <2>4. process(8, 0, 0) = "Heartbeat"
    BY DEF process
  <2> QED
    BY <2>2, <2>3, <2>4 DEF Right
<1> QED
  BY <1>1, <1>2, <1>3

(* The frames of the confirm class.                                         *)
LEMMA ConfirmRight ==
    \A k \in {"ConfirmSelect", "ConfirmSelectOK"} : Right(k)
<1>1. Right("ConfirmSelect")
  <2>1. Sound(MethodFrame(85, 10, <<"bits">>, 1, 0), 1, 85, 10)
    BY Method1, FieldValues
  <2>2. Sound(ConfirmSelectFrame, 1, 85, 10)
    BY <2>1 DEF ConfirmSelectFrame, ConfirmFrame
  <2>3. Catalogue["ConfirmSelect"] = ConfirmSelectFrame
    BY DEF Catalogue
  <2>4. process(1, 85, 10) = "ConfirmSelect"
    BY DEF process, processMethodFrame, processConfirmFrame
  <2> QED
    BY <2>2, <2>3, <2>4 DEF Right
<1>2. Right("ConfirmSelectOK")
  <2>1. Sound(MethodFrame(85, 11, <<>>, 0, 0), 1, 85, 11)
    BY Method0, FieldValues
  <2>2. Sound(ConfirmSelectOKFrame, 1, 85, 11)
    BY <2>1, SoundProcessed, HandlerNames, Zenon DEF ConfirmSelectOKFrame, ConfirmFrame
  <2>3. Catalogue["ConfirmSelectOK"] = ConfirmSelectOKFrame
    BY DEF Catalogue
  <2>4. process(1, 85, 11) = "ConfirmSelectOK"
    BY DEF process, processMethodFrame, processConfirmFrame
  <2> QED
    BY <2>2, <2>3, <2>4 DEF Right
<1> QED
  BY <1>1, <1>2

(* The frames of the transaction class.                                     *)
LEMMA TransactionRight ==
    \A k \in {"TransactionSelect", "TransactionSelectOK", "TransactionCommit",
              "TransactionCommitOK", "TransactionRollback", "TransactionRollbackOK"} : Right(k)
<1>1. Right("TransactionSelect")
  <2>1. Sound(MethodFrame(90, 10, <<>>, 0, 0), 1, 90, 10)
    BY Method0, FieldValues
  <2>2. Sound(TransactionSelectFrame, 1, 90, 10)
    BY <2>1 DEF TransactionSelectFrame, TransactionFrame
  <2>3. Catalogue["TransactionSelect"] = TransactionSelectFrame
    BY DEF Catalogue
  <2>4. process(1, 90, 10) = "TransactionSelect"
    BY DEF process, processMethodFrame, processTransactionFrame
  <2> QED
    BY <2>2, <2>3, <2>4 DEF Right
<1>2. Right("TransactionSelectOK")
  <2>1. Sound(MethodFrame(90, 11, <<>>, 0, 0), 1, 90, 11)
    BY Method0, FieldValues
  <2>2. Sound(TransactionSelectOKFrame, 1, 90, 11)
    BY <2>1, SoundProcessed, HandlerNames, Zenon DEF TransactionSelectOKFrame, TransactionFrame
  <2>3. Catalogue["TransactionSelectOK"] = TransactionSelectOKFrame
    BY DEF Catalogue
  <2>4. process(1, 90, 11) = "TransactionSelectOK"
    BY DEF process, processMethodFrame, processTransactionFrame
  <2> QED
    BY <2>2, <2>3, <2>4 DEF Right
<1>3. Right("TransactionCommit")
  <2>1. Sound(MethodFrame(90, 20, <<>>, 0, 0), 1, 90, 20)
    BY Method0, FieldValues
  <2>2. Sound(TransactionCommitFrame, 1, 90, 20)
    BY <2>1 DEF TransactionCommitFrame, TransactionFrame
  <2>3. Catalogue["TransactionCommit"] = TransactionCommitFrame
    BY DEF Catalogue
  <2>4. process(1, 90, 20) = "TransactionCommit"
    BY DEF process, processMethodFrame, processTransactionFrame
  <2> QED
    BY <2>2, <2>3, <2>4 DEF Right
<1>4. Right("TransactionCommitOK")
  <2>1. Sound(MethodFrame(90, 21, <<>>, 0, 0), 1, 90, 21)
    BY Method0, FieldValues
  <2>2. Sound(TransactionCommitOKFrame, 1, 90, 21)
    BY <2>1, SoundProcessed, HandlerNames, Zenon DEF TransactionCommitOKFrame, TransactionFrame
  <2>3. Catalogue["TransactionCommitOK"] = TransactionCommitOKFrame
    BY DEF Catalogue
  <2>4. process(1, 90, 21) = "TransactionCommitOK"
    BY DEF process, processMethodFrame, processTransactionFrame
  <2> QED
    BY <2>2, <2>3, <2>4 DEF Right
<1>5. Right("TransactionRollback")
  <2>1. Sound(MethodFrame(90, 30, <<>>, 0, 0), 1, 90, 30)
    BY Method0, FieldValues
  <2>2. Sound(TransactionRollbackFrame, 1, 90, 30)
    BY <2>1 DEF TransactionRollbackFrame, TransactionFrame
  <2>3. Catalogue["TransactionRollback"] = TransactionRollbackFrame
    BY DEF Catalogue
  <2>4. process(1, 90, 30) = "TransactionRollback"
    BY DEF process, processMethodFrame, processTransactionFrame
  <2> QED
    BY <2>2, <2>3, <2>4 DEF Right
<1>6. Right("TransactionRollbackOK")
  <2>1. Sound(MethodFrame(90, 31, <<>>, 0, 0), 1, 90, 31)
    BY Method0, FieldValues
  <2>2. Sound(TransactionRollbackOKFrame, 1, 90, 31)
    BY <2>1, SoundProcessed, HandlerNames, Zenon DEF TransactionRollbackOKFrame, TransactionFrame
  <2>3. Catalogue["TransactionRollbackOK"] = TransactionRollbackOKFrame
    BY DEF Catalogue
  <2>4. process(1, 90, 31) = "TransactionRollbackOK"
    BY DEF process, processMethodFrame, processTransactionFrame
  <2> QED
    BY <2>2, <2>3, <2>4 DEF Right
<1> QED
  BY <1>1, <1>2, <1>3, <1>4, <1>5, <1>6

(* Every kind of frame that travels.                                        *)
LEMMA AllRight ==
    ASSUME NEW k \in WireKinds
    PROVE  Right(k) /\ k # "unrecognized"
<1>1. k \in Kinds /\ k # "ProtocolHeader" /\ k # "ExchangeDeclareNoWait"
  BY DEF WireKinds
<1>2. \/ k \in {"ConnectionStart", "ConnectionStartOK", "ConnectionSecure",
                "ConnectionSecureOK", "ConnectionTune", "ConnectionTuneOK",
                "ConnectionOpen", "ConnectionOpenOK", "ConnectionClose",
                "ConnectionCloseOK", "ConnectionBlock", "ConnectionUnblock"}
      \/ k \in {"ChannelOpen", "ChannelOpenOK", "ChannelFlow",
                "ChannelFlowOK", "ChannelClose", "ChannelCloseOK"}
      \/ k \in {"ExchangeDeclare", "ExchangeDeclareOK", "ExchangeDelete",
                "ExchangeDeleteOK", "ExchangeBind", "ExchangeBindOK",
                "ExchangeUnbind", "ExchangeUnbindOK"}
      \/ k \in {"QueueDeclare", "QueueDeclareOK", "QueueBind", "QueueBindOK", "QueuePurge",
                "QueuePurgeOK", "QueueDelete", "QueueDeleteOK", "QueueUnbind", "QueueUnbindOK"}
      \/ k \in {"BasicQos", "BasicQosOK", "BasicConsume", "BasicConsumeOK", "BasicCancel",
                "BasicCancelOK", "BasicPublish", "BasicReturn", "BasicDeliver", "BasicGet",
                "BasicGetOK", "BasicGetEmpty", "BasicAck", "BasicReject", "BasicNack",
                "BasicRecoverAsync", "BasicRecover", "BasicRecoverOK"}
      \/ k \in {"BasicHeader", "Body", "Heartbeat"}
      \/ k \in {"ConfirmSelect", "ConfirmSelectOK"}
      \/ k \in {"TransactionSelect", "TransactionSelectOK", "TransactionCommit",
                "TransactionCommitOK", "TransactionRollback", "TransactionRollbackOK"}
  BY <1>1 DEF Kinds, Catalogue
<1>3. k # "unrecognized"
  BY <1>2
<1>4. Right(k)
  BY <1>2, ConnectionRight, ChannelRight, ExchangeRight, QueueRight, BasicRight, ContentRight,
     ConfirmRight, TransactionRight
<1> QED
  BY <1>3, <1>4

(* What fill() writes is the total of the widths.                           *)
LEMMA FillTotal ==
    ASSUME NEW k, NEW n \in Nat, Catalogue[k].fields \in Seq(Field)
    PROVE  fill(k, n) = Filled(Catalogue[k].fields, n)
<1> DEFINE F == Catalogue[k].fields
           l == Len(F)
           v == Widths(F, n)
           Eq(g) == g = [i \in 0..l |-> IF i = 0 THEN 0 ELSE g[i - 1] + Width(F[i], n)]
           c == CHOOSE g : Eq(g)
<1>1. fill(k, n) = c[l]
  BY DEF fill
<1>2. l \in Nat /\ \A i \in 1..l : F[i] \in Field
  BY LenProperties, ElementOfSeq
<1> HIDE DEF F
<1>3. \A i \in 1..l : v[i] = Width(F[i], n) /\ v[i] \in Nat
  BY <1>2, WidthFacts DEF Widths
<1> HIDE DEF v
<1>4. ASSUME NEW g PROVE Sums(v, l, g) <=> Eq(g)
  <2>1. \A i \in 0..l : Added(v, g, i) = IF i = 0 THEN 0 ELSE g[i - 1] + Width(F[i], n)
    BY <1>2, <1>3 DEF Added
  <2> QED
    BY <2>1 DEF Sums
<1> HIDE DEF l
<1>5. \E g : Sums(v, l, g)
  BY <1>2, <1>3, SumsExist
<1>6. \E g : Eq(g)
  BY <1>4, <1>5
<1>7. Eq(c)
  <2> HIDE DEF Eq
  <2> QED
    BY <1>6
<1>8. Sums(v, l, c)
  BY <1>4, <1>7
<1> HIDE DEF c
<1>9. l \in 0..l
  BY <1>2
<1>10. \A i \in 1..l : v[i] \in Nat
  BY <1>3
<1>11. \A i \in 0..l : Total(v, i) = c[i] /\ c[i] \in Nat
  BY <1>2, <1>8, <1>10, TotalSums
<1>12. Total(v, l) = c[l]
  BY <1>9, <1>11
<1> QED
  BY <1>1, <1>12 DEF Filled, F, l, v

(* The payload size that a constructor announces is what fill() writes.     *)
LEMMA Announced ==
    ASSUME NEW k \in WireKinds, NEW n \in Nat
    PROVE  payloadSize(k, n) = fill(k, n) /\ fill(k, n) \in Nat
<1>1. PICK t \in Nat, c \in Nat, m \in Nat : Sound(Catalogue[k], t, c, m)
  BY AllRight DEF Right
<1> DEFINE r == Catalogue[k]
           F == r.fields
           x == r.fixed
           o == r.operands
           a == Count(F, "table")
           b == Count(F, "metadata")
<1>2. Fits(F, x, o)
  BY <1>1 DEF Sound
<1>3. F \in Seq(Field) /\ x \in Nat /\ o \in Nat /\ a \in Nat /\ b \in Nat
  BY <1>2 DEF Fits
<1>4. Filled(F, n) = x + o * n + 4 * a + 2 * b
  BY <1>2 DEF Fits
<1>5. fill(k, n) = Filled(F, n)
  BY <1>3, FillTotal
<1>6. payloadSize(k, n) = x + o * n + 4 * a + 2 * b
  BY DEF payloadSize, Count
<1> HIDE DEF x, o, a, b, F
<1>7. o * n \in Nat
  BY <1>3
<1>8. x + o * n + 4 * a + 2 * b \in Nat
  BY <1>3, <1>7
<1> QED
  BY <1>4, <1>5, <1>6, <1>8

(* A frame that was sent.                                                   *)
Sent ==
    {f \in [kind : WireKinds, announced : Nat, written : Nat, max : Nat] :
        f.announced = f.written /\ (f.kind = "ConnectionTune" => f.max >= 8)}

(* What the peer may send (FrameForms) is such a frame.                     *)
LEMMA FormsAreSent ==
    ASSUME setup \in Setups, NEW f \in FrameForms
    PROVE  f \in Sent
<1>1. setup.kinds \subseteq WireKinds /\ setup.lengths \subseteq Nat /\ setup.limits \subseteq Nat
      /\ \A m \in setup.limits : m >= 8
  BY WireAssumption
<1>2. PICK k \in setup.kinds :
        f \in {Form(k, n, m) : n \in IF Catalogue[k].operands = 0 THEN {0} ELSE setup.lengths,
                               m \in setup.limits}
  BY DEF FrameForms
<1>3. PICK n \in (IF Catalogue[k].operands = 0 THEN {0} ELSE setup.lengths), m \in setup.limits :
        f = Form(k, n, m)
  BY <1>2
<1>4. k \in WireKinds /\ n \in Nat /\ m \in Nat /\ m >= 8
  BY <1>1, <1>3
<1> DEFINE x == payloadSize(k, n)
           y == fill(k, n)
<1>5. x = y /\ y \in Nat
  BY <1>4, Announced
<1>6. f = [kind |-> k, announced |-> x, written |-> y, max |-> IF k = "ConnectionTune" THEN m ELSE 0]
  BY <1>3 DEF Form
<1> HIDE DEF x, y
<1> QED
  BY <1>4, <1>5, <1>6 DEF Sent

(* Its size is that of the header, the payload as it was written, and the   *)
(* end.                                                                     *)
LEMMA SentFacts ==
    ASSUME NEW f \in Sent
    PROVE  /\ f.kind \in WireKinds /\ f.announced \in Nat /\ f.written = f.announced
           /\ f.max \in Nat /\ (f.kind = "ConnectionTune" => f.max >= 8)
           /\ SizeOf(f) = f.announced + 8 /\ totalSize(f) = SizeOf(f)
           /\ SizeOf(f) \in Nat /\ SizeOf(f) >= 8
<1>1. /\ f.kind \in WireKinds /\ f.announced \in Nat /\ f.written = f.announced
      /\ f.max \in Nat /\ (f.kind = "ConnectionTune" => f.max >= 8)
  BY DEF Sent
<1> QED
  BY <1>1 DEF SizeOf, totalSize, headerSize, trailerSize

(* The three outcomes of looking at a buffer.                               *)
LEMMA Outcomes ==
    /\ \A x : Wrong(x).wrong = x /\ Wrong(x).index = 0
    /\ \A x : Found(x).index = x /\ Found(x).wrong = "none"
    /\ \A x : Partial(x).index = 0 /\ Partial(x).wrong = "none" /\ Partial(x).want = x
<1>1. \A x : Wrong(x).wrong = x /\ Wrong(x).index = 0
  BY DEF Wrong
<1>2. \A x : Found(x).index = x /\ Found(x).wrong = "none"
  BY DEF Found
<1>3. \A x : Partial(x).index = 0 /\ Partial(x).wrong = "none" /\ Partial(x).want = x
  BY DEF Partial
<1> QED
  BY <1>1, <1>2, <1>3

(* process() makes of a frame the class that it was sent as, or throws.     *)
LEMMA RecognizedFacts ==
    ASSUME NEW f \in Sent
    PROVE  /\ Catalogue[f.kind].process = "unimplemented" =>
                 Recognized(f).wrong = "unimplemented frame"
           /\ Catalogue[f.kind].process # "unimplemented" =>
                 Recognized(f).wrong = "none" /\ Recognized(f).kind = f.kind
<1> DEFINE k == f.kind
           r == Catalogue[k]
<1>1. k \in WireKinds
  BY SentFacts
<1>2. PICK t \in Nat, c \in Nat, m \in Nat : Sound(r, t, c, m) /\ process(t, c, m) = k
  BY <1>1, AllRight DEF Right
<1>3. r.type = t /\ r.class = c /\ r.method = m
  BY <1>2 DEF Sound
<1>4. k # "unrecognized"
  BY <1>1, AllRight
<1>5. process(r.type, r.class, r.method) = k
  BY <1>2, <1>3
<1>6. Recognized(f) = IF r.process = "unimplemented" THEN Wrong("unimplemented frame")
                      ELSE [wrong |-> "none", kind |-> k]
  BY <1>4, <1>5 DEF Recognized
<1> HIDE DEF r, k
<1>7. CASE r.process = "unimplemented"
  <2>1. Recognized(f) = Wrong("unimplemented frame")
    BY <1>6, <1>7
  <2>2. Recognized(f).wrong = "unimplemented frame"
    BY <2>1, Outcomes
  <2> QED
    BY <1>7, <2>2 DEF r, k
<1>8. CASE r.process # "unimplemented"
  <2>1. Recognized(f) = [wrong |-> "none", kind |-> k]
    BY <1>6, <1>8
  <2>2. Recognized(f).wrong = "none" /\ Recognized(f).kind = k
    BY <2>1
  <2> QED
    BY <1>8, <2>2 DEF r, k
<1> QED
  BY <1>7, <1>8

-----------------------------------------------------------------------------
(* Places in the stream.                                                    *)
Sizes(s) == [i \in 1..Len(s) |-> SizeOf(s[i])]

(* The end of a frame is the total of the sizes up to it.                   *)
LEMMA EndTotal ==
    ASSUME NEW s \in Seq(Sent), NEW i \in 0..Len(s)
    PROVE  EndOf(s, i) = Total(Sizes(s), i)
<1> DEFINE v == Sizes(s)
           Eq(g) == g = [j \in 0..i |-> IF j = 0 THEN 0 ELSE g[j - 1] + SizeOf(s[j])]
           c == CHOOSE g : Eq(g)
<1>1. EndOf(s, i) = c[i]
  BY DEF EndOf
<1>2. Len(s) \in Nat /\ \A j \in 1..Len(s) : s[j] \in Sent
  BY LenProperties, ElementOfSeq
<1>3. \A j \in 1..i : v[j] = SizeOf(s[j]) /\ v[j] \in Nat
  BY <1>2, SentFacts DEF Sizes
<1> HIDE DEF v
<1>4. ASSUME NEW g PROVE Sums(v, i, g) <=> Eq(g)
  <2>1. \A j \in 0..i : Added(v, g, j) = IF j = 0 THEN 0 ELSE g[j - 1] + SizeOf(s[j])
    BY <1>2, <1>3 DEF Added
  <2> QED
    BY <2>1 DEF Sums
<1>5. i \in Nat /\ i \in 0..i
  BY <1>2
<1>6. \E g : Sums(v, i, g)
  BY <1>3, <1>5, SumsExist
<1>7. \E g : Eq(g)
  BY <1>4, <1>6
<1>8. Eq(c)
  <2> HIDE DEF Eq
  <2> QED
    BY <1>7
<1>9. Sums(v, i, c)
  BY <1>4, <1>8
<1> HIDE DEF c
<1>10. \A j \in 1..i : v[j] \in Nat
  BY <1>3
<1>11. \A j \in 0..i : Total(v, j) = c[j] /\ c[j] \in Nat
  BY <1>5, <1>9, <1>10, TotalSums
<1>12. Total(v, i) = c[i]
  BY <1>5, <1>11
<1> QED
  BY <1>1, <1>12 DEF v

(* The ends one after the other.                                            *)
LEMMA EndStep ==
    ASSUME NEW s \in Seq(Sent)
    PROVE  /\ EndOf(s, 0) = 0
           /\ \A i \in 0..Len(s) : EndOf(s, i) \in Nat
           /\ \A i \in 1..Len(s) : EndOf(s, i) = EndOf(s, i - 1) + SizeOf(s[i])
<1> DEFINE v == Sizes(s)
           l == Len(s)
<1>1. l \in Nat /\ \A j \in 1..l : s[j] \in Sent
  BY LenProperties, ElementOfSeq
<1>2. \A j \in 1..l : v[j] = SizeOf(s[j]) /\ v[j] \in Nat
  BY <1>1, SentFacts DEF Sizes
<1>3. \A i \in 0..l : EndOf(s, i) = Total(v, i)
  BY EndTotal
<1> HIDE DEF v
<1>4. /\ Total(v, 0) = 0 /\ \A m \in 0..l : Total(v, m) \in Nat
      /\ \A m \in 1..l : Total(v, m) = Total(v, m - 1) + v[m]
  BY <1>1, <1>2, TotalStep
<1> HIDE DEF l
<1>5. \A i \in 1..l : i \in 0..l /\ i - 1 \in 0..l
  BY <1>1
<1>6. 0 \in 0..l
  BY <1>1
<1>7. \A i \in 1..l : EndOf(s, i) = EndOf(s, i - 1) + SizeOf(s[i])
  BY <1>2, <1>3, <1>4, <1>5
<1>8. EndOf(s, 0) = 0 /\ \A i \in 0..l : EndOf(s, i) \in Nat
  BY <1>3, <1>4, <1>6
<1> QED
  BY <1>7, <1>8 DEF l

(* Streams that agree on their first frames.                                *)
LEMMA EndSame ==
    ASSUME NEW s \in Seq(Sent), NEW t \in Seq(Sent), NEW n \in Nat, n <= Len(s), n <= Len(t),
           Agree(s, t, n)
    PROVE  EndOf(s, n) = EndOf(t, n)
<1> DEFINE v == Sizes(s)
           w == Sizes(t)
<1>1. /\ Len(s) \in Nat /\ \A j \in 1..Len(s) : s[j] \in Sent
      /\ Len(t) \in Nat /\ \A j \in 1..Len(t) : t[j] \in Sent
  BY LenProperties, ElementOfSeq
<1>2. \A j \in 1..n : v[j] = SizeOf(s[j]) /\ v[j] \in Nat /\ w[j] = SizeOf(t[j]) /\ s[j] = t[j]
  BY <1>1, SentFacts DEF Sizes, Agree
<1>3. n \in 0..Len(s) /\ n \in 0..Len(t)
  BY <1>1
<1>4. EndOf(s, n) = Total(v, n) /\ EndOf(t, n) = Total(w, n)
  BY <1>3, EndTotal
<1> HIDE DEF v, w
<1>5. \A j \in 1..n : v[j] \in Nat /\ v[j] = w[j]
  BY <1>2
<1>6. Total(v, n) = Total(w, n)
  BY <1>5, TotalSame
<1> QED
  BY <1>4, <1>6

(* A frame takes at least eight bytes.                                      *)
LEMMA EndGrows ==
    ASSUME NEW s \in Seq(Sent), NEW i \in 0..Len(s), NEW j \in 0..Len(s), i < j
    PROVE  EndOf(s, i) + 8 <= EndOf(s, j)
<1> DEFINE E(n) == EndOf(s, n)
           l == Len(s)
           S == {n \in Nat : (i + 1) + n <= l => E(i) + 8 <= E((i + 1) + n)}
<1>1. l \in Nat /\ i \in Nat /\ j \in Nat /\ i <= l /\ j <= l
  BY LenProperties
<1>2. \A n \in 1..l : s[n] \in Sent
  BY ElementOfSeq
<1>3. /\ \A n \in 0..l : E(n) \in Nat
      /\ \A n \in 1..l : E(n) = E(n - 1) + SizeOf(s[n])
  BY EndStep
<1>4. \A n \in 1..l : SizeOf(s[n]) \in Nat /\ SizeOf(s[n]) >= 8
  BY <1>2, SentFacts
<1> HIDE DEF E, l
<1>5. \A n \in 1..l : E(n - 1) \in Nat /\ E(n) >= E(n - 1) + 8
  <2> SUFFICES ASSUME NEW n \in 1..l PROVE E(n - 1) \in Nat /\ E(n) >= E(n - 1) + 8
    OBVIOUS
  <2>1. n - 1 \in 0..l
    BY <1>1
  <2>2. E(n - 1) \in Nat /\ E(n) = E(n - 1) + SizeOf(s[n])
    BY <1>3, <2>1
  <2> DEFINE a == E(n - 1)
             b == SizeOf(s[n])
             c == E(n)
  <2>3. a \in Nat /\ b \in Nat /\ b >= 8 /\ c = a + b
    BY <1>4, <2>2
  <2> HIDE DEF a, b, c
  <2>4. a \in Nat /\ c >= a + 8
    BY <2>3
  <2> QED
    BY <2>4 DEF a, c
<1>6. 0 \in S
  <2> SUFFICES ASSUME (i + 1) + 0 <= l PROVE E(i) + 8 <= E((i + 1) + 0)
    OBVIOUS
  <2>1. i + 1 \in 1..l /\ (i + 1) - 1 = i /\ (i + 1) + 0 = i + 1
    BY <1>1
  <2>2. E((i + 1) - 1) \in Nat /\ E(i + 1) >= E((i + 1) - 1) + 8
    BY <1>5, <2>1
  <2>3. E(i) \in Nat /\ E(i + 1) >= E(i) + 8
    BY <2>1, <2>2
  <2>4. E(i + 1) \in Nat
    BY <1>3, <2>1
  <2> QED
    BY <2>1, <2>3, <2>4
<1>7. ASSUME NEW n \in Nat, n \in S PROVE n + 1 \in S
  <2> SUFFICES ASSUME (i + 1) + (n + 1) <= l PROVE E(i) + 8 <= E((i + 1) + (n + 1))
    OBVIOUS
  <2> DEFINE p == (i + 1) + n
             q == (i + 1) + (n + 1)
  <2>1. p \in Nat /\ q \in 1..l /\ q - 1 = p /\ p <= l /\ p \in 0..l /\ q \in 0..l /\ i \in 0..l
    BY <1>1
  <2>2. E(i) + 8 <= E(p)
    BY <1>7, <2>1
  <2> HIDE DEF p, q
  <2>3. E(q - 1) \in Nat /\ E(q) >= E(q - 1) + 8
    BY <1>5, <2>1
  <2>4. E(i) \in Nat /\ E(p) \in Nat /\ E(q) \in Nat
    BY <1>3, <2>1
  <2>5. E(q) >= E(p) + 8
    BY <2>1, <2>3
  <2>6. E(i) + 8 <= E(q)
    BY <2>2, <2>4, <2>5
  <2> QED
    BY <2>6 DEF q
<1>8. Nat \subseteq S
  <2> HIDE DEF S
  <2> QED
    BY <1>6, <1>7, SetInduction
<1>9. j - (i + 1) \in Nat /\ (i + 1) + (j - (i + 1)) = j
  BY <1>1
<1>10. j - (i + 1) \in S
  BY <1>8, <1>9
<1>11. E(i) + 8 <= E(j)
  BY <1>1, <1>9, <1>10
<1> QED
  BY <1>11 DEF E

(* A stream without its first frames.                                       *)
LEMMA EndShift ==
    ASSUME NEW s \in Seq(Sent), NEW d \in 0..Len(s), NEW t \in Seq(Sent), Len(t) = Len(s) - d,
           \A i \in 1..Len(t) : t[i] = s[d + i]
    PROVE  \A i \in 0..Len(t) : EndOf(s, d + i) = EndOf(s, d) + EndOf(t, i)
<1> DEFINE l == Len(t)
           E(i) == EndOf(s, i)
           T(i) == EndOf(t, i)
           S == {i \in Nat : i <= l => E(d + i) = E(d) + T(i)}
<1>1. Len(s) \in Nat /\ l \in Nat /\ d \in Nat /\ d + l = Len(s)
  BY LenProperties
<1>2. /\ \A i \in 0..Len(s) : E(i) \in Nat
      /\ \A i \in 1..Len(s) : E(i) = E(i - 1) + SizeOf(s[i])
  BY EndStep
<1>3. /\ T(0) = 0 /\ \A i \in 0..l : T(i) \in Nat
      /\ \A i \in 1..l : T(i) = T(i - 1) + SizeOf(t[i])
  BY EndStep
<1>a. \A i \in 1..l : SizeOf(t[i]) \in Nat
  BY ElementOfSeq, SentFacts
<1> HIDE DEF E, T
<1>4. 0 \in S
  <2>1. d + 0 = d /\ d \in 0..Len(s) /\ E(d) \in Nat
    BY <1>1, <1>2
  <2> QED
    BY <1>3, <2>1
<1>5. ASSUME NEW i \in Nat, i \in S PROVE i + 1 \in S
  <2> SUFFICES ASSUME i + 1 <= l PROVE E(d + (i + 1)) = E(d) + T(i + 1)
    OBVIOUS
  <2> DEFINE p == d + (i + 1)
             q == i + 1
  <2>1. /\ p \in 1..Len(s) /\ p - 1 = d + i /\ q \in 1..l /\ q - 1 = i /\ d + q = p
        /\ i <= l /\ i \in 0..l /\ d \in 0..Len(s)
    BY <1>1
  <2>2. E(d + i) = E(d) + T(i)
    BY <1>5, <2>1
  <2> HIDE DEF p, q
  <2>3. E(p) = E(p - 1) + SizeOf(s[p]) /\ T(q) = T(q - 1) + SizeOf(t[q]) /\ t[q] = s[p]
    BY <1>2, <1>3, <2>1
  <2>4. E(d) \in Nat /\ T(i) \in Nat /\ SizeOf(t[q]) \in Nat
    BY <1>2, <1>3, <1>a, <2>1
  <2>5. E(p) = (E(d) + T(i)) + SizeOf(t[q]) /\ T(q) = T(i) + SizeOf(t[q])
    BY <2>1, <2>2, <2>3
  <2>6. E(p) = E(d) + T(q)
    BY <2>4, <2>5
  <2> QED
    BY <2>6 DEF p, q
<1>6. Nat \subseteq S
  <2> HIDE DEF S
  <2> QED
    BY <1>4, <1>5, SetInduction
<1>7. \A i \in 0..l : E(d + i) = E(d) + T(i)
  BY <1>6
<1> QED
  BY <1>7 DEF E, T

-----------------------------------------------------------------------------
(* The bytes from one place on.                                             *)
From(a, n) == [k \in 1..n |-> a + k]
Upto(n) == [k \in 1..n |-> k]

(* From is a sequence of bytes.                                             *)
LEMMA FromFacts ==
    ASSUME NEW a \in Nat, NEW n \in Nat
    PROVE  /\ From(a, n) \in Seq(Nat) /\ Len(From(a, n)) = n
           /\ \A k \in 1..n : From(a, n)[k] = a + k
<1>1. From(a, n) \in [1..n -> Nat]
  BY DEF From
<1>2. From(a, n) \in Seq(Nat)
  BY <1>1
<1>3. Len(From(a, n)) = n
  BY <1>1, <1>2, LenProperties
<1>4. \A k \in 1..n : From(a, n)[k] = a + k
  BY DEF From
<1> QED
  BY <1>2, <1>3, <1>4

(* Upto is the sequence of the first bytes.                                 *)
LEMMA UptoFacts ==
    ASSUME NEW n \in Nat
    PROVE  /\ Upto(n) \in Seq(Nat) /\ Len(Upto(n)) = n
           /\ \A k \in 1..n : Upto(n)[k] = k
<1>1. Upto(n) \in [1..n -> Nat]
  BY DEF Upto
<1>2. Upto(n) \in Seq(Nat)
  BY <1>1
<1>3. Len(Upto(n)) = n
  BY <1>1, <1>2, LenProperties
<1>4. \A k \in 1..n : Upto(n)[k] = k
  BY DEF Upto
<1> QED
  BY <1>2, <1>3, <1>4

(* What is read is put behind what is there.                                *)
LEMMA UptoConcat ==
    ASSUME NEW a \in Nat, NEW n \in Nat
    PROVE  Upto(a) \o From(a, n) = Upto(a + n)
<1> DEFINE s == Upto(a)
           t == From(a, n)
           u == s \o t
           v == Upto(a + n)
<1>1. s \in Seq(Nat) /\ Len(s) = a /\ \A k \in 1..a : s[k] = k
  BY UptoFacts
<1>2. t \in Seq(Nat) /\ Len(t) = n /\ \A k \in 1..n : t[k] = a + k
  BY FromFacts
<1>3. a + n \in Nat
  OBVIOUS
<1>4. v \in Seq(Nat) /\ Len(v) = a + n /\ \A k \in 1..(a + n) : v[k] = k
  BY <1>3, UptoFacts
<1> HIDE DEF s, t, v
<1>5. /\ u \in Seq(Nat) /\ Len(u) = Len(s) + Len(t)
      /\ \A k \in 1..(Len(s) + Len(t)) : u[k] = IF k <= Len(s) THEN s[k] ELSE t[k - Len(s)]
  BY <1>1, <1>2, ConcatProperties
<1> HIDE DEF u
<1>6. Len(u) = Len(v)
  BY <1>1, <1>2, <1>4, <1>5
<1>7. ASSUME NEW k \in 1..Len(u) PROVE u[k] = v[k]
  <2>1. v[k] = k /\ k \in 1..(a + n)
    BY <1>1, <1>2, <1>4, <1>5
  <2>2. CASE k <= a
    BY <1>1, <1>2, <1>5, <2>1, <2>2
  <2>3. CASE ~(k <= a)
    <3>1. k - a \in 1..n /\ a + (k - a) = k
      BY <2>1, <2>3
    <3>2. u[k] = t[k - a]
      BY <1>1, <1>2, <1>5, <2>1, <2>3
    <3> QED
      BY <1>2, <2>1, <3>1, <3>2
  <2> QED
    BY <2>2, <2>3
<1>8. u = v
  BY <1>4, <1>5, <1>6, <1>7, SeqEqual
<1> QED
  BY <1>8 DEF u, s, t, v

(* The bytes that were not processed.                                       *)
LEMMA UptoTrailing ==
    ASSUME NEW n \in Nat, NEW e \in 0..n
    PROVE  Trailing(Upto(n), e) = From(e, n - e)
<1> DEFINE s == Upto(n)
           t == Trailing(s, e)
           u == From(e, n - e)
<1>1. s \in Seq(Nat) /\ Len(s) = n /\ \A k \in 1..n : s[k] = k
  BY UptoFacts
<1>2. e \in Nat /\ n - e \in Nat
  OBVIOUS
<1>3. u \in Seq(Nat) /\ Len(u) = n - e /\ \A k \in 1..(n - e) : u[k] = e + k
  BY <1>2, FromFacts
<1> HIDE DEF s, u
<1>4. t \in Seq(Nat) /\ Len(t) = n - e /\ \A k \in 1..(n - e) : t[k] = s[e + k]
  BY <1>1, TrailingFacts
<1> HIDE DEF t
<1>5. ASSUME NEW k \in 1..Len(t) PROVE t[k] = u[k]
  <2>1. k \in 1..(n - e) /\ e + k \in 1..n
    BY <1>2, <1>4
  <2> QED
    BY <1>1, <1>3, <1>4, <2>1
<1>6. t = u
  BY <1>3, <1>4, <1>5, SeqEqual
<1> QED
  BY <1>6 DEF s, t, u

-----------------------------------------------------------------------------
(* The limit in force at each place: the one of connection.tune, from the   *)
(* frame behind it on.                                                      *)
Tuned(f, m) == IF f.kind = "ConnectionTune" THEN f.max ELSE m
Chain(s, L) ==
    /\ L \in [0..Len(s) -> Nat]
    /\ \A i \in 0..Len(s) : L[i] >= 8
    /\ \A i \in 1..Len(s) : SizeOf(s[i]) <= L[i - 1] /\ L[i] = Tuned(s[i], L[i - 1])
Governs(s, d, m, p) == \E L : Chain(s, L) /\ L[d] = m /\ L[Len(s)] = p
Placed(s, d, t) == d \in 0..Len(s) /\ EndOf(s, d) <= t /\ t <= EndOf(s, Len(s))

(* The limits are numbers, and not below the size of the smallest frame.    *)
LEMMA GovernsType ==
    ASSUME NEW s \in Seq(Sent), NEW d \in 0..Len(s), NEW m, NEW p, Governs(s, d, m, p)
    PROVE  m \in Nat /\ m >= 8 /\ p \in Nat /\ p >= 8
<1>1. PICK L : Chain(s, L) /\ L[d] = m /\ L[Len(s)] = p
  BY DEF Governs
<1>2. L \in [0..Len(s) -> Nat] /\ \A i \in 0..Len(s) : L[i] >= 8
  BY <1>1 DEF Chain
<1>3. Len(s) \in 0..Len(s)
  BY LenProperties
<1> QED
  BY <1>1, <1>2, <1>3

(* The next frame is not too large, and says what follows.                  *)
LEMMA GovernsNext ==
    ASSUME NEW s \in Seq(Sent), NEW d \in 0..Len(s), d < Len(s), NEW m, NEW p, Governs(s, d, m, p)
    PROVE  SizeOf(s[d + 1]) <= m /\ Governs(s, d + 1, Tuned(s[d + 1], m), p)
<1>1. PICK L : Chain(s, L) /\ L[d] = m /\ L[Len(s)] = p
  BY DEF Governs
<1>2. \A i \in 1..Len(s) : SizeOf(s[i]) <= L[i - 1] /\ L[i] = Tuned(s[i], L[i - 1])
  BY <1>1 DEF Chain
<1>3. d + 1 \in 1..Len(s) /\ (d + 1) - 1 = d
  BY LenProperties
<1>4. SizeOf(s[d + 1]) <= L[(d + 1) - 1] /\ L[d + 1] = Tuned(s[d + 1], L[(d + 1) - 1])
  BY <1>2, <1>3
<1>5. SizeOf(s[d + 1]) <= m /\ L[d + 1] = Tuned(s[d + 1], m)
  BY <1>1, <1>3, <1>4
<1> QED
  BY <1>1, <1>5 DEF Governs

(* The peer sends one more frame.                                           *)
LEMMA AppendKeeps ==
    ASSUME NEW s \in Seq(Sent), NEW f \in Sent
    PROVE  /\ Append(s, f) \in Seq(Sent) /\ Len(Append(s, f)) = Len(s) + 1
           /\ Append(s, f)[Len(s) + 1] = f
           /\ \A i \in 1..Len(s) : Append(s, f)[i] = s[i]
           /\ \A i \in 0..Len(s) : EndOf(Append(s, f), i) = EndOf(s, i)
           /\ EndOf(s, Len(s)) <= EndOf(Append(s, f), Len(s) + 1)
<1> DEFINE t == Append(s, f)
           l == Len(s)
<1>1. t \in Seq(Sent) /\ Len(t) = l + 1 /\ t[l + 1] = f
  BY AppendProperties
<1>2. \A i \in 1..l : t[i] = s[i]
  BY AppendProperties
<1>3. l \in Nat
  BY LenProperties
<1> HIDE DEF t, l
<1>4. ASSUME NEW i \in 0..l PROVE EndOf(t, i) = EndOf(s, i)
  <2>1. i \in Nat /\ i <= Len(s) /\ i <= Len(t)
    BY <1>1, <1>3 DEF l
  <2>2. Agree(t, s, i)
    BY <1>2, <2>1, <1>3 DEF Agree
  <2> QED
    BY <1>1, <2>1, <2>2, EndSame
<1>5. l \in 0..Len(t) /\ l + 1 \in 0..Len(t) /\ l < l + 1 /\ l \in 0..l
  BY <1>1, <1>3
<1>6. EndOf(t, l) + 8 <= EndOf(t, l + 1)
  BY <1>1, <1>5, EndGrows
<1>7. EndOf(t, l) \in Nat /\ EndOf(t, l + 1) \in Nat
  BY <1>1, <1>5, EndStep
<1>8. EndOf(t, l) <= EndOf(t, l + 1)
  BY <1>6, <1>7
<1>9. EndOf(s, l) <= EndOf(t, l + 1)
  BY <1>4, <1>5, <1>8
<1> QED
  BY <1>1, <1>2, <1>4, <1>9 DEF t, l

(* The peer keeps to the limit that it proposed last, and the chain of the  *)
(* limits becomes one frame longer.                                         *)
LEMMA GovernsAppend ==
    ASSUME NEW s \in Seq(Sent), NEW f \in Sent, NEW d \in 0..Len(s), NEW m, NEW p,
           Governs(s, d, m, p), SizeOf(f) <= p
    PROVE  Governs(Append(s, f), d, m, Tuned(f, p))
<1> DEFINE t == Append(s, f)
           l == Len(s)
<1>1. t \in Seq(Sent) /\ Len(t) = l + 1 /\ t[l + 1] = f /\ \A i \in 1..l : t[i] = s[i]
  BY AppendKeeps
<1>2. l \in Nat /\ d \in 0..l
  BY LenProperties
<1>3. PICK L : Chain(s, L) /\ L[d] = m /\ L[l] = p
  BY DEF Governs
<1>4. /\ L \in [0..l -> Nat] /\ \A i \in 0..l : L[i] >= 8
      /\ \A i \in 1..l : SizeOf(s[i]) <= L[i - 1] /\ L[i] = Tuned(s[i], L[i - 1])
  BY <1>3 DEF Chain
<1>5. p \in Nat /\ p >= 8
  BY GovernsType
<1>6. Tuned(f, p) \in Nat /\ Tuned(f, p) >= 8
  BY <1>5, SentFacts DEF Tuned
<1> HIDE DEF t, l
<1> DEFINE q == Tuned(f, p)
           M == [i \in 0..(l + 1) |-> IF i <= l THEN L[i] ELSE q]
<1>7. q \in Nat /\ q >= 8
  BY <1>6
<1> HIDE DEF q
<1>8. M \in [0..(l + 1) -> Nat] /\ \A i \in 0..(l + 1) : M[i] >= 8
  BY <1>2, <1>4, <1>7
<1>9. (\A i \in 0..l : M[i] = L[i]) /\ M[l + 1] = q
  BY <1>2
<1> HIDE DEF M
<1>10. ASSUME NEW i \in 1..(l + 1)
       PROVE  SizeOf(t[i]) <= M[i - 1] /\ M[i] = Tuned(t[i], M[i - 1])
  <2>1. CASE i \in 1..l
    <3>1. i \in 0..l /\ i - 1 \in 0..l
      BY <1>2, <2>1
    <3>2. M[i] = L[i] /\ M[i - 1] = L[i - 1] /\ t[i] = s[i]
      BY <1>1, <1>9, <2>1, <3>1
    <3> QED
      BY <1>4, <2>1, <3>2
  <2>2. CASE i = l + 1
    <3>1. i - 1 = l /\ l \in 0..l
      BY <1>2, <2>2
    <3>2. M[i - 1] = p /\ M[i] = q /\ t[i] = f
      BY <1>1, <1>3, <1>9, <2>2, <3>1
    <3> QED
      BY <3>2 DEF q
  <2> QED
    BY <1>2, <2>1, <2>2
<1>11. Chain(t, M)
  BY <1>1, <1>8, <1>10 DEF Chain
<1>12. M[d] = m /\ M[Len(t)] = q
  BY <1>1, <1>2, <1>3, <1>9
<1>13. Governs(t, d, m, q)
  BY <1>11, <1>12 DEF Governs
<1> QED
  BY <1>13 DEF t, q

(* The first frames are gone.                                               *)
LEMMA GovernsShift ==
    ASSUME NEW s \in Seq(Sent), NEW d \in 0..Len(s), NEW m, NEW p, Governs(s, d, m, p)
    PROVE  Governs(Trailing(s, d), 0, m, p)
<1> DEFINE t == Trailing(s, d)
           l == Len(s)
           n == l - d
<1>1. t \in Seq(Sent) /\ Len(t) = n /\ \A i \in 1..n : t[i] = s[d + i]
  BY TrailingFacts
<1>2. l \in Nat /\ d \in Nat /\ n \in Nat /\ d + n = l
  BY LenProperties
<1>3. PICK L : Chain(s, L) /\ L[d] = m /\ L[l] = p
  BY DEF Governs
<1>4. /\ L \in [0..l -> Nat] /\ \A i \in 0..l : L[i] >= 8
      /\ \A i \in 1..l : SizeOf(s[i]) <= L[i - 1] /\ L[i] = Tuned(s[i], L[i - 1])
  BY <1>3 DEF Chain
<1> HIDE DEF t, l, n
<1> DEFINE M == [i \in 0..n |-> L[d + i]]
<1>5. \A i \in 0..n : d + i \in 0..l
  BY <1>2
<1>6. M \in [0..n -> Nat] /\ \A i \in 0..n : M[i] = L[d + i] /\ M[i] >= 8
  BY <1>4, <1>5
<1> HIDE DEF M
<1>7. ASSUME NEW i \in 1..n
      PROVE  SizeOf(t[i]) <= M[i - 1] /\ M[i] = Tuned(t[i], M[i - 1])
  <2>1. d + i \in 1..l /\ i \in 0..n /\ i - 1 \in 0..n /\ d + (i - 1) = (d + i) - 1
    BY <1>2
  <2>2. SizeOf(s[d + i]) <= L[(d + i) - 1] /\ L[d + i] = Tuned(s[d + i], L[(d + i) - 1])
    BY <1>4, <2>1
  <2>3. M[i] = L[d + i] /\ M[i - 1] = L[d + (i - 1)] /\ t[i] = s[d + i]
    BY <1>1, <1>6, <2>1
  <2> QED
    BY <2>1, <2>2, <2>3
<1>8. Chain(t, M)
  BY <1>1, <1>6, <1>7 DEF Chain
<1>9. 0 \in 0..n /\ n \in 0..n /\ d + 0 = d
  BY <1>2
<1>10. M[0] = m /\ M[Len(t)] = p
  BY <1>1, <1>2, <1>3, <1>6, <1>9
<1>11. Governs(t, 0, m, p)
  BY <1>8, <1>10 DEF Governs
<1> QED
  BY <1>11 DEF t

(* The place in the stream from there on.                                   *)
LEMMA PlacedShift ==
    ASSUME NEW s \in Seq(Sent), NEW d, NEW a \in Nat, Placed(s, d, a)
    PROVE  /\ Trailing(s, d) \in Seq(Sent) /\ Len(Trailing(s, d)) = Len(s) - d
           /\ a - EndOf(s, d) \in Nat
           /\ Placed(Trailing(s, d), 0, a - EndOf(s, d))
<1> DEFINE t == Trailing(s, d)
           l == Len(s)
           n == l - d
           e == EndOf(s, d)
<1>1. d \in 0..l /\ e <= a /\ a <= EndOf(s, l)
  BY DEF Placed
<1>2. t \in Seq(Sent) /\ Len(t) = n /\ \A i \in 1..n : t[i] = s[d + i]
  BY <1>1, TrailingFacts
<1>3. l \in Nat /\ d \in Nat /\ n \in Nat /\ d + n = l /\ l \in 0..l /\ n \in 0..n /\ 0 \in 0..n
  BY <1>1, LenProperties
<1>4. e \in Nat /\ EndOf(s, l) \in Nat
  BY <1>1, <1>3, EndStep
<1> HIDE DEF t, n
<1>a. Len(t) = Len(s) - d /\ \A i \in 1..Len(t) : t[i] = s[d + i]
  BY <1>2 DEF n
<1>5. \A i \in 0..Len(t) : EndOf(s, d + i) = EndOf(s, d) + EndOf(t, i)
  BY <1>1, <1>2, <1>a, EndShift
<1> HIDE DEF l, e
<1>6. EndOf(s, l) = e + EndOf(t, n)
  BY <1>2, <1>3, <1>5 DEF e
<1>7. EndOf(t, n) \in Nat /\ EndOf(t, 0) = 0
  BY <1>2, <1>3, EndStep
<1>8. a - e \in Nat /\ 0 <= a - e /\ a - e <= EndOf(t, n)
  BY <1>1, <1>4, <1>6, <1>7
<1>9. Placed(t, 0, a - e)
  BY <1>2, <1>3, <1>7, <1>8 DEF Placed
<1> QED
  BY <1>2, <1>8, <1>9 DEF t, l, n, e

-----------------------------------------------------------------------------
(* The inductive invariant.  At is the number of frames of the stream that  *)
(* the call of parse() under way has processed.                             *)
At == IF parsing THEN Len(delivered) ELSE 0
Asked(s, d, a, x) ==
    /\ a <= x
    /\ d > 0 => EndOf(s, d) = a
    /\ x = 7 \/ (Len(s) > 0 /\ x = SizeOf(s[1]))

Types ==
    /\ setup \in Setups /\ stream \in Seq(Sent) /\ taken \in Nat /\ expected \in Nat
    /\ maxFrame \in Nat /\ allocated \in Nat /\ peerMax \in Nat
    /\ processed \in Nat /\ delivered \in Seq(WireKinds)
Live ==
    /\ data = Upto(taken)
    /\ Placed(stream, At, taken)
    /\ parsing => processed = EndOf(stream, At)
    /\ \A i \in 1..At : delivered[i] = stream[i].kind
    /\ Governs(stream, At, maxFrame, peerMax)
    /\ ~ parsing => expected > taken
    /\ setup.tcp => Asked(stream, At, taken, expected)
    /\ setup.tcp /\ (\A i \in 1..At : stream[i].kind # "ConnectionTune") => allocated = maxFrame
Over ==
    /\ ~ parsing /\ failure = "unimplemented frame"
    /\ Len(stream) > 0 /\ Catalogue[stream[1].kind].process = "unimplemented"
WireInv == Types /\ (failure = "none" => Live) /\ (failure # "none" => Over)

(* The connection before the first byte.                                    *)
LEMMA InitWireInv == Init => WireInv
<1> SUFFICES ASSUME Init PROVE WireInv
  OBVIOUS
<1> USE DEF Init
<1>1. setup.initial \in Nat /\ setup.initial >= 20 /\ setup.tcp \in BOOLEAN
  BY WireAssumption
<1>2. <<>> \in Seq(Sent) /\ <<>> \in Seq(WireKinds) /\ Len(<<>>) = 0
  BY EmptySeq
<1>3. Types
  BY <1>1, <1>2 DEF Types
<1>4. At = 0
  BY DEF At
<1>5. data = Upto(taken)
  <2>1. Upto(0) \in Seq(Nat) /\ Len(Upto(0)) = 0
    BY UptoFacts
  <2>2. Upto(0) = <<>>
    BY <2>1, EmptySeq
  <2> QED
    BY <2>2
<1>6. Placed(stream, At, taken)
  <2>1. EndOf(<<>>, 0) = 0
    BY <1>2, EndStep
  <2>2. 0 \in 0..0 /\ 0 <= 0
    OBVIOUS
  <2>3. Placed(<<>>, 0, 0)
    BY <1>2, <2>1, <2>2 DEF Placed
  <2> QED
    BY <1>4, <2>3
<1>7. Governs(stream, At, maxFrame, peerMax)
  <2> DEFINE L == [i \in 0..0 |-> setup.initial]
  <2>1. Chain(stream, L) /\ L[0] = setup.initial
    BY <1>1, <1>2 DEF Chain
  <2> QED
    BY <1>2, <1>4, <2>1 DEF Governs
<1>8. Asked(stream, At, taken, expected)
  BY <1>4 DEF Asked
<1>9. Live
  BY <1>4, <1>5, <1>6, <1>7, <1>8 DEF Live
<1> QED
  BY <1>3, <1>9 DEF WireInv

(* What the invariant says of the constants of a setup.                     *)
LEMMA SetupFacts ==
    ASSUME Types
    PROVE  /\ setup.tcp \in BOOLEAN /\ Len(stream) \in Nat /\ Len(delivered) \in Nat
           /\ EndOf(stream, 0) = 0
           /\ \A i \in 0..Len(stream) : EndOf(stream, i) \in Nat
           /\ \A i \in 1..Len(stream) : stream[i] \in Sent
<1>1. setup.tcp \in BOOLEAN
  BY WireAssumption DEF Types
<1>2. stream \in Seq(Sent) /\ delivered \in Seq(WireKinds)
  BY DEF Types
<1>3. Len(stream) \in Nat /\ Len(delivered) \in Nat
  BY <1>2, LenProperties
<1>4. \A i \in 1..Len(stream) : stream[i] \in Sent
  BY <1>2, ElementOfSeq
<1>5. EndOf(stream, 0) = 0 /\ \A i \in 0..Len(stream) : EndOf(stream, i) \in Nat
  BY <1>2, EndStep
<1> QED
  BY <1>1, <1>3, <1>4, <1>5

(* The peer sends a frame: the bytes that were read and the frames that     *)
(* were processed are where they were.                                      *)
LEMMA InvSend ==
    ASSUME WireInv, NEW f \in FrameForms, Send(f)
    PROVE  WireInv'
<1>1. Types
  BY DEF WireInv
<1>2. f \in Sent /\ stream \in Seq(Sent) /\ Len(stream) \in Nat
  BY <1>1, FormsAreSent, SetupFacts DEF Types
<1>3. /\ stream' = Append(stream, f) /\ SizeOf(f) <= peerMax
      /\ peerMax' = Tuned(f, peerMax)
      /\ UNCHANGED <<setup, taken, data, expected, maxFrame, allocated, parsing, processed, delivered,
                     failure>>
  BY DEF Send, Tuned
<1> DEFINE t == Append(stream, f)
           l == Len(stream)
<1>4. /\ t \in Seq(Sent) /\ Len(t) = l + 1 /\ \A i \in 1..l : t[i] = stream[i]
      /\ \A i \in 0..l : EndOf(t, i) = EndOf(stream, i)
      /\ EndOf(stream, l) <= EndOf(t, l + 1)
  BY <1>2, AppendKeeps
<1>5. At' = At
  BY <1>3 DEF At
<1>6. f.max \in Nat
  BY <1>2, SentFacts
<1>7. Types'
  BY <1>1, <1>3, <1>4, <1>6 DEF Types, Tuned
<1>8. ASSUME failure = "none" PROVE Live'
  <2>1. Live
    BY <1>8 DEF WireInv
  <2>2. Placed(stream, At, taken)
    BY <2>1 DEF Live
  <2>3. At \in 0..l /\ EndOf(stream, At) <= taken /\ taken <= EndOf(stream, l)
    BY <2>2 DEF Placed
  <2>4. EndOf(t, At) = EndOf(stream, At)
    BY <1>4, <2>3
  <2>5. Placed(t, At, taken)
    <3>1. At \in 0..Len(t)
      BY <1>2, <1>4, <2>3
    <3>2. EndOf(stream, l) \in Nat /\ EndOf(t, l + 1) \in Nat /\ taken \in Nat
      <4>1. l \in 0..l /\ l + 1 \in 0..Len(t)
        BY <1>2, <1>4
      <4> QED
        BY <1>1, <1>2, <1>4, <4>1, EndStep DEF Types
    <3>3. taken <= EndOf(t, l + 1)
      BY <1>4, <2>3, <3>2
    <3> QED
      BY <1>4, <2>3, <2>4, <3>1, <3>3 DEF Placed
  <2>6. Governs(t, At, maxFrame, Tuned(f, peerMax))
    BY <1>2, <1>3, <2>1, <2>3, GovernsAppend DEF Live
  <2>7. \A i \in 1..At : i \in 1..l /\ t[i] = stream[i]
    BY <1>2, <1>4, <2>3
  <2>8. setup.tcp => Asked(t, At, taken, expected)
    <3> SUFFICES ASSUME setup.tcp PROVE Asked(t, At, taken, expected)
      OBVIOUS
    <3>1. Asked(stream, At, taken, expected)
      BY <2>1 DEF Live
    <3>2. l > 0 => t[1] = stream[1]
      BY <1>2, <1>4
    <3>3. l > 0 => Len(t) > 0
      BY <1>2, <1>4
    <3> QED
      BY <2>4, <3>1, <3>2, <3>3 DEF Asked
  <2>9. data' = Upto(taken')
    BY <1>3, <2>1 DEF Live
  <2>10. Placed(stream', At', taken')
    BY <1>3, <1>5, <2>5
  <2>11. parsing' => processed' = EndOf(stream', At')
    BY <1>3, <1>5, <2>1, <2>4 DEF Live
  <2>12. \A i \in 1..At' : delivered'[i] = stream'[i].kind
    BY <1>3, <1>5, <2>1, <2>7 DEF Live
  <2>13. Governs(stream', At', maxFrame', peerMax')
    BY <1>3, <1>5, <2>6
  <2>14. ~ parsing' => expected' > taken'
    BY <1>3, <2>1 DEF Live
  <2>15. setup'.tcp => Asked(stream', At', taken', expected')
    BY <1>3, <1>5, <2>8
  <2>16. setup'.tcp /\ (\A i \in 1..At' : stream'[i].kind # "ConnectionTune") => allocated' = maxFrame'
    BY <1>3, <1>5, <2>1, <2>7 DEF Live
  <2> QED
    BY <2>9, <2>10, <2>11, <2>12, <2>13, <2>14, <2>15, <2>16 DEF Live
<1>9. ASSUME failure # "none" PROVE Over'
  <2>1. Over
    BY <1>9 DEF WireInv
  <2> HIDE DEF t
  <2>a. Len(stream) > 0
    BY <2>1, Zenon DEF Over
  <2>2. l > 0 /\ 1 \in 1..l
    BY <1>2, <2>a
  <2>3. t[1] = stream[1] /\ Len(t) > 0
    BY <1>2, <1>4, <2>2
  <2> QED
    BY <1>3, <2>1, <2>3 DEF Over, t
<1> QED
  BY <1>3, <1>7, <1>8, <1>9 DEF WireInv

(* A part of the stream arrives behind what the buffer holds.               *)
LEMMA InvReceive ==
    ASSUME WireInv, Receive
    PROVE  WireInv'
<1>1. Types /\ Live /\ failure = "none" /\ ~ parsing /\ taken < StreamLength
  BY DEF WireInv, Receive
<1>2. PICK n \in receivefrom :
          /\ data' = data \o [k \in 1..n |-> taken + k]
          /\ taken' = taken + n
          /\ parsing' = (n > 0)
          /\ failure' = IF n = 0 THEN "connection lost" ELSE failure
  BY DEF Receive
<1>3. /\ processed' = 0 /\ delivered' = <<>>
      /\ UNCHANGED <<setup, stream, expected, maxFrame, allocated, peerMax>>
  BY DEF Receive
<1> DEFINE top == StreamLength
<1>4. At = 0 /\ data = Upto(taken) /\ expected > taken
  BY <1>1 DEF Live, At
<1>5. top \in Nat /\ top = EndOf(stream, Len(stream)) /\ taken \in Nat /\ expected \in Nat
  <2>1. Len(stream) \in 0..Len(stream)
    BY <1>1, SetupFacts
  <2> QED
    BY <1>1, <2>1, SetupFacts DEF StreamLength, Types
<1>6. Len(data) = taken
  BY <1>4, <1>5, UptoFacts
<1> HIDE DEF top
<1>7. n \in Nat /\ n > 0 /\ taken + n <= top /\ (setup.tcp => taken + n <= expected)
  <2> DEFINE available == top - taken
             room == IF setup.tcp THEN expected - Len(data) ELSE available
  <2>1. n \in 0..available /\ n <= room /\ (n = 0 => room = 0)
    BY DEF receivefrom, top
  <2>2. available \in Nat /\ available > 0
    BY <1>1, <1>5 DEF top
  <2>3. setup.tcp \in BOOLEAN
    BY <1>1, SetupFacts
  <2>4. CASE setup.tcp
    <3>1. room = expected - taken
      BY <1>6, <2>4
    <3> HIDE DEF room, available
    <3> QED
      BY <1>4, <1>5, <2>1, <2>2, <2>4, <3>1 DEF available
  <2>5. CASE ~ setup.tcp
    <3>1. room = available
      BY <2>5
    <3> HIDE DEF room
    <3> QED
      BY <1>5, <2>1, <2>2, <2>5, <3>1
  <2> QED
    BY <2>3, <2>4, <2>5
<1>8. data' = Upto(taken') /\ taken' \in Nat
  <2>1. data' = Upto(taken) \o From(taken, n)
    BY <1>2, <1>4 DEF From
  <2>2. Upto(taken) \o From(taken, n) = Upto(taken + n)
    BY <1>5, <1>7, UptoConcat
  <2>3. taken + n \in Nat
    BY <1>5, <1>7
  <2> QED
    BY <1>2, <2>1, <2>2, <2>3
<1>9. parsing' /\ failure' = "none"
  <2>1. n > 0 /\ n # 0
    BY <1>7
  <2>2. parsing' <=> n > 0
    BY <1>2
  <2> QED
    BY <1>1, <1>2, <2>1, <2>2
<1>10. delivered' \in Seq(WireKinds) /\ Len(delivered') = 0
  BY <1>3, EmptySeq
<1>11. At' = 0
  BY <1>9, <1>10 DEF At
<1>12. Types'
  BY <1>1, <1>3, <1>8, <1>9, <1>10 DEF Types
<1>13. Placed(stream, 0, taken + n)
  <2>1. 0 \in 0..Len(stream) /\ EndOf(stream, 0) = 0
    BY <1>1, SetupFacts
  <2> QED
    BY <1>5, <1>7, <2>1 DEF Placed
<1>14. setup.tcp => Asked(stream, 0, taken + n, expected)
  BY <1>1, <1>4, <1>7 DEF Live, Asked
<1>15. Governs(stream, 0, maxFrame, peerMax)
  BY <1>1, <1>4 DEF Live
<1>16. Live'
  <2>1. Placed(stream', At', taken')
    BY <1>2, <1>3, <1>11, <1>13
  <2>2. parsing' => processed' = EndOf(stream', At')
    BY <1>1, <1>3, <1>11, SetupFacts
  <2>3. Governs(stream', At', maxFrame', peerMax')
    BY <1>3, <1>11, <1>15
  <2>4. setup'.tcp => Asked(stream', At', taken', expected')
    BY <1>2, <1>3, <1>11, <1>14
  <2>5. setup'.tcp => allocated' = maxFrame'
    BY <1>1, <1>3, <1>4 DEF Live
  <2>6. \A i \in 1..At' : delivered'[i] = stream'[i].kind
    BY <1>11
  <2> QED
    BY <1>8, <1>9, <2>1, <2>2, <2>3, <2>4, <2>5, <2>6 DEF Live
<1> QED
  BY <1>9, <1>12, <1>16 DEF WireInv

-----------------------------------------------------------------------------
(* What ReceivedFrame finds at the start of a frame.                        *)
LEMMA LookAt ==
    ASSUME Types, NEW d \in 0..Len(stream), d < Len(stream), NEW n \in Nat, NEW b,
           b = From(EndOf(stream, d), n), Governs(stream, d, maxFrame, peerMax)
    PROVE  /\ n < 7 => ReceivedFrame(b) = Partial(7)
           /\ n >= 7 /\ n < SizeOf(stream[d + 1]) =>
                 ReceivedFrame(b) = Partial(SizeOf(stream[d + 1]))
           /\ n >= SizeOf(stream[d + 1]) => ReceivedFrame(b) = Found(d + 1)
<1> DEFINE e == EndOf(stream, d)
           f == stream[d + 1]
           size == SizeOf(f)
           l == Len(stream)
<1>1. stream \in Seq(Sent) /\ l \in Nat /\ d \in Nat /\ d + 1 \in 1..l /\ d \in 0..l /\ d < l
  BY SetupFacts DEF Types
<1>2. f \in Sent /\ e \in Nat
  BY <1>1, SetupFacts
<1>3. /\ f.announced \in Nat /\ size = f.announced + 8 /\ totalSize(f) = size /\ size \in Nat
      /\ size >= 8
  BY <1>2, SentFacts
<1>4. EndOf(stream, d + 1) = e + size
  <2>1. (d + 1) - 1 = d
    BY <1>1
  <2>2. EndOf(stream, d + 1) = EndOf(stream, (d + 1) - 1) + SizeOf(stream[d + 1])
    BY <1>1, EndStep
  <2> QED
    BY <2>1, <2>2
<1>5. Len(b) = n /\ \A k \in 1..n : b[k] = e + k
  BY <1>2, FromFacts
<1>6. maxFrame \in Nat /\ maxFrame >= 8 /\ size <= maxFrame
  BY <1>1, GovernsType, GovernsNext
<1> HIDE DEF e, f, size, l
<1>7. ~ exceeded(f)
  BY <1>3, <1>6 DEF exceeded
<1>8. n < 7 => ReceivedFrame(b) = Partial(7)
  <2> SUFFICES ASSUME n < 7 PROVE ReceivedFrame(b) = Partial(7)
    OBVIOUS
  <2>1. ~ header(b)
    BY <1>5 DEF header, headerSize
  <2> QED
    BY <2>1, Zenon DEF ReceivedFrame
<1>9. ASSUME n >= 7
      PROVE  ReceivedFrame(b) =
                IF ~ complete(b, f) THEN Partial(size)
                ELSE IF b[f.announced + 8] = EndOf(stream, d + 1) THEN Found(d + 1)
                ELSE Wrong("invalid end of frame marker")
  <2>1. header(b)
    BY <1>5, <1>9 DEF header, headerSize
  <2>2. DOMAIN stream = 1..l
    BY <1>1, LenProperties DEF l
  <2>3. d + 1 \in FramesAt(b)
    <3>1. (d + 1) - 1 = d
      BY <1>1
    <3>2. \A k \in 1..7 : b[k] = e + k
      BY <1>5, <1>9
    <3> QED
      BY <1>1, <2>2, <3>1, <3>2 DEF FramesAt, headerSize, e
  <2>4. ASSUME NEW i \in FramesAt(b) PROVE i = d + 1
    <3>1. i \in 1..l /\ b[1] = EndOf(stream, i - 1) + 1
      BY <2>2 DEF FramesAt, headerSize
    <3>2. b[1] = e + 1
      BY <1>5, <1>9
    <3>3. i - 1 \in 0..l /\ i - 1 \in Nat
      BY <1>1, <3>1
    <3>4. EndOf(stream, i - 1) \in Nat
      BY <3>3, SetupFacts DEF l
    <3>5. EndOf(stream, i - 1) = e
      BY <1>2, <3>1, <3>2, <3>4
    <3>6. CASE i - 1 < d
      <4>1. EndOf(stream, i - 1) + 8 <= EndOf(stream, d)
        BY <1>1, <3>3, <3>6, EndGrows DEF l
      <4> QED
        BY <1>2, <3>5, <4>1 DEF e
    <3>7. CASE d < i - 1
      <4>1. EndOf(stream, d) + 8 <= EndOf(stream, i - 1)
        BY <1>1, <3>3, <3>7, EndGrows DEF l
      <4> QED
        BY <1>2, <3>5, <4>1 DEF e
    <3> QED
      BY <1>1, <3>1, <3>3, <3>6, <3>7
  <2>5. FramesAt(b) = {d + 1}
    BY <2>3, <2>4
  <2>6. (CHOOSE i \in FramesAt(b) : TRUE) = d + 1 /\ FramesAt(b) # {}
    BY <2>5
  <2> HIDE DEF Found, Wrong, Partial
  <2>7. ReceivedFrame(b) =
           CASE exceeded(f) -> Wrong("frame size exceeded")
             [] ~ exceeded(f) /\ ~ complete(b, f) -> Partial(totalSize(f))
             [] OTHER -> IF b[f.announced + 8] = EndOf(stream, d + 1) THEN Found(d + 1)
                         ELSE Wrong("invalid end of frame marker")
    BY <2>1, <2>6 DEF ReceivedFrame, f
  <2> QED
    BY <1>3, <1>7, <2>7
<1>10. complete(b, f) <=> n >= size
  BY <1>3, <1>5 DEF complete
<1>11. ASSUME n >= 7, n < size PROVE ReceivedFrame(b) = Partial(size)
  <2>1. ~ complete(b, f)
    BY <1>3, <1>10, <1>11
  <2> QED
    BY <1>9, <1>11, <2>1, Zenon
<1>12. ASSUME n >= size PROVE ReceivedFrame(b) = Found(d + 1)
  <2>1. n >= 7 /\ f.announced + 8 \in 1..n
    BY <1>3, <1>12
  <2>2. b[f.announced + 8] = EndOf(stream, d + 1)
    BY <1>3, <1>4, <1>5, <2>1
  <2> QED
    BY <1>9, <1>10, <1>12, <2>1, <2>2
<1> QED
  BY <1>8, <1>11, <1>12 DEF size, f

(* What parse() finds while there are bytes left.                           *)
LEMMA Look ==
    ASSUME Types, Live, parsing, processed < Len(data)
    PROVE  /\ At \in Nat /\ At + 1 \in 1..Len(stream) /\ stream[At + 1] \in Sent
           /\ processed = EndOf(stream, At) /\ processed < taken
           /\ \/ taken - processed < 7 /\ ReceivedFrame(Unprocessed) = Partial(7)
              \/ /\ taken - processed < SizeOf(stream[At + 1])
                 /\ ReceivedFrame(Unprocessed) = Partial(SizeOf(stream[At + 1]))
              \/ /\ taken - processed >= SizeOf(stream[At + 1])
                 /\ ReceivedFrame(Unprocessed) = Found(At + 1)
<1> DEFINE d == At
           e == EndOf(stream, d)
           l == Len(stream)
           n == taken - e
           b == Unprocessed
<1>1. /\ data = Upto(taken) /\ processed = e /\ d \in 0..l /\ e <= taken /\ taken <= EndOf(stream, l)
      /\ Governs(stream, d, maxFrame, peerMax)
  BY DEF Live, Placed
<1>2. taken \in Nat /\ e \in Nat /\ l \in Nat
  BY <1>1, SetupFacts DEF Types
<1>3. Len(data) = taken
  BY <1>1, <1>2, UptoFacts
<1>4. e < taken /\ n \in Nat /\ e \in 0..taken
  BY <1>1, <1>2, <1>3
<1>5. d # l
  BY <1>1, <1>4, <1>2
<1>6. d < l /\ d \in Nat /\ d + 1 \in 1..l
  BY <1>1, <1>2, <1>5
<1>7. b = From(e, n)
  <2>1. b = Trailing(data, e)
    BY <1>1 DEF Unprocessed, Trailing
  <2>2. Trailing(Upto(taken), e) = From(e, taken - e)
    BY <1>2, <1>4, UptoTrailing
  <2> QED
    BY <1>1, <2>1, <2>2
<1>8. stream[d + 1] \in Sent
  BY <1>6, SetupFacts
<1> HIDE DEF b, d
<1>9. /\ n < 7 => ReceivedFrame(b) = Partial(7)
      /\ n >= 7 /\ n < SizeOf(stream[d + 1]) => ReceivedFrame(b) = Partial(SizeOf(stream[d + 1]))
      /\ n >= SizeOf(stream[d + 1]) => ReceivedFrame(b) = Found(d + 1)
  BY <1>1, <1>4, <1>6, <1>7, LookAt
<1>10. SizeOf(stream[d + 1]) \in Nat
  BY <1>8, SentFacts
<1> DEFINE z == SizeOf(stream[d + 1])
<1> HIDE DEF n, z
<1>11. n < 7 \/ (n >= 7 /\ n < z) \/ n >= z
  BY <1>4, <1>10 DEF z
<1>12. \/ n < 7 /\ ReceivedFrame(b) = Partial(7)
       \/ n < z /\ ReceivedFrame(b) = Partial(z)
       \/ n >= z /\ ReceivedFrame(b) = Found(d + 1)
  BY <1>9, <1>11 DEF z
<1> QED
  BY <1>1, <1>4, <1>6, <1>8, <1>12 DEF n, z, b, d

(* parse() processes a frame: it stands at the end of the next one, under   *)
(* the limit that this frame may have changed.                              *)
LEMMA InvProcess ==
    ASSUME WireInv, ProcessFrame
    PROVE  WireInv'
<1> DEFINE d == At
           f == stream[d + 1]
           r == ReceivedFrame(Unprocessed)
<1>1. parsing /\ processed < Len(data)
  BY DEF ProcessFrame
<1>2. Types /\ Live /\ failure = "none"
  BY <1>1 DEF WireInv, Over
<1>3. /\ r.index > 0 /\ Recognized(stream[r.index]).wrong = "none"
      /\ processed' = processed + totalSize(stream[r.index])
      /\ delivered' = Append(delivered, Recognized(stream[r.index]).kind)
      /\ maxFrame' = IF Recognized(stream[r.index]).kind = "ConnectionTune"
                     THEN stream[r.index].max ELSE maxFrame
      /\ UNCHANGED <<setup, stream, taken, data, expected, allocated, peerMax, parsing, failure>>
  BY DEF ProcessFrame
<1>4. /\ d \in Nat /\ d + 1 \in 1..Len(stream) /\ f \in Sent
      /\ processed = EndOf(stream, d) /\ processed < taken
      /\ \/ taken - processed < 7 /\ r = Partial(7)
         \/ taken - processed < SizeOf(f) /\ r = Partial(SizeOf(f))
         \/ taken - processed >= SizeOf(f) /\ r = Found(d + 1)
  BY <1>1, <1>2, Look
<1>a. d = Len(delivered)
  BY <1>1 DEF At
<1> HIDE DEF d, r
<1>5. taken - processed >= SizeOf(f) /\ r.index = d + 1
  <2>1. \A x : Partial(x).index = 0
    BY Outcomes
  <2>2. r # Partial(7) /\ r # Partial(SizeOf(f))
    BY <1>3, <2>1
  <2> QED
    BY <1>4, <2>2, Outcomes
<1>6. Recognized(f).wrong = "none" /\ Recognized(f).kind = f.kind
  <2>1. Recognized(f).wrong = "none"
    BY <1>3, <1>5
  <2>2. Recognized(f).wrong # "unimplemented frame"
    BY <2>1
  <2> QED
    BY <1>4, <2>2, RecognizedFacts
<1>7. /\ f.kind \in WireKinds /\ f.max \in Nat /\ totalSize(f) = SizeOf(f) /\ SizeOf(f) \in Nat
      /\ SizeOf(f) >= 8
  BY <1>4, SentFacts
<1>8. /\ processed' = EndOf(stream, d) + SizeOf(f) /\ delivered' = Append(delivered, f.kind)
      /\ maxFrame' = Tuned(f, maxFrame)
  BY <1>3, <1>4, <1>5, <1>6, <1>7 DEF Tuned
<1>9. stream \in Seq(Sent) /\ delivered \in Seq(WireKinds) /\ taken \in Nat /\ expected \in Nat
      /\ maxFrame \in Nat /\ setup.tcp \in BOOLEAN /\ Len(stream) \in Nat
  BY <1>2, SetupFacts DEF Types
<1>10. EndOf(stream, d + 1) = EndOf(stream, d) + SizeOf(f) /\ EndOf(stream, d) \in Nat
  <2>1. (d + 1) - 1 = d /\ d \in 0..Len(stream)
    BY <1>4, <1>9
  <2>2. EndOf(stream, d + 1) = EndOf(stream, (d + 1) - 1) + SizeOf(stream[d + 1])
    BY <1>4, <1>9, EndStep
  <2> QED
    BY <1>2, <2>1, <2>2, SetupFacts
<1>11. delivered' \in Seq(WireKinds) /\ Len(delivered') = d + 1 /\ delivered'[d + 1] = f.kind
  BY <1>7, <1>8, <1>9, <1>a, AppendProperties
<1>12. \A i \in 1..d : delivered'[i] = delivered[i]
  BY <1>7, <1>8, <1>9, <1>a, AppendProperties
<1>13. At' = d + 1
  BY <1>1, <1>3, <1>11 DEF At
<1>14. Types'
  <2>1. processed' \in Nat /\ maxFrame' \in Nat
    BY <1>7, <1>8, <1>9, <1>10 DEF Tuned
  <2> QED
    BY <1>2, <1>3, <1>11, <2>1 DEF Types
<1>15. Live'
  <2> DEFINE e == EndOf(stream, d)
             z == SizeOf(f)
             c == d + 1
  <2>1. e + z <= taken /\ EndOf(stream, c) = e + z
    BY <1>4, <1>5, <1>7, <1>9, <1>10
  <2>2. data' = Upto(taken')
    BY <1>2, <1>3 DEF Live
  <2>3. Placed(stream, c, taken)
    <3>1. c \in 0..Len(stream) /\ taken <= EndOf(stream, Len(stream))
      BY <1>2, <1>4, <1>9 DEF Live, Placed
    <3> QED
      BY <2>1, <3>1 DEF Placed
  <2>4. processed' = EndOf(stream, c)
    BY <1>8, <2>1
  <2>5. \A i \in 1..c : delivered'[i] = stream[i].kind
    <3>1. \A i \in 1..d : delivered[i] = stream[i].kind
      BY <1>2 DEF Live, d
    <3>2. \A i \in 1..c : i \in 1..d \/ i = c
      BY <1>4
    <3> QED
      BY <1>11, <1>12, <3>1, <3>2
  <2>6. Governs(stream, c, Tuned(f, maxFrame), peerMax)
    <3>1. Governs(stream, d, maxFrame, peerMax)
      BY <1>2 DEF Live, d
    <3>2. d \in 0..Len(stream) /\ d < Len(stream)
      BY <1>4, <1>9
    <3> QED
      BY <1>9, <3>1, <3>2, GovernsNext
  <2>7. setup.tcp => Asked(stream, c, taken, expected)
    <3> SUFFICES ASSUME setup.tcp PROVE Asked(stream, c, taken, expected)
      OBVIOUS
    <3>1. Asked(stream, d, taken, expected)
      BY <1>2 DEF Live, d
    <3>2. taken <= expected /\ (d > 0 => e = taken)
          /\ (expected = 7 \/ (Len(stream) > 0 /\ expected = SizeOf(stream[1])))
      BY <3>1 DEF Asked
    <3>a. e # taken
      BY <1>4, <1>9, <1>10
    <3>3. d = 0
      BY <1>4, <3>2, <3>a
    <3>4. EndOf(stream, d) = 0 /\ stream[1] = f
      BY <1>2, <3>3, SetupFacts
    <3> HIDE DEF e, z, f
    <3>5. e = 0 /\ SizeOf(stream[1]) = z
      BY <3>4 DEF e, z
    <3>6. expected # 7
      BY <1>7, <1>9, <2>1, <3>2, <3>5 DEF z
    <3>7. EndOf(stream, c) = taken
      BY <1>7, <1>9, <2>1, <3>2, <3>5, <3>6 DEF z
    <3> QED
      BY <3>2, <3>7 DEF Asked
  <2>8. ASSUME setup.tcp, \A i \in 1..c : stream[i].kind # "ConnectionTune"
        PROVE  allocated = maxFrame'
    <3>1. f.kind # "ConnectionTune"
      BY <1>4, <2>8
    <3>2. \A i \in 1..d : stream[i].kind # "ConnectionTune"
      BY <1>4, <2>8
    <3>3. allocated = maxFrame
      BY <1>2, <2>8, <3>2 DEF Live, d
    <3> QED
      BY <1>8, <3>1, <3>3 DEF Tuned
  <2> HIDE DEF c, f
  <2>9. Placed(stream', At', taken')
    BY <1>3, <1>13, <2>3 DEF c
  <2>10. parsing' => processed' = EndOf(stream', At')
    BY <1>3, <1>13, <2>4 DEF c
  <2>11. \A i \in 1..At' : delivered'[i] = stream'[i].kind
    BY <1>3, <1>13, <2>5 DEF c
  <2>12. Governs(stream', At', maxFrame', peerMax')
    BY <1>3, <1>8, <1>13, <2>6 DEF c
  <2>13. setup'.tcp => Asked(stream', At', taken', expected')
    BY <1>3, <1>13, <2>7 DEF c
  <2>14. setup'.tcp /\ (\A i \in 1..At' : stream'[i].kind # "ConnectionTune") => allocated' = maxFrame'
    BY <1>3, <1>13, <2>8 DEF c
  <2>15. parsing'
    BY <1>1, <1>3
  <2> QED
    BY <2>2, <2>9, <2>10, <2>11, <2>12, <2>13, <2>14, <2>15 DEF Live
<1>16. failure' = "none"
  BY <1>2, <1>3
<1> QED
  BY <1>14, <1>15, <1>16 DEF WireInv

(* The bytes that are left in the buffer.                                   *)
LEMMA ShrinkFacts ==
    ASSUME Types, Live, parsing
    PROVE  /\ DOMAIN shrink = 1..(taken - EndOf(stream, At))
           /\ \A k \in 1..(taken - EndOf(stream, At)) : shrink[k] = EndOf(stream, At) + k
<1> DEFINE d == At
           e == EndOf(stream, d)
           n == taken - e
<1>1. /\ data = Upto(taken) /\ processed = e /\ d \in 0..Len(stream) /\ e <= taken
      /\ (setup.tcp => Asked(stream, d, taken, expected))
  BY DEF Live, Placed
<1>2. taken \in Nat /\ e \in Nat /\ Len(stream) \in Nat /\ setup.tcp \in BOOLEAN /\ EndOf(stream, 0) = 0
  BY <1>1, SetupFacts DEF Types
<1>3. data \in Seq(Nat) /\ Len(data) = taken /\ \A k \in 1..taken : data[k] = k
  BY <1>1, <1>2, UptoFacts
<1> HIDE DEF d
<1>4. CASE ~ setup.tcp
  <2>1. shrink = Trailing(data, e)
    BY <1>1, <1>4 DEF shrink, Trailing
  <2>2. n \in Nat /\ e \in 0..taken
    BY <1>1, <1>2
  <2>3. shrink = From(e, n)
    BY <1>1, <1>2, <2>1, <2>2, UptoTrailing
  <2>4. shrink \in Seq(Nat) /\ Len(shrink) = n /\ \A k \in 1..n : shrink[k] = e + k
    BY <1>2, <2>2, <2>3, FromFacts
  <2>5. DOMAIN shrink = 1..n
    BY <2>4, LenProperties
  <2> QED
    BY <2>4, <2>5 DEF d
<1>5. CASE setup.tcp /\ d = 0
  <2>1. e = 0 /\ n = taken
    BY <1>2, <1>5
  <2>2. Len(data) - processed = Len(data)
    BY <1>1, <1>2, <1>3, <2>1
  <2>3. shrink = data
    BY <1>3, <1>5, <2>2, SubSeqFull DEF shrink
  <2>4. DOMAIN shrink = 1..n
    BY <1>3, <2>1, <2>3, LenProperties
  <2>5. \A k \in 1..n : shrink[k] = e + k
    BY <1>2, <1>3, <2>1, <2>3
  <2> QED
    BY <2>4, <2>5 DEF d
<1>6. CASE setup.tcp /\ d # 0
  <2>1. e = taken /\ n = 0
    BY <1>1, <1>2, <1>6 DEF Asked
  <2>2. Len(data) - processed = 0
    BY <1>1, <1>2, <1>3, <2>1
  <2>3. shrink = SubSeq(data, 1, 0)
    BY <1>6, <2>2 DEF shrink
  <2>4. shrink = <<>>
    BY <2>3, SubSeqEmpty
  <2>5. DOMAIN shrink = {} /\ 1..n = {}
    BY <2>1, <2>4
  <2> QED
    BY <2>5 DEF d
<1> QED
  BY <1>2, <1>4, <1>5, <1>6

(* parse() returns: everything is counted anew.                             *)
LEMMA ReturnFacts ==
    ASSUME Types, Live, parsing, Return
    PROVE  /\ stream' = Trailing(stream, At) /\ stream' \in Seq(Sent)
           /\ Len(stream') = Len(stream) - At
           /\ \A i \in 1..Len(stream') : stream'[i] = stream[At + i]
           /\ taken' = taken - EndOf(stream, At) /\ taken' \in Nat
           /\ data' = Upto(taken') /\ At' = 0 /\ ~ parsing'
           /\ Placed(stream', 0, taken') /\ Governs(stream', 0, maxFrame', peerMax')
           /\ setup' = setup /\ maxFrame' = maxFrame /\ peerMax' = peerMax
           /\ processed' = processed /\ delivered' = delivered
           /\ allocated' \in Nat /\ (setup.tcp => allocated' = maxFrame)
<1> DEFINE d == At
           e == EndOf(stream, d)
           t == Trailing(stream, d)
<1>1. /\ ~ parsing' /\ stream' = SubSeq(stream, Len(delivered) + 1, Len(stream))
      /\ taken' = taken - EndOf(stream, Len(delivered))
      /\ data' = [k \in DOMAIN shrink |-> shrink[k] - EndOf(stream, Len(delivered))]
      /\ allocated' = reallocate
      /\ UNCHANGED <<setup, processed, delivered, maxFrame, peerMax>>
  BY DEF Return
<1>2. d = Len(delivered)
  BY DEF At
<1>3. stream' = t /\ taken' = taken - e /\ At' = 0
  BY <1>1, <1>2 DEF Trailing, At
<1>4. Placed(stream, d, taken) /\ Governs(stream, d, maxFrame, peerMax) /\ stream \in Seq(Sent)
      /\ taken \in Nat /\ maxFrame \in Nat /\ allocated \in Nat /\ delivered \in Seq(WireKinds)
  BY DEF Live, Types
<1>5. d \in 0..Len(stream) /\ e <= taken
  BY <1>4 DEF Placed
<1>6. t \in Seq(Sent) /\ Len(t) = Len(stream) - d /\ taken - e \in Nat /\ Placed(t, 0, taken - e)
  BY <1>4, PlacedShift
<1>7. \A i \in 1..Len(t) : t[i] = stream[d + i]
  BY <1>4, <1>5, <1>6, TrailingFacts
<1>8. Governs(t, 0, maxFrame, peerMax)
  BY <1>4, <1>5, GovernsShift
<1>9. data' = Upto(taken')
  <2> DEFINE n == taken - e
  <2>1. DOMAIN shrink = 1..n /\ \A k \in 1..n : shrink[k] = e + k
    BY ShrinkFacts
  <2>2. data' = [k \in DOMAIN shrink |-> shrink[k] - e]
    BY <1>1, <1>2
  <2>3. e \in Nat /\ n \in Nat
    BY <1>5, <1>6, SetupFacts
  <2> HIDE DEF e, n
  <2>4. \A k \in 1..n : shrink[k] - e = k
    BY <2>1, <2>3
  <2>5. data' = Upto(n)
    BY <2>1, <2>2, <2>4 DEF Upto
  <2> QED
    BY <1>3, <2>5 DEF n
<1>10. maxFrame >= 8
  BY <1>4, <1>5, GovernsType
<1>11. allocated' \in Nat
  BY <1>1, <1>4 DEF reallocate
<1>12. ASSUME setup.tcp PROVE allocated' = maxFrame
  <2>1. DOMAIN delivered = 1..d
    BY <1>2, <1>4, LenProperties
  <2>2. \A i \in 1..d : delivered[i] = stream[i].kind
    BY DEF Live
  <2>3. CASE \E i \in DOMAIN delivered : delivered[i] = "ConnectionTune"
    BY <1>1, <1>4, <1>10, <1>12, <2>3 DEF reallocate
  <2>4. CASE ~ \E i \in DOMAIN delivered : delivered[i] = "ConnectionTune"
    <3>1. allocated' = allocated
      BY <1>1, <2>4 DEF reallocate
    <3>2. \A i \in 1..d : stream[i].kind # "ConnectionTune"
      BY <2>1, <2>2, <2>4
    <3>3. allocated = maxFrame
      BY <1>12, <3>2 DEF Live
    <3> QED
      BY <3>1, <3>3
  <2> QED
    BY <2>3, <2>4
<1> HIDE DEF d, t
<1>13. /\ stream' = t /\ stream' \in Seq(Sent) /\ Len(stream') = Len(stream) - d
       /\ \A i \in 1..Len(stream') : stream'[i] = stream[d + i]
       /\ taken' = taken - e /\ taken' \in Nat
  BY <1>3, <1>6, <1>7
<1>14. Placed(stream', 0, taken') /\ Governs(stream', 0, maxFrame', peerMax')
  BY <1>1, <1>3, <1>6, <1>8
<1> QED
  BY <1>1, <1>3, <1>9, <1>11, <1>12, <1>13, <1>14 DEF d, t

(* The invariant after parse() returned without a failure.                  *)
LEMMA InvReturn ==
    ASSUME Types, Live, parsing, Return, expected' \in Nat, failure' = "none", expected' > taken',
           expected' = 7 \/ (Len(stream') > 0 /\ expected' = SizeOf(stream'[1]))
    PROVE  WireInv'
<1>1. /\ stream' \in Seq(Sent) /\ taken' \in Nat /\ data' = Upto(taken') /\ At' = 0 /\ ~ parsing'
      /\ Placed(stream', 0, taken') /\ Governs(stream', 0, maxFrame', peerMax')
      /\ setup' = setup /\ maxFrame' = maxFrame /\ peerMax' = peerMax
      /\ processed' = processed /\ delivered' = delivered
      /\ allocated' \in Nat /\ (setup.tcp => allocated' = maxFrame)
  BY ReturnFacts
<1>2. Types'
  BY <1>1 DEF Types
<1>3. Asked(stream', 0, taken', expected')
  BY <1>1 DEF Asked
<1>4. Live'
  BY <1>1, <1>3 DEF Live
<1> QED
  BY <1>2, <1>4 DEF WireInv

(* parse() returns to wait for the rest of a frame, or of its header.       *)
LEMMA InvNeedMore ==
    ASSUME WireInv, NeedMore
    PROVE  WireInv'
<1> DEFINE d == At
           z == SizeOf(stream[d + 1])
           r == ReceivedFrame(Unprocessed)
<1>1. /\ parsing /\ processed < Len(data) /\ r.index = 0 /\ expected' = r.want
      /\ Return /\ failure' = failure
  BY DEF NeedMore
<1>2. Types /\ Live /\ failure = "none"
  BY <1>1 DEF WireInv, Over
<1>3. /\ d \in Nat /\ d + 1 \in 1..Len(stream) /\ stream[d + 1] \in Sent
      /\ processed = EndOf(stream, d) /\ processed < taken
      /\ \/ taken - processed < 7 /\ r = Partial(7)
         \/ taken - processed < z /\ r = Partial(z)
         \/ taken - processed >= z /\ r = Found(d + 1)
  BY <1>1, <1>2, Look
<1>4. z \in Nat
  BY <1>3, SentFacts
<1>5. /\ Len(stream') = Len(stream) - d /\ \A i \in 1..Len(stream') : stream'[i] = stream[d + i]
      /\ taken' = taken - processed /\ taken' \in Nat
  BY <1>1, <1>2, <1>3, ReturnFacts
<1> HIDE DEF d, r
<1>6. Len(stream') > 0 /\ SizeOf(stream'[1]) = z
  <2>1. Len(stream) \in Nat
    BY <1>2, SetupFacts
  <2>2. 1 \in 1..Len(stream') /\ Len(stream') > 0
    BY <1>3, <1>5, <2>1
  <2> QED
    BY <1>5, <2>2
<1>7. r # Found(d + 1)
  <2>1. Found(d + 1).index = d + 1 /\ d + 1 # 0
    BY <1>3, Outcomes
  <2> QED
    BY <1>1, <2>1
<1>8. (taken' < 7 /\ expected' = 7) \/ (taken' < z /\ expected' = z)
  BY <1>1, <1>3, <1>5, <1>7, Outcomes
<1> HIDE DEF z
<1>9. expected' \in Nat /\ expected' > taken'
  BY <1>4, <1>5, <1>8
<1>10. expected' = 7 \/ (Len(stream') > 0 /\ expected' = SizeOf(stream'[1]))
  BY <1>6, <1>8
<1>11. failure' = "none"
  BY <1>1, <1>2
<1> QED
  BY <1>1, <1>2, <1>9, <1>10, <1>11, InvReturn

(* A frame without a process() of its own ends the connection, and no other *)
(* does.                                                                    *)
LEMMA InvRaise ==
    ASSUME WireInv, Raise
    PROVE  WireInv'
<1> DEFINE d == At
           f == stream[d + 1]
           r == ReceivedFrame(Unprocessed)
           wrong == IF r.index > 0 THEN Recognized(stream[r.index]).wrong ELSE r.wrong
<1>1. /\ parsing /\ processed < Len(data) /\ wrong # "none" /\ failure' = wrong
      /\ Return /\ expected' = expected
  BY DEF Raise
<1>2. Types /\ Live
  BY <1>1 DEF WireInv, Over
<1>3. /\ d \in Nat /\ d + 1 \in 1..Len(stream) /\ f \in Sent
      /\ \/ r = Partial(7) \/ r = Partial(SizeOf(f)) \/ r = Found(d + 1)
  BY <1>1, <1>2, Look
<1>4. /\ stream' \in Seq(Sent) /\ Len(stream') = Len(stream) - d
      /\ \A i \in 1..Len(stream') : stream'[i] = stream[d + i]
      /\ taken' \in Nat /\ ~ parsing' /\ setup' = setup /\ maxFrame' = maxFrame /\ peerMax' = peerMax
      /\ processed' = processed /\ delivered' = delivered /\ allocated' \in Nat
  BY <1>1, <1>2, ReturnFacts
<1>5. Types'
  BY <1>1, <1>2, <1>4 DEF Types
<1> HIDE DEF d, r
<1>6. r = Found(d + 1)
  <2>1. CASE r = Partial(7)
    <3>1. r.index = 0 /\ r.wrong = "none"
      BY <2>1, Outcomes
    <3> QED
      BY <1>1, <3>1
  <2>2. CASE r = Partial(SizeOf(f))
    <3>1. r.index = 0 /\ r.wrong = "none"
      BY <2>2, Outcomes
    <3> QED
      BY <1>1, <3>1
  <2> QED
    BY <1>3, <2>1, <2>2
<1>7. r.index = d + 1 /\ d + 1 > 0
  BY <1>3, <1>6, Outcomes
<1>8. wrong = Recognized(f).wrong
  BY <1>7
<1>9. Catalogue[f.kind].process = "unimplemented" /\ failure' = "unimplemented frame"
  <2> HIDE DEF wrong, f
  <2> QED
    BY <1>1, <1>3, <1>8, RecognizedFacts
<1>10. Len(stream') > 0 /\ stream'[1] = f
  <2>1. Len(stream) \in Nat
    BY <1>2, SetupFacts
  <2>2. 1 \in 1..Len(stream') /\ Len(stream') > 0
    BY <1>3, <1>4, <2>1
  <2> QED
    BY <1>4, <2>2
<1>11. Over'
  <2>1. Catalogue[stream'[1].kind].process = "unimplemented"
    BY <1>9, <1>10
  <2> QED
    BY <1>4, <1>9, <1>10, <2>1 DEF Over
<1>12. failure' # "none"
  BY <1>9
<1> QED
  BY <1>5, <1>11, <1>12 DEF WireInv

(* parse() returns with nothing left.                                       *)
LEMMA InvAllProcessed ==
    ASSUME WireInv, AllProcessed
    PROVE  WireInv'
<1>1. parsing /\ processed >= Len(data) /\ expected' = 7 /\ Return /\ failure' = failure
  BY DEF AllProcessed
<1>2. Types /\ Live /\ failure = "none"
  BY <1>1 DEF WireInv, Over
<1> DEFINE e == EndOf(stream, At)
<1>3. data = Upto(taken) /\ processed = e /\ e <= taken /\ At \in 0..Len(stream)
  BY <1>1, <1>2 DEF Live, Placed
<1>4. taken \in Nat /\ e \in Nat
  BY <1>2, <1>3, SetupFacts DEF Types
<1>5. Len(data) = taken
  BY <1>3, <1>4, UptoFacts
<1>6. taken' = taken - e
  BY <1>1, <1>2, ReturnFacts
<1> HIDE DEF e
<1>7. taken' = 0
  BY <1>1, <1>3, <1>4, <1>5, <1>6
<1>8. expected' \in Nat /\ expected' > taken' /\ failure' = "none"
  BY <1>1, <1>2, <1>7
<1> QED
  BY <1>1, <1>2, <1>8, InvReturn

(* A step that changes nothing.                                             *)
LEMMA InvStutter ==
    ASSUME WireInv, UNCHANGED vars
    PROVE  WireInv'
<1>1. At' = At
  BY DEF vars, At
<1>2. Types'
  BY DEF WireInv, Types, vars
<1>3. failure = "none" => Live'
  BY <1>1 DEF WireInv, Live, vars
<1>4. failure # "none" => Over'
  BY DEF WireInv, Over, vars
<1> QED
  BY <1>2, <1>3, <1>4 DEF WireInv, vars

(* The inductive invariant holds in every reachable state: however the      *)
(* network cuts the stream and whatever classes and limits the peer uses,   *)
(* parse() stands at the end of a frame, the buffer is the tail from there, *)
(* and every frame behind it respects the limit that will be in force.      *)
THEOREM WireInvariance == Spec => []WireInv
<1>1. Init => WireInv
  BY InitWireInv
<1>2. WireInv /\ [Next]_vars => WireInv'
  <2> SUFFICES ASSUME WireInv, [Next]_vars PROVE WireInv'
    OBVIOUS
  <2>1. CASE \E f \in FrameForms : Send(f)
    BY <2>1, InvSend
  <2>2. CASE Receive
    BY <2>2, InvReceive
  <2>3. CASE ProcessFrame
    BY <2>3, InvProcess
  <2>4. CASE NeedMore
    BY <2>4, InvNeedMore
  <2>5. CASE Raise
    BY <2>5, InvRaise
  <2>6. CASE AllProcessed
    BY <2>6, InvAllProcessed
  <2>7. CASE UNCHANGED vars
    BY <2>7, InvStutter
  <2> QED
    BY <2>1, <2>2, <2>3, <2>4, <2>5, <2>6, <2>7 DEF Next, Step
<1> QED
  BY <1>1, <1>2, PTL DEF Spec

(* TcpInBuffer and the offsets that ConnectionImpl::parse returns agree on  *)
(* every setup: the buffer holds what was read and not processed.           *)
THEOREM BufferStaysTail == Spec => []BufferIsTail
<1>1. WireInv => BufferIsTail
  BY DEF WireInv, Live, Upto, BufferIsTail
<1> QED
  BY <1>1, WireInvariance, PTL

(* After parse() there is always something left to wait for, so a read of   *)
(* zero bytes does mean the end of the file.                                *)
THEOREM AlwaysWantsMore == Spec => []WantsMore
<1>1. WireInv => WantsMore
  <2> SUFFICES ASSUME WireInv, failure = "none", ~ parsing PROVE expected > Len(data)
    BY DEF WantsMore
  <2>1. data = Upto(taken) /\ expected > taken /\ taken \in Nat
    BY DEF WireInv, Live, Types
  <2>2. Len(data) = taken
    BY <2>1, UptoFacts
  <2> QED
    BY <2>1, <2>2
<1> QED
  BY <1>1, WireInvariance, PTL

(* The buffer of TcpConnected is large enough for what parse() asks for,    *)
(* before, while and after the frame size is negotiated.                    *)
THEOREM ExpectedAlwaysFits == Spec => []ExpectedFits
<1>1. WireInv => ExpectedFits
  <2> SUFFICES ASSUME WireInv, setup.tcp, failure = "none", ~ parsing
               PROVE  expected <= allocated /\ Len(data) <= allocated
    BY DEF ExpectedFits
  <2>1. Types /\ Live /\ At = 0
    BY DEF WireInv, At
  <2>2. /\ data = Upto(taken) /\ expected > taken /\ allocated = maxFrame
        /\ Asked(stream, 0, taken, expected) /\ Governs(stream, 0, maxFrame, peerMax)
    BY <2>1 DEF Live
  <2>3. taken \in Nat /\ expected \in Nat /\ stream \in Seq(Sent) /\ Len(stream) \in Nat
    BY <2>1, SetupFacts DEF Types
  <2>4. Len(data) = taken
    BY <2>2, <2>3, UptoFacts
  <2>5. 0 \in 0..Len(stream)
    BY <2>3
  <2>6. maxFrame \in Nat /\ maxFrame >= 8
    BY <2>2, <2>3, <2>5, GovernsType
  <2>7. expected <= maxFrame
    <3>1. CASE expected = 7
      BY <2>6, <3>1
    <3>2. CASE Len(stream) > 0 /\ expected = SizeOf(stream[1])
      <4>1. 0 < Len(stream) /\ 0 + 1 = 1
        BY <2>3, <3>2
      <4>2. SizeOf(stream[0 + 1]) <= maxFrame
        BY <2>2, <2>3, <2>5, <4>1, GovernsNext
      <4> QED
        BY <3>2, <4>1, <4>2
    <3> QED
      BY <2>2, <3>1, <3>2 DEF Asked
  <2> QED
    BY <2>2, <2>3, <2>4, <2>6, <2>7
<1> QED
  BY <1>1, WireInvariance, PTL

(* No peer that lays out and measures its frames as these classes do is     *)
(* accused of a protocol error: only a frame without a process() of its own *)
(* ends the connection.                                                     *)
THEOREM NeverFalseAlarm == Spec => []NoFalseAlarm
<1>1. WireInv => NoFalseAlarm
  <2> SUFFICES ASSUME WireInv, failure # "none"
               PROVE  failure = "unimplemented frame"
                      /\ Catalogue[Head(stream).kind].process = "unimplemented"
    BY DEF NoFalseAlarm
  <2>1. failure = "unimplemented frame" /\ Catalogue[stream[1].kind].process = "unimplemented"
    BY DEF WireInv, Over
  <2>2. Head(stream) = stream[1]
    <3>1. Len(stream) > 0 /\ stream \in Seq(Sent)
      BY DEF WireInv, Over, Types
    <3> QED
      BY <3>1
  <2> QED
    BY <2>1, <2>2
<1> QED
  BY <1>1, WireInvariance, PTL

(* parse() makes of the stream the frames that were sent, none skipped, none *)
(* twice, in order and each with the class it was sent as: the numbers and  *)
(* sizes of all 65 classes are those that the dispatch tables expect.       *)
THEOREM FramesStayInOrder == Spec => []FramesInOrder
<1>1. WireInv => FramesInOrder
  <2> SUFFICES ASSUME WireInv, parsing
               PROVE  /\ Len(delivered) <= Len(stream)
                      /\ \A i \in DOMAIN delivered : delivered[i] = stream[i].kind
    BY DEF FramesInOrder
  <2>1. Types /\ Live /\ At = Len(delivered)
    BY DEF WireInv, Over, At
  <2>2. At \in 0..Len(stream) /\ \A i \in 1..At : delivered[i] = stream[i].kind
    BY <2>1 DEF Live, Placed
  <2>3. DOMAIN delivered = 1..At /\ Len(stream) \in Nat
    BY <2>1, SetupFacts, LenProperties DEF Types
  <2> QED
    BY <2>1, <2>2, <2>3
<1> QED
  BY <1>1, WireInvariance, PTL
=============================================================================
