----------------------------- MODULE Flattening -----------------------------
(***************************************************************************)
(* Facts about FlattenSeq and about cutting a sequence in two, which the   *)
(* proofs about the output buffer of a TcpConnection (TcpOutBuffer: chunks *)
(* of bytes, of which a number of bytes is removed at the front) and about *)
(* bodies that are cut into frames rest on.                                *)
(* FlattenSeq is defined by recursion; what it returns for every argument  *)
(* is proved here by induction, in the form of the least number that is    *)
(* not in a set.                                                           *)
(***************************************************************************)
EXTENDS Naturals, Sequences, SequencesExt, SequenceTheorems, WellFoundedInduction, TLAPS

(* A set of numbers that is not empty has a least element.                  *)
LEMMA LeastElement ==
    ASSUME NEW T \in SUBSET Nat, T # {}
    PROVE  \E x \in T : \A y \in T : x <= y
<1>1. PICK x \in T : \A y \in T : ~(<<y, x>> \in OpToRel(<, Nat))
  BY NatLessThanWellFounded, WFMin, Zenon
<1>2. ASSUME NEW y \in T PROVE x <= y
  <2>1. ~(y < x)
    BY <1>1 DEF OpToRel
  <2> QED
    BY <2>1
<1> QED
  BY <1>2

(* Induction, stated for a set of numbers in place of a predicate.          *)
LEMMA SetInduction ==
    ASSUME NEW S, 0 \in S, \A n \in Nat : n \in S => n + 1 \in S
    PROVE  Nat \subseteq S
<1> DEFINE T == Nat \ S
<1> SUFFICES ASSUME T # {} PROVE FALSE
  OBVIOUS
<1>1. PICK x \in T : \A y \in T : ~(<<y, x>> \in OpToRel(<, Nat))
  BY NatLessThanWellFounded, WFMin, T \subseteq Nat
<1>2. x # 0 /\ x - 1 \in Nat
  OBVIOUS
<1>3. x - 1 \in T
  BY <1>2
<1>4. <<x - 1, x>> \in OpToRel(<, Nat)
  BY <1>2 DEF OpToRel
<1> QED
  BY <1>1, <1>3, <1>4

-----------------------------------------------------------------------------
(* FlattenSeq as the function of its partial results.                       *)
Cat(s, t) == s \o t
Joined(seqs, g, i) == IF i = 1 THEN seqs[i] ELSE Cat(g[i - 1], seqs[i])
Partials(seqs, g) == g = [i \in 1..Len(seqs) |-> Joined(seqs, g, i)]

(* FlattenSeq takes the last of its partial results.                        *)
LEMMA FlattenDef ==
    ASSUME NEW seqs, Len(seqs) # 0
    PROVE  FlattenSeq(seqs) = (CHOOSE g : Partials(seqs, g))[Len(seqs)]
BY DEF FlattenSeq, Partials, Joined, Cat

(* Every sequence of sequences has a function of partial results.           *)
LEMMA PartialsExist ==
    ASSUME NEW X, NEW seqs \in Seq(Seq(X))
    PROVE  \E g \in [1..Len(seqs) -> Seq(X)] : Partials(seqs, g)
<1> DEFINE Eq(n, g) == \A i \in 1..n : g[i] = Joined(seqs, g, i)
           P(n) == n <= Len(seqs) => \E g \in [1..n -> Seq(X)] : Eq(n, g)
           S == {n \in Nat : P(n)}
<1>0. Len(seqs) \in Nat /\ \A i \in 1..Len(seqs) : seqs[i] \in Seq(X)
  BY LenProperties, ElementOfSeq
<1>1. P(0)
  <2> DEFINE g == [i \in 1..0 |-> <<>>]
  <2>1. g \in [1..0 -> Seq(X)]
    OBVIOUS
  <2>2. Eq(0, g)
    OBVIOUS
  <2> QED
    BY <2>1, <2>2
<1>2. ASSUME NEW n \in Nat, P(n)
      PROVE  P(n + 1)
  <2> SUFFICES ASSUME n + 1 <= Len(seqs)
               PROVE  \E g \in [1..n + 1 -> Seq(X)] : Eq(n + 1, g)
    OBVIOUS
  <2>1. PICK g \in [1..n -> Seq(X)] : Eq(n, g)
    <3>1. n <= Len(seqs)
      BY <1>0
    <3> QED
      BY <1>2, <3>1
  <2> DEFINE h == [i \in 1..n + 1 |-> IF i <= n THEN g[i] ELSE Joined(seqs, g, n + 1)]
  <2>2. Joined(seqs, g, n + 1) \in Seq(X)
    <3>1. n # 0 => g[n] \o seqs[n + 1] \in Seq(X)
      BY <1>0, <2>1, ConcatProperties
    <3>2. n + 1 - 1 = n /\ (n + 1 = 1 <=> n = 0) /\ seqs[n + 1] \in Seq(X)
      BY <1>0
    <3> QED
      BY <3>1, <3>2 DEF Joined, Cat
  <2>3. h \in [1..n + 1 -> Seq(X)]
    BY <1>0, <2>2
  <2>4. ASSUME NEW i \in 1..n + 1
        PROVE  h[i] = Joined(seqs, h, i)
    <3>1. i # 1 => i - 1 \in 1..n /\ h[i - 1] = g[i - 1]
      OBVIOUS
    <3>2. Joined(seqs, h, i) = Joined(seqs, g, i)
      BY <3>1 DEF Joined
    <3>3. CASE i <= n
      BY <2>1, <3>2, <3>3
    <3>4. CASE i = n + 1
      BY <3>2, <3>4
    <3> QED
      BY <3>3, <3>4
  <2> QED
    BY <2>3, <2>4
<1>3. \A n \in Nat : P(n)
  <2> HIDE DEF P
  <2>1. 0 \in S /\ \A n \in Nat : n \in S => n + 1 \in S
    BY <1>1, <1>2
  <2> QED
    BY <2>1, SetInduction
<1>4. PICK g \in [1..Len(seqs) -> Seq(X)] : Eq(Len(seqs), g)
  <2>1. P(Len(seqs))
    BY <1>0, <1>3, Zenon
  <2>2. Len(seqs) <= Len(seqs)
    BY <1>0
  <2> QED
    BY <2>1, <2>2, Zenon
<1>5. Partials(seqs, g)
  BY <1>4 DEF Partials
<1> QED
  BY <1>5

(* One partial result from the one before it.                               *)
LEMMA JoinedStep ==
    ASSUME NEW seqs, NEW g, NEW n \in Nat
    PROVE  Joined(seqs, g, n + 1) = IF n = 0 THEN seqs[n + 1] ELSE Cat(g[n], seqs[n + 1])
<1> DEFINE i == n + 1
<1>1. i - 1 = n /\ (i = 1 <=> n = 0)
  OBVIOUS
<1> HIDE DEF i
<1>2. Joined(seqs, g, i) = IF n = 0 THEN seqs[i] ELSE Cat(g[n], seqs[i])
  BY <1>1, Zenon DEF Joined
<1> QED
  BY <1>2, Zenon DEF i

(* Concatenation is associative.                                            *)
LEMMA CatAssociative ==
    ASSUME NEW X, NEW a \in Seq(X), NEW b \in Seq(X), NEW c \in Seq(X)
    PROVE  Cat(Cat(a, b), c) = Cat(a, Cat(b, c))
BY DEF Cat

(* Concatenation of sequences over a set, and with the empty one.           *)
LEMMA CatFacts ==
    ASSUME NEW X, NEW s \in Seq(X), NEW t \in Seq(X)
    PROVE  Cat(s, t) \in Seq(X) /\ Cat(s, <<>>) = s /\ Cat(<<>>, s) = s
BY ConcatProperties, ConcatEmptySeq DEF Cat

(* The partial result at a place.                                           *)
LEMMA PartialsStep ==
    ASSUME NEW seqs, NEW g, Partials(seqs, g), NEW i \in 1..Len(seqs)
    PROVE  g[i] = Joined(seqs, g, i)
BY DEF Partials

(* There is only one function of partial results.                           *)
LEMMA PartialsUnique ==
    ASSUME NEW seqs, Len(seqs) \in Nat, NEW g, NEW h, Partials(seqs, g), Partials(seqs, h)
    PROVE  \A i \in 1..Len(seqs) : g[i] = h[i]
<1> DEFINE S == {n \in Nat : n \in 1..Len(seqs) => g[n] = h[n]}
<1>1. 0 \in S
  OBVIOUS
<1>2. ASSUME NEW n \in Nat, n \in S
      PROVE  n + 1 \in S
  <2> SUFFICES ASSUME n + 1 \in 1..Len(seqs)
               PROVE  g[n + 1] = h[n + 1]
    OBVIOUS
  <2>1. g[n + 1] = Joined(seqs, g, n + 1) /\ h[n + 1] = Joined(seqs, h, n + 1)
    BY PartialsStep
  <2>2. n # 0 => g[n] = h[n]
    BY <1>2
  <2>3. n + 1 - 1 = n /\ (n + 1 = 1 <=> n = 0)
    OBVIOUS
  <2> QED
    BY <2>1, <2>2, <2>3 DEF Joined
<1>3. Nat \subseteq S
  <2> HIDE DEF S
  <2> QED
    BY <1>1, <1>2, SetInduction
<1> QED
  BY <1>3

(* So every function of partial results ends in what FlattenSeq returns.    *)
LEMMA FlattenPartials ==
    ASSUME NEW X, NEW seqs \in Seq(Seq(X)), Len(seqs) # 0, NEW g, Partials(seqs, g)
    PROVE  FlattenSeq(seqs) = g[Len(seqs)]
<1> DEFINE h == CHOOSE h : Partials(seqs, h)
<1>1. Partials(seqs, h)
  OBVIOUS
<1>2. Len(seqs) \in Nat /\ Len(seqs) \in 1..Len(seqs)
  BY LenProperties
<1>3. h[Len(seqs)] = g[Len(seqs)]
  BY <1>1, <1>2, PartialsUnique
<1> QED
  BY <1>3, FlattenDef

(* Nothing comes out where nothing went in.                                 *)
LEMMA FlattenEmpty == FlattenSeq(<<>>) = <<>>
BY EmptySeq DEF FlattenSeq

(* What comes out is a sequence of elements of what went in.                *)
LEMMA FlattenType ==
    ASSUME NEW X, NEW seqs \in Seq(Seq(X))
    PROVE  FlattenSeq(seqs) \in Seq(X)
<1>1. CASE Len(seqs) = 0
  <2>1. seqs = <<>>
    BY <1>1, EmptySeq
  <2> QED
    BY <2>1, FlattenEmpty, EmptySeq
<1>2. CASE Len(seqs) # 0
  <2>1. PICK g \in [1..Len(seqs) -> Seq(X)] : Partials(seqs, g)
    BY PartialsExist
  <2>2. Len(seqs) \in 1..Len(seqs)
    BY <1>2, LenProperties
  <2>3. FlattenSeq(seqs) = g[Len(seqs)]
    BY <1>2, <2>1, FlattenPartials
  <2> QED
    BY <2>1, <2>2, <2>3
<1> QED
  BY <1>1, <1>2

(* One more sequence at the end is one more piece at the end.               *)
LEMMA FlattenAppend ==
    ASSUME NEW X, NEW seqs \in Seq(Seq(X)), NEW s \in Seq(X)
    PROVE  FlattenSeq(Append(seqs, s)) = FlattenSeq(seqs) \o s
<1> DEFINE more == Append(seqs, s)
           n == Len(seqs)
<1>0. n \in Nat /\ \A i \in 1..n : seqs[i] \in Seq(X)
  BY LenProperties, ElementOfSeq
<1>1. /\ more \in Seq(Seq(X)) /\ Len(more) = n + 1
      /\ \A i \in 1..n : more[i] = seqs[i]
      /\ more[n + 1] = s
  BY AppendProperties
<1>2. PICK g \in [1..n + 1 -> Seq(X)] : Partials(more, g)
  BY <1>1, PartialsExist
<1> HIDE DEF more, n
<1>3. FlattenSeq(more) = g[n + 1]
  <2>1. Len(more) # 0
    BY <1>0, <1>1
  <2> QED
    BY <1>1, <1>2, <2>1, FlattenPartials
<1>4. g[n + 1] = IF n = 0 THEN s ELSE Cat(g[n], s)
  <2>1. g[n + 1] = Joined(more, g, n + 1)
    <3>1. n + 1 \in 1..Len(more)
      BY <1>0, <1>1
    <3> QED
      BY <1>2, <3>1, PartialsStep
  <2>2. Joined(more, g, n + 1) = IF n = 0 THEN more[n + 1] ELSE Cat(g[n], more[n + 1])
    BY <1>0, JoinedStep, Zenon
  <2> QED
    BY <1>1, <2>1, <2>2
<1>5. CASE n = 0
  <2>1. seqs = <<>>
    BY <1>5, EmptySeq DEF n
  <2>2. <<>> \o s = s
    BY ConcatEmptySeq
  <2> QED
    BY <1>3, <1>4, <1>5, <2>1, <2>2, FlattenEmpty DEF more
<1>6. CASE n # 0
  <2> DEFINE h == [i \in 1..n |-> g[i]]
  <2>1. ASSUME NEW i \in 1..n
        PROVE  h[i] = Joined(seqs, h, i)
    <3>1. g[i] = Joined(more, g, i)
      <4>1. i \in 1..Len(more)
        BY <1>0, <1>1
      <4> QED
        BY <1>2, <4>1, PartialsStep
    <3>2. i # 1 => h[i - 1] = g[i - 1]
      BY <1>0
    <3>3. h[i] = g[i] /\ more[i] = seqs[i]
      BY <1>1
    <3> QED
      BY <3>1, <3>2, <3>3 DEF Joined
  <2>2. Partials(seqs, h)
    BY <2>1 DEF Partials, n
  <2>3. FlattenSeq(seqs) = h[n]
    BY <1>6, <2>2, FlattenPartials DEF n
  <2>4. h[n] = g[n]
    BY <1>0, <1>6
  <2>5. FlattenSeq(more) = Cat(FlattenSeq(seqs), s)
    BY <1>3, <1>4, <1>6, <2>3, <2>4
  <2> QED
    BY <2>5 DEF Cat, more
<1> QED
  BY <1>5, <1>6

(* An element is appended to the second of two sequences.                   *)
LEMMA ConcatAppend ==
    ASSUME NEW X, NEW s \in Seq(X), NEW t \in Seq(X), NEW x \in X
    PROVE  s \o Append(t, x) = Append(s \o t, x)
<1> DEFINE o == <<x>>
<1>1. o \in Seq(X)
  OBVIOUS
<1>2. Append(t, x) = t \o o
  BY AppendIsConcat
<1>3. s \o t \in Seq(X)
  BY ConcatProperties
<1>4. Append(s \o t, x) = (s \o t) \o o
  BY <1>3, AppendIsConcat
<1> HIDE DEF o
<1>5. Cat(Cat(s, t), o) = Cat(s, Cat(t, o))
  BY <1>1, CatAssociative
<1> QED
  BY <1>2, <1>4, <1>5 DEF Cat

(* Two sequences of sequences, one behind the other.                        *)
LEMMA FlattenConcat ==
    ASSUME NEW X, NEW s \in Seq(Seq(X)), NEW t \in Seq(Seq(X))
    PROVE  FlattenSeq(s \o t) = FlattenSeq(s) \o FlattenSeq(t)
<1> DEFINE upto(n) == SubSeq(t, 1, n)
           P(n) == n <= Len(t) =>
                     FlattenSeq(s \o upto(n)) = FlattenSeq(s) \o FlattenSeq(upto(n))
           S == {n \in Nat : P(n)}
<1>0. FlattenSeq(s) \in Seq(X) /\ Len(t) \in Nat
  BY FlattenType, LenProperties
<1>1. P(0)
  <2>1. upto(0) = <<>>
    BY SubSeqEmpty
  <2>2. s \o <<>> = s /\ FlattenSeq(s) \o <<>> = FlattenSeq(s)
    BY <1>0, ConcatEmptySeq
  <2> QED
    BY <2>1, <2>2, FlattenEmpty
<1>2. ASSUME NEW n \in Nat, P(n)
      PROVE  P(n + 1)
  <2> SUFFICES ASSUME n + 1 <= Len(t)
               PROVE  FlattenSeq(s \o upto(n + 1)) = FlattenSeq(s) \o FlattenSeq(upto(n + 1))
    OBVIOUS
  <2>1. FlattenSeq(s \o upto(n)) = FlattenSeq(s) \o FlattenSeq(upto(n))
    <3>1. n <= Len(t)
      BY <1>0
    <3> QED
      BY <1>2, <3>1
  <2>2. upto(n) \in Seq(Seq(X)) /\ t[n + 1] \in Seq(X)
    BY <1>0, SubSeqProperties, ElementOfSeq
  <2>3. upto(n + 1) = Append(upto(n), t[n + 1])
    BY <1>0, SubSeqRecursiveSecond
  <2> HIDE DEF upto
  <2>4. s \o Append(upto(n), t[n + 1]) = Append(s \o upto(n), t[n + 1])
    BY <2>2, ConcatAppend
  <2>5. s \o upto(n) \in Seq(Seq(X))
    BY <2>2, ConcatProperties
  <2>6. FlattenSeq(upto(n)) \in Seq(X)
    BY <2>2, FlattenType
  <2>7. FlattenSeq(Append(upto(n), t[n + 1])) = FlattenSeq(upto(n)) \o t[n + 1]
    BY <2>2, FlattenAppend
  <2>8. FlattenSeq(Append(s \o upto(n), t[n + 1])) = FlattenSeq(s \o upto(n)) \o t[n + 1]
    BY <2>2, <2>5, FlattenAppend
  <2>9. (FlattenSeq(s) \o FlattenSeq(upto(n))) \o t[n + 1]
            = FlattenSeq(s) \o (FlattenSeq(upto(n)) \o t[n + 1])
    <3>1. Cat(Cat(FlattenSeq(s), FlattenSeq(upto(n))), t[n + 1])
              = Cat(FlattenSeq(s), Cat(FlattenSeq(upto(n)), t[n + 1]))
      BY <1>0, <2>2, <2>6, CatAssociative
    <3> QED
      BY <3>1, Zenon DEF Cat
  <2> QED
    BY <2>1, <2>3, <2>4, <2>7, <2>8, <2>9
<1>3. \A n \in Nat : P(n)
  <2> HIDE DEF P
  <2>1. 0 \in S /\ \A n \in Nat : n \in S => n + 1 \in S
    BY <1>1, <1>2
  <2> QED
    BY <2>1, SetInduction
<1>4. upto(Len(t)) = t
  BY SubSeqFull
<1>5. P(Len(t)) /\ Len(t) <= Len(t)
  BY <1>0, <1>3
<1> QED
  BY <1>4, <1>5

-----------------------------------------------------------------------------
(* The first n elements of a sequence, and the others.                      *)
Leading(s, n) == SubSeq(s, 1, n)
Trailing(s, n) == SubSeq(s, n + 1, Len(s))

(* Length and elements of the first part.                                   *)
LEMMA LeadingFacts ==
    ASSUME NEW X, NEW s \in Seq(X), NEW n \in 0..Len(s)
    PROVE  /\ Leading(s, n) \in Seq(X) /\ Len(Leading(s, n)) = n
           /\ \A i \in 1..n : Leading(s, n)[i] = s[i]
<1>1. Len(s) \in Nat /\ \A i \in 1..Len(s) : s[i] \in X
  BY LenProperties, ElementOfSeq
<1>2. n \in Nat /\ \A i \in 1..n : s[i] \in X
  BY <1>1
<1>3. /\ SubSeq(s, 1, n) \in Seq(X)
      /\ Len(SubSeq(s, 1, n)) = IF 1 <= n THEN n - 1 + 1 ELSE 0
      /\ \A i \in 1..(n - 1 + 1) : SubSeq(s, 1, n)[i] = s[1 + i - 1]
  BY <1>2, SubSeqProperties
<1> DEFINE f == SubSeq(s, 1, n)
<1> HIDE DEF f
<1>4. f \in Seq(X) /\ Len(f) = n /\ \A i \in 1..n : f[i] = s[i]
  <2>1. f \in Seq(X) /\ Len(f) = n
    BY <1>2, <1>3 DEF f
  <2>2. ASSUME NEW i \in 1..n PROVE f[i] = s[i]
    <3>1. i \in 1..(n - 1 + 1) /\ 1 + i - 1 = i
      BY <1>2
    <3> QED
      BY <1>3, <3>1 DEF f
  <2> QED
    BY <2>1, <2>2
<1> QED
  BY <1>4 DEF f, Leading

(* Length and elements of the other part.                                   *)
LEMMA TrailingFacts ==
    ASSUME NEW X, NEW s \in Seq(X), NEW n \in 0..Len(s)
    PROVE  /\ Trailing(s, n) \in Seq(X) /\ Len(Trailing(s, n)) = Len(s) - n
           /\ \A i \in 1..(Len(s) - n) : Trailing(s, n)[i] = s[n + i]
<1>1. Len(s) \in Nat /\ \A i \in 1..Len(s) : s[i] \in X
  BY LenProperties, ElementOfSeq
<1>2. n \in Nat /\ n + 1 \in Int /\ \A i \in (n + 1)..Len(s) : s[i] \in X
  BY <1>1
<1>3. /\ SubSeq(s, n + 1, Len(s)) \in Seq(X)
      /\ Len(SubSeq(s, n + 1, Len(s))) = IF n + 1 <= Len(s) THEN Len(s) - (n + 1) + 1 ELSE 0
      /\ \A i \in 1..(Len(s) - (n + 1) + 1) : SubSeq(s, n + 1, Len(s))[i] = s[n + 1 + i - 1]
  BY <1>1, <1>2, SubSeqProperties
<1> DEFINE f == SubSeq(s, n + 1, Len(s))
<1> HIDE DEF f
<1>4. f \in Seq(X) /\ Len(f) = Len(s) - n /\ \A i \in 1..(Len(s) - n) : f[i] = s[n + i]
  <2>1. f \in Seq(X)
    BY <1>3 DEF f
  <2>2. Len(f) = Len(s) - n
    <3>1. Len(f) = IF n + 1 <= Len(s) THEN Len(s) - (n + 1) + 1 ELSE 0
      BY <1>3 DEF f
    <3> QED
      BY <1>1, <1>2, <3>1
  <2>3. ASSUME NEW i \in 1..(Len(s) - n) PROVE f[i] = s[n + i]
    <3>1. i \in 1..(Len(s) - (n + 1) + 1) /\ n + 1 + i - 1 = n + i
      BY <1>1, <1>2
    <3> QED
      BY <1>3, <3>1 DEF f
  <2> QED
    BY <2>1, <2>2, <2>3
<1> QED
  BY <1>4 DEF f, Trailing

(* Together they are the sequence.                                          *)
LEMMA LeadingTrailing ==
    ASSUME NEW X, NEW s \in Seq(X), NEW n \in 0..Len(s)
    PROVE  Leading(s, n) \o Trailing(s, n) = s
<1> DEFINE f == Leading(s, n)
           r == Trailing(s, n)
           t == f \o r
<1>1. Len(s) \in Nat
  BY LenProperties
<1>2. f \in Seq(X) /\ Len(f) = n /\ \A i \in 1..n : f[i] = s[i]
  BY LeadingFacts
<1>3. r \in Seq(X) /\ Len(r) = Len(s) - n /\ \A i \in 1..(Len(s) - n) : r[i] = s[n + i]
  BY TrailingFacts
<1> HIDE DEF f, r
<1>4. /\ t \in Seq(X) /\ Len(t) = Len(f) + Len(r)
      /\ \A i \in 1..(Len(f) + Len(r)) : t[i] = IF i <= Len(f) THEN f[i] ELSE r[i - Len(f)]
  BY <1>2, <1>3, ConcatProperties
<1> HIDE DEF t
<1>5. Len(t) = Len(s)
  BY <1>1, <1>2, <1>3, <1>4
<1>6. ASSUME NEW i \in 1..Len(t) PROVE t[i] = s[i]
  <2>1. CASE i <= n
    BY <1>1, <1>2, <1>3, <1>4, <1>5, <2>1
  <2>2. CASE ~(i <= n)
    <3>1. i - n \in 1..(Len(s) - n) /\ n + (i - n) = i
      BY <1>1, <1>5, <2>2
    <3>2. t[i] = r[i - n]
      BY <1>1, <1>2, <1>3, <1>4, <1>5, <2>2
    <3> QED
      BY <1>3, <3>1, <3>2
  <2> QED
    BY <2>1, <2>2
<1>7. t = s
  BY <1>4, <1>5, <1>6, SeqEqual
<1> QED
  BY <1>7 DEF t, f, r

(* The cut is in the first of two sequences.                                *)
LEMMA TrailingConcat ==
    ASSUME NEW X, NEW s \in Seq(X), NEW t \in Seq(X), NEW n \in 0..Len(s)
    PROVE  Trailing(s \o t, n) = Trailing(s, n) \o t
<1> DEFINE u == s \o t
           l == Trailing(u, n)
           r == Trailing(s, n)
           m == r \o t
<1>1. Len(s) \in Nat /\ Len(t) \in Nat
  BY LenProperties
<1>2. /\ u \in Seq(X) /\ Len(u) = Len(s) + Len(t)
      /\ \A i \in 1..(Len(s) + Len(t)) : u[i] = IF i <= Len(s) THEN s[i] ELSE t[i - Len(s)]
  BY ConcatProperties
<1> HIDE DEF u
<1>3. r \in Seq(X) /\ Len(r) = Len(s) - n /\ \A i \in 1..(Len(s) - n) : r[i] = s[n + i]
  BY TrailingFacts
<1>4. l \in Seq(X) /\ Len(l) = Len(u) - n /\ \A i \in 1..(Len(u) - n) : l[i] = u[n + i]
  <2>1. n \in 0..Len(u)
    BY <1>1, <1>2
  <2> QED
    BY <1>2, <2>1, TrailingFacts
<1> HIDE DEF l, r
<1>5. /\ m \in Seq(X) /\ Len(m) = Len(r) + Len(t)
      /\ \A i \in 1..(Len(r) + Len(t)) : m[i] = IF i <= Len(r) THEN r[i] ELSE t[i - Len(r)]
  BY <1>3, ConcatProperties
<1> HIDE DEF m
<1>6. Len(l) = Len(m)
  BY <1>1, <1>2, <1>3, <1>4, <1>5
<1>7. ASSUME NEW i \in 1..Len(l) PROVE l[i] = m[i]
  <2>1. n + i \in 1..(Len(s) + Len(t)) /\ i \in 1..(Len(r) + Len(t)) /\ i \in 1..(Len(u) - n)
    BY <1>1, <1>2, <1>3, <1>4
  <2>2. CASE i <= Len(r)
    <3>1. n + i <= Len(s) /\ i \in 1..(Len(s) - n)
      BY <1>1, <1>3, <2>2
    <3> QED
      BY <1>2, <1>3, <1>4, <1>5, <2>1, <2>2, <3>1
  <2>3. CASE ~(i <= Len(r))
    <3>1. ~(n + i <= Len(s)) /\ n + i - Len(s) = i - Len(r)
      BY <1>1, <1>3, <2>3
    <3>2. l[i] = t[n + i - Len(s)]
      BY <1>2, <1>4, <2>1, <3>1
    <3> QED
      BY <1>5, <2>1, <2>3, <3>1, <3>2
  <2> QED
    BY <2>2, <2>3
<1>8. l = m
  BY <1>4, <1>5, <1>6, <1>7, SeqEqual
<1> QED
  BY <1>8 DEF l, m, u, r

(* The cut is in the second of two sequences.                               *)
LEMMA TrailingBehind ==
    ASSUME NEW X, NEW s \in Seq(X), NEW t \in Seq(X), NEW n \in 0..Len(t)
    PROVE  Trailing(s \o t, Len(s) + n) = Trailing(t, n)
<1> DEFINE u == s \o t
           k == Len(s) + n
           l == Trailing(u, k)
           r == Trailing(t, n)
<1>1. Len(s) \in Nat /\ Len(t) \in Nat
  BY LenProperties
<1>2. /\ u \in Seq(X) /\ Len(u) = Len(s) + Len(t)
      /\ \A i \in 1..(Len(s) + Len(t)) : u[i] = IF i <= Len(s) THEN s[i] ELSE t[i - Len(s)]
  BY ConcatProperties
<1> HIDE DEF u
<1>3. r \in Seq(X) /\ Len(r) = Len(t) - n /\ \A i \in 1..(Len(t) - n) : r[i] = t[n + i]
  BY TrailingFacts
<1>4. l \in Seq(X) /\ Len(l) = Len(u) - k /\ \A i \in 1..(Len(u) - k) : l[i] = u[k + i]
  <2>1. k \in 0..Len(u)
    BY <1>1, <1>2
  <2> HIDE DEF k
  <2> QED
    BY <1>2, <2>1, TrailingFacts
<1> HIDE DEF l, r
<1>5. Len(l) = Len(r)
  BY <1>1, <1>2, <1>3, <1>4
<1>6. ASSUME NEW i \in 1..Len(l) PROVE l[i] = r[i]
  <2>1. /\ k + i \in 1..(Len(s) + Len(t)) /\ i \in 1..(Len(t) - n) /\ i \in 1..(Len(u) - k)
        /\ ~(k + i <= Len(s)) /\ k + i - Len(s) = n + i /\ k \in Nat
    BY <1>1, <1>2, <1>3, <1>4
  <2> HIDE DEF k
  <2>2. l[i] = u[k + i]
    BY <1>4, <2>1
  <2>3. \A j \in 1..(Len(s) + Len(t)) : ~(j <= Len(s)) => u[j] = t[j - Len(s)]
    BY <1>2
  <2>4. r[i] = t[n + i]
    BY <1>3, <2>1
  <2> QED
    BY <2>1, <2>2, <2>3, <2>4
<1>7. l = r
  BY <1>3, <1>4, <1>5, <1>6, SeqEqual
<1> QED
  BY <1>7 DEF l, r, u, k

(* Two cuts, one after the other, are one cut.                              *)
LEMMA TrailingTwice ==
    ASSUME NEW X, NEW s \in Seq(X), NEW m \in 0..Len(s), NEW n \in 0..(Len(s) - m)
    PROVE  Trailing(Trailing(s, m), n) = Trailing(s, m + n)
<1> DEFINE f == Leading(s, m)
           r == Trailing(s, m)
<1>1. f \in Seq(X) /\ Len(f) = m /\ r \in Seq(X) /\ Len(r) = Len(s) - m /\ f \o r = s
  BY LeadingFacts, TrailingFacts, LeadingTrailing
<1> HIDE DEF f, r
<1>2. Trailing(f \o r, Len(f) + n) = Trailing(r, n)
  BY <1>1, TrailingBehind
<1> QED
  BY <1>1, <1>2 DEF r

(* The first of two sequences is cut off.                                   *)
LEMMA LeadingConcat ==
    ASSUME NEW X, NEW s \in Seq(X), NEW t \in Seq(X)
    PROVE  Leading(s \o t, Len(s)) = s
<1> DEFINE u == s \o t
           f == Leading(u, Len(s))
<1>1. Len(s) \in Nat /\ Len(t) \in Nat
  BY LenProperties
<1>2. /\ u \in Seq(X) /\ Len(u) = Len(s) + Len(t)
      /\ \A i \in 1..(Len(s) + Len(t)) : u[i] = IF i <= Len(s) THEN s[i] ELSE t[i - Len(s)]
  BY ConcatProperties
<1> HIDE DEF u
<1>3. f \in Seq(X) /\ Len(f) = Len(s) /\ \A i \in 1..Len(s) : f[i] = u[i]
  <2>1. Len(s) \in 0..Len(u)
    BY <1>1, <1>2
  <2> QED
    BY <1>2, <2>1, LeadingFacts
<1> HIDE DEF f
<1>4. ASSUME NEW i \in 1..Len(s) PROVE f[i] = s[i]
  BY <1>1, <1>2, <1>3
<1>5. f = s
  BY <1>3, <1>4, SeqEqual
<1> QED
  BY <1>5 DEF f, u

(* Nothing is left behind the last element.                                 *)
LEMMA TrailingAll ==
    ASSUME NEW X, NEW s \in Seq(X)
    PROVE  Trailing(s, Len(s)) = <<>> /\ Trailing(s, 0) = s
<1>1. Len(s) \in Nat
  BY LenProperties
<1>2. SubSeq(s, Len(s) + 1, Len(s)) = <<>>
  BY <1>1, SubSeqEmpty
<1>3. SubSeq(s, 1, Len(s)) = s
  BY SubSeqFull
<1>4. 0 + 1 = 1
  OBVIOUS
<1> QED
  BY <1>2, <1>3, <1>4 DEF Trailing

-----------------------------------------------------------------------------

(* A sequence with one more element in front.                               *)
LEMMA ConsFacts ==
    ASSUME NEW X, NEW x \in X, NEW s \in Seq(X)
    PROVE  /\ Cons(x, s) \in Seq(X) /\ Len(Cons(x, s)) = Len(s) + 1 /\ Cons(x, s) # <<>>
           /\ Cons(x, s)[1] = x /\ Head(Cons(x, s)) = x /\ Tail(Cons(x, s)) = s
           /\ \A i \in 1..Len(s) : Cons(x, s)[i + 1] = s[i]
<1> DEFINE o == <<x>>
           c == o \o s
<1>1. o \in Seq(X) /\ Len(o) = 1 /\ o[1] = x
  OBVIOUS
<1>2. Len(s) \in Nat
  BY LenProperties
<1> HIDE DEF o
<1>3. /\ c \in Seq(X) /\ Len(c) = Len(s) + 1
      /\ \A i \in 1..(Len(s) + 1) : c[i] = IF i <= 1 THEN o[i] ELSE s[i - 1]
  <2>1. /\ o \o s \in Seq(X) /\ Len(o \o s) = Len(o) + Len(s)
        /\ \A i \in 1..(Len(o) + Len(s)) : (o \o s)[i] = IF i <= Len(o) THEN o[i] ELSE s[i - Len(o)]
    BY <1>1, ConcatProperties
  <2> HIDE DEF c
  <2>2. /\ c \in Seq(X) /\ Len(c) = 1 + Len(s)
        /\ \A i \in 1..(1 + Len(s)) : c[i] = IF i <= 1 THEN o[i] ELSE s[i - 1]
    BY <1>1, <2>1 DEF c
  <2>3. 1 + Len(s) = Len(s) + 1
    BY <1>2
  <2> QED
    BY <2>2, <2>3
<1> HIDE DEF c
<1>4. c # <<>>
  BY <1>2, <1>3, EmptySeq
<1>5. c[1] = x /\ \A i \in 1..Len(s) : c[i + 1] = s[i]
  BY <1>1, <1>2, <1>3
<1>6. Head(c) = x
  BY <1>3, <1>4, <1>5
<1>7. Tail(c) = s
  <2>1. /\ Tail(c) \in Seq(X) /\ Len(Tail(c)) = Len(c) - 1
        /\ \A i \in 1..Len(Tail(c)) : Tail(c)[i] = c[i + 1]
    BY <1>3, <1>4, HeadTailProperties
  <2> DEFINE t == Tail(c)
  <2> HIDE DEF t
  <2>2. t \in Seq(X) /\ Len(t) = Len(s) /\ \A i \in 1..Len(t) : t[i] = s[i]
    BY <1>2, <1>3, <1>5, <2>1 DEF t
  <2>3. t = s
    BY <2>2, SeqEqual
  <2> QED
    BY <2>3 DEF t
<1> QED
  BY <1>3, <1>4, <1>5, <1>6, <1>7 DEF c, o, Cons

(* The elements behind the one in front.                                    *)
LEMMA ConsAt ==
    ASSUME NEW X, NEW x \in X, NEW s \in Seq(X), NEW i \in 1..Len(s)
    PROVE  Cons(x, s)[i + 1] = s[i]
BY ConsFacts

(* A sequence that is not empty is its head in front of its tail.           *)
LEMMA HeadAndTail ==
    ASSUME NEW X, NEW s \in Seq(X), s # <<>>
    PROVE  /\ s = Cons(Head(s), Tail(s)) /\ Head(s) \in X /\ Tail(s) \in Seq(X) /\ Head(s) = s[1]
           /\ Len(s) \in Nat \ {0} /\ Len(Tail(s)) = Len(s) - 1
           /\ \A i \in 1..(Len(s) - 1) : Tail(s)[i] = s[i + 1]
<1> DEFINE h == Head(s)
           t == Tail(s)
           c == Cons(h, t)
<1>1. Len(s) \in Nat \ {0} /\ h = s[1]
  BY LenProperties, EmptySeq
<1>2. /\ h \in X /\ t \in Seq(X) /\ Len(t) = Len(s) - 1
      /\ \A i \in 1..Len(t) : t[i] = s[i + 1]
  BY HeadTailProperties
<1> HIDE DEF h, t
<1>3. /\ c \in Seq(X) /\ Len(c) = Len(t) + 1
      /\ c[1] = h /\ \A i \in 1..Len(t) : c[i + 1] = t[i]
  <2>1. c \in Seq(X) /\ Len(c) = Len(t) + 1 /\ c[1] = h
    BY <1>2, ConsFacts
  <2>2. \A i \in 1..Len(t) : c[i + 1] = t[i]
    BY <1>2, ConsAt
  <2> QED
    BY <2>1, <2>2
<1> HIDE DEF c
<1>4. ASSUME NEW i \in 1..Len(s) PROVE s[i] = c[i]
  <2>1. CASE i = 1
    BY <1>1, <1>3, <2>1
  <2>2. CASE i # 1
    <3>1. i - 1 \in 1..Len(t) /\ (i - 1) + 1 = i
      BY <1>1, <1>2, <2>2
    <3> QED
      BY <1>2, <1>3, <3>1
  <2> QED
    BY <2>1, <2>2
<1>5. Len(c) = Len(s)
  BY <1>1, <1>2, <1>3
<1>6. s = c
  BY <1>3, <1>4, <1>5, SeqEqual
<1>7. \A i \in 1..(Len(s) - 1) : t[i] = s[i + 1]
  BY <1>2
<1> QED
  BY <1>1, <1>2, <1>6, <1>7 DEF h, t, c

(* The front element of two sequences, one behind the other.                *)
LEMMA ConsConcat ==
    ASSUME NEW X, NEW x \in X, NEW s \in Seq(X), NEW t \in Seq(X)
    PROVE  Cons(x, s) \o t = Cons(x, s \o t)
<1> DEFINE o == <<x>>
<1>1. o \in Seq(X)
  OBVIOUS
<1> HIDE DEF o
<1>2. Cat(Cat(o, s), t) = Cat(o, Cat(s, t))
  BY <1>1, CatAssociative
<1> QED
  BY <1>2 DEF o, Cat, Cons

(* Taking the front element off.                                            *)
Pops(u, x, v) == u # <<>> /\ Head(u) = x /\ Tail(u) = v

(* What was put in front comes off.                                         *)
LEMMA ConsPops ==
    ASSUME NEW X, NEW x \in X, NEW s \in Seq(X)
    PROVE  Pops(Cons(x, s), x, s)
BY ConsFacts DEF Pops

(* It does so when more follows.                                            *)
LEMMA ConsInFront ==
    ASSUME NEW X, NEW x \in X, NEW s \in Seq(X), NEW t \in Seq(X)
    PROVE  Pops(Cat(Cons(x, s), t), x, Cat(s, t))
<1> DEFINE v == s \o t
<1>1. v \in Seq(X)
  BY ConcatProperties
<1>2. Cons(x, s) \o t = Cons(x, v)
  BY ConsConcat
<1> HIDE DEF v
<1>3. Cons(x, v) # <<>> /\ Head(Cons(x, v)) = x /\ Tail(Cons(x, v)) = v
  BY <1>1, ConsFacts
<1> QED
  BY <1>2, <1>3 DEF v, Pops, Cat

-----------------------------------------------------------------------------
(* A function applied to every element of a sequence, and the results put   *)
(* one behind the other.                                                    *)
Maps(T, X) == [T -> Seq(X)]
Each(F, s) == [i \in 1..Len(s) |-> F[s[i]]]
Flat(F, s) == FlattenSeq(Each(F, s))

(* A function on 1..n is a sequence of n elements.                          *)
LEMMA FunctionIsSeq ==
    ASSUME NEW S, NEW n \in Nat, NEW f \in [1..n -> S]
    PROVE  f \in Seq(S) /\ Len(f) = n /\ DOMAIN f = 1..n
BY SeqDef

(* The types of both operators.                                             *)
LEMMA EachType ==
    ASSUME NEW T, NEW X, NEW F \in Maps(T, X), NEW s \in Seq(T)
    PROVE  /\ Each(F, s) \in Seq(Seq(X)) /\ Len(Each(F, s)) = Len(s)
           /\ \A i \in 1..Len(s) : Each(F, s)[i] = F[s[i]]
           /\ Flat(F, s) \in Seq(X)
<1>1. Len(s) \in Nat /\ \A i \in 1..Len(s) : s[i] \in T
  BY LenProperties, ElementOfSeq
<1>2. Each(F, s) \in [1..Len(s) -> Seq(X)] /\ \A i \in 1..Len(s) : Each(F, s)[i] = F[s[i]]
  BY <1>1 DEF Each, Maps
<1>3. Each(F, s) \in Seq(Seq(X)) /\ Len(Each(F, s)) = Len(s)
  BY <1>1, <1>2, FunctionIsSeq
<1> QED
  BY <1>2, <1>3, FlattenType DEF Flat

(* Nothing comes of the empty sequence.                                     *)
LEMMA FlatEmpty ==
    ASSUME NEW F
    PROVE  Flat(F, <<>>) = <<>>
<1>1. Each(F, <<>>) = <<>>
  <2>1. Len(<<>>) = 0 /\ 1..0 = {}
    BY EmptySeq
  <2> QED
    BY <2>1 DEF Each
<1> QED
  BY <1>1, FlattenEmpty DEF Flat

(* An element at the end adds its result at the end.                        *)
LEMMA FlatAppend ==
    ASSUME NEW T, NEW X, NEW F \in Maps(T, X), NEW s \in Seq(T), NEW e \in T
    PROVE  Flat(F, Append(s, e)) = Cat(Flat(F, s), F[e])
<1> DEFINE a == Append(s, e)
           l == Each(F, a)
           b == Each(F, s)
           f == F[e]
           r == Append(b, f)
           n == Len(s)
<1>0. n \in Nat
  BY LenProperties
<1>1. a \in Seq(T) /\ Len(a) = n + 1 /\ (\A i \in 1..n : a[i] = s[i]) /\ a[n + 1] = e
  BY AppendProperties
<1>2. b \in Seq(Seq(X)) /\ Len(b) = n /\ f \in Seq(X) /\ \A i \in 1..n : b[i] = F[s[i]]
  <2>1. b \in Seq(Seq(X)) /\ Len(b) = n
    BY EachType
  <2>2. \A i \in 1..n : b[i] = F[s[i]]
    BY DEF Each
  <2>3. f \in Seq(X)
    BY DEF Maps
  <2> QED
    BY <2>1, <2>2, <2>3
<1> HIDE DEF a, b, f
<1>3. /\ r \in Seq(Seq(X)) /\ Len(r) = n + 1
      /\ (\A i \in 1..n : r[i] = b[i]) /\ r[n + 1] = f
  BY <1>2, AppendProperties
<1>4. l \in Seq(Seq(X)) /\ Len(l) = n + 1 /\ \A i \in 1..(n + 1) : l[i] = F[a[i]]
  <2>1. l \in Seq(Seq(X)) /\ Len(l) = n + 1
    BY <1>1, EachType
  <2>2. \A i \in 1..(n + 1) : l[i] = F[a[i]]
    BY <1>1 DEF Each
  <2> QED
    BY <2>1, <2>2
<1> HIDE DEF r, l, n
<1>5. ASSUME NEW i \in 1..(n + 1) PROVE l[i] = r[i]
  <2>1. CASE i \in 1..n
    <3>1. l[i] = F[a[i]] /\ r[i] = b[i] /\ a[i] = s[i] /\ b[i] = F[s[i]]
      BY <1>0, <1>1, <1>2, <1>3, <1>4, <2>1
    <3> QED
      BY <3>1
  <2>2. CASE i = n + 1
    BY <1>1, <1>3, <1>4, <2>2 DEF f
  <2> QED
    BY <1>0, <2>1, <2>2
<1>6. l = r
  BY <1>3, <1>4, <1>5, SeqEqual
<1>7. FlattenSeq(Append(b, f)) = FlattenSeq(b) \o f
  BY <1>2, FlattenAppend
<1> QED
  BY <1>6, <1>7 DEF Flat, Cat, a, r, l, b, f

(* An element in front adds its result in front.                            *)
LEMMA FlatCons ==
    ASSUME NEW T, NEW X, NEW F \in Maps(T, X), NEW e \in T, NEW s \in Seq(T)
    PROVE  Flat(F, Cons(e, s)) = Cat(F[e], Flat(F, s))
<1> DEFINE c == Cons(e, s)
           l == Each(F, c)
           b == Each(F, s)
           f == F[e]
           r == Cons(f, b)
           n == Len(s)
<1>0. n \in Nat
  BY LenProperties
<1>1. c \in Seq(T) /\ Len(c) = n + 1 /\ (\A i \in 1..n : c[i + 1] = s[i]) /\ c[1] = e
  BY ConsFacts
<1>2. b \in Seq(Seq(X)) /\ Len(b) = n /\ f \in Seq(X) /\ \A i \in 1..n : b[i] = F[s[i]]
  <2>1. b \in Seq(Seq(X)) /\ Len(b) = n
    BY EachType
  <2>2. \A i \in 1..n : b[i] = F[s[i]]
    BY DEF Each
  <2>3. f \in Seq(X)
    BY DEF Maps
  <2> QED
    BY <2>1, <2>2, <2>3
<1> HIDE DEF c, b, f
<1>3. /\ r \in Seq(Seq(X)) /\ Len(r) = n + 1
      /\ (\A i \in 1..n : r[i + 1] = b[i]) /\ r[1] = f
  <2>1. r \in Seq(Seq(X)) /\ Len(r) = n + 1 /\ r[1] = f
    BY <1>2, ConsFacts
  <2>2. \A i \in 1..n : r[i + 1] = b[i]
    BY <1>2, ConsAt
  <2> QED
    BY <2>1, <2>2
<1>4. l \in Seq(Seq(X)) /\ Len(l) = n + 1 /\ \A i \in 1..(n + 1) : l[i] = F[c[i]]
  <2>1. l \in Seq(Seq(X)) /\ Len(l) = n + 1
    BY <1>1, EachType
  <2>2. \A i \in 1..(n + 1) : l[i] = F[c[i]]
    BY <1>1 DEF Each
  <2> QED
    BY <2>1, <2>2
<1> HIDE DEF r, l, n
<1>5. ASSUME NEW i \in 1..(n + 1) PROVE l[i] = r[i]
  <2>1. CASE i = 1
    BY <1>1, <1>3, <1>4, <2>1 DEF f
  <2>2. CASE i # 1
    <3>1. PICK j \in 1..n : i = j + 1
      <4>1. i - 1 \in 1..n /\ i = (i - 1) + 1
        BY <1>0, <2>2
      <4> QED
        BY <4>1
    <3>2. l[i] = F[c[j + 1]] /\ r[i] = b[j]
      BY <1>3, <1>4, <3>1
    <3> QED
      BY <1>1, <1>2, <3>2
  <2> QED
    BY <2>1, <2>2
<1>6. l = r
  BY <1>3, <1>4, <1>5, SeqEqual
<1> DEFINE o == <<f>>
<1>7. o \in Seq(Seq(X)) /\ o = Append(<<>>, f) /\ r = o \o b
  BY <1>2 DEF r, Cons
<1> HIDE DEF o
<1>8. FlattenSeq(o \o b) = FlattenSeq(o) \o FlattenSeq(b)
  BY <1>2, <1>7, FlattenConcat
<1>9. FlattenSeq(o) = f
  <2>1. FlattenSeq(Append(<<>>, f)) = FlattenSeq(<<>>) \o f
    BY <1>2, EmptySeq, FlattenAppend
  <2>2. <<>> \o f = f
    BY <1>2, ConcatEmptySeq
  <2> QED
    BY <1>7, <2>1, <2>2, FlattenEmpty
<1> QED
  BY <1>6, <1>7, <1>8, <1>9 DEF Flat, Cat, l, b, c, f
=============================================================================
