------------------------------ MODULE ReaderProofs -----------------------------
(***************************************************************************)
(* Proofs about the programs that read files and cut texts.                *)
(*                                                                         *)
(* The master's loops choose a site and read a batch as the operators of   *)
(* Master say, and what it sends of a batch is what the slave grabs        *)
(* (SiteReader, Wire).  The information extraction takes from a page the   *)
(* texts between its tags and writes one row for each that names a value,  *)
(* once in each run (Analyser, Wire).  For any files, texts and cursors.   *)
(***************************************************************************)
EXTENDS SiteReader, Analyser, FiniteSetTheorems, SequenceTheorems, TLAPS

-------------------------------------------------------------------------------
(* Numbers.                                                                *)

\* A set of numbers has a least element.
LEMMA LeastExists ==
  ASSUME NEW S \in SUBSET Nat, S # {}
  PROVE  \E x \in S : \A y \in S : x <= y
<1> DEFINE below(x) == 0..x
           T == {below(x) : x \in S}
<1>1. T \subseteq FiniteSubsetsOf(Nat) /\ T # {}
  <2>1. \A x \in S : IsFiniteSet(below(x)) /\ below(x) \in SUBSET Nat
    BY FS_Interval
  <2> HIDE DEF below
  <2> QED BY <2>1 DEF FiniteSubsetsOf
<1>2. IsWellFoundedOn(StrictSubsetOrdering(Nat), FiniteSubsetsOf(Nat))
  BY FS_StrictSubsetOrderingWellFounded
<1>3. PICK t \in T : \A u \in T : <<u, t>> \notin StrictSubsetOrdering(Nat)
  <2> HIDE DEF T
  <2> QED BY <1>1, <1>2, WFMin, Zenon
<1>4. PICK x \in S : t = below(x)
  BY <1>3
<1>5. ASSUME NEW y \in S, ~(x <= y)
      PROVE  FALSE
  <2>1. below(y) \subseteq below(x) /\ x \in below(x) /\ x \notin below(y)
    BY <1>5
  <2>2. below(y) \in SUBSET Nat /\ below(x) \in SUBSET Nat
    OBVIOUS
  <2>3. <<below(y), below(x)>> \in StrictSubsetOrdering(Nat)
    <3> HIDE DEF below
    <3> QED BY <2>1, <2>2 DEF StrictSubsetOrdering
  <2> QED BY <1>3, <1>4, <2>3
<1> QED BY <1>5

\* Min, from a least element.
LEMMA MinIs ==
  ASSUME NEW S \in SUBSET Nat, NEW m \in S, \A y \in S : m <= y
  PROVE  Min(S) = m
<1>1. Min(S) \in S /\ \A y \in S : Min(S) <= y
  BY DEF Min
<1>2. Min(S) <= m /\ m <= Min(S) /\ m \in Nat /\ Min(S) \in Nat
  BY <1>1
<1> QED BY <1>2

\* Induction over a set of numbers.
LEMMA AllOfNat ==
  ASSUME NEW T \in SUBSET Nat, 0 \in T, \A n \in T : n + 1 \in T
  PROVE  T = Nat
<1> SUFFICES ASSUME T # Nat PROVE FALSE
  OBVIOUS
<1>1. (Nat \ T) \in SUBSET Nat /\ Nat \ T # {}
  OBVIOUS
<1>2. PICK x \in Nat \ T : \A y \in Nat \ T : x <= y
  BY <1>1, LeastExists
<1>3. x # 0 /\ x - 1 \in Nat /\ ~(x <= x - 1)
  BY <1>2
<1>4. x - 1 \in T
  BY <1>2, <1>3
<1>5. (x - 1) + 1 \in T
  BY <1>4
<1> QED BY <1>2, <1>5

\* FirstOf (find_first_of), from where the first of the characters stands ...
LEMMA FirstIs ==
  ASSUME NEW str, Len(str) \in Nat, NEW chars, NEW p \in 1..Len(str),
         str[p] \in chars, \A q \in 1..(p - 1) : str[q] \notin chars
  PROVE  FirstOf(str, chars) = p
<1> DEFINE I == {i \in 1..Len(str) : str[i] \in chars}
<1>1. I \in SUBSET Nat /\ p \in I
  OBVIOUS
<1>2. \A y \in I : p <= y
  OBVIOUS
<1>3. Min(I) = p
  BY <1>1, <1>2, MinIs
<1> QED BY <1>1, <1>3 DEF FirstOf, SelectInSeq

\* ... from that there is none, ...
LEMMA FirstIsNone ==
  ASSUME NEW str, NEW chars, \A q \in 1..Len(str) : str[q] \notin chars
  PROVE  FirstOf(str, chars) = 0
BY DEF FirstOf, SelectInSeq

\* ... and what a place that was found is.
LEMMA FirstIsSome ==
  ASSUME NEW str, Len(str) \in Nat, NEW chars, FirstOf(str, chars) # 0
  PROVE  LET p == FirstOf(str, chars) IN
         p \in 1..Len(str) /\ str[p] \in chars
           /\ \A q \in 1..(p - 1) : str[q] \notin chars
<1> DEFINE I == {i \in 1..Len(str) : str[i] \in chars}
<1>1. I # {} /\ FirstOf(str, chars) = Min(I)
  BY DEF FirstOf, SelectInSeq
<1>2. PICK p \in I : \A y \in I : p <= y
  <2>1. I \in SUBSET Nat
    OBVIOUS
  <2> HIDE DEF I
  <2> QED BY <1>1, <2>1, LeastExists
<1>3. Min(I) = p
  BY <1>2, MinIs
<1>4. \A q \in 1..(p - 1) : q \in 1..Len(str) /\ ~(p <= q)
  OBVIOUS
<1>5. \A q \in 1..(p - 1) : str[q] \notin chars
  BY <1>2, <1>4
<1>6. FirstOf(str, chars) = p
  BY <1>1, <1>3
<1> QED BY <1>5, <1>6

\* No place is found only if none of the characters is there.
LEMMA FirstIsZero ==
  ASSUME NEW str, Len(str) \in Nat, NEW chars, FirstOf(str, chars) = 0,
         NEW q \in 1..Len(str), str[q] \in chars
  PROVE  FALSE
<1> DEFINE I == {i \in 1..Len(str) : str[i] \in chars}
<1>1. FirstOf(str, chars) = Min(I) /\ I # {} /\ I \in SUBSET Nat
  BY DEF FirstOf, SelectInSeq
<1>2. PICK p \in I : \A y \in I : p <= y
  <2> HIDE DEF I
  <2> QED BY <1>1, LeastExists
<1>3. Min(I) = p
  BY <1>2, MinIs
<1> QED BY <1>1, <1>2, <1>3

-------------------------------------------------------------------------------

\* Places in a text, from the first to the last.
Rising(b, n) == b \in [1..n -> Nat] /\ \A i, j \in 1..n : i < j => b[i] < b[j]
Places(b, n) == {b[i] : i \in 1..n}

\* The elements of an increasing sequence are counted by their places.
LEMMA PlacesCount ==
  ASSUME NEW n \in Nat, NEW b, Rising(b, n), NEW k \in 0..n
  PROVE  Cardinality(Places(b, k)) = k
<1> USE DEF Rising
<1> DEFINE S == {b[i] : i \in 1..k}
           f == [i \in 1..k |-> b[i]]
<1>1. f \in [1..k -> S] /\ \A s \in S : \E i \in 1..k : f[i] = s
  OBVIOUS
<1>2. ASSUME NEW i \in 1..k, NEW j \in 1..k, f[i] = f[j]
      PROVE  i = j
  <2>1. i \in 1..n /\ j \in 1..n /\ b[i] = b[j] /\ b[i] \in Nat /\ b[j] \in Nat
    BY <1>2
  <2>2. ~(i < j) /\ ~(j < i)
    BY <2>1
  <2> QED BY <2>1, <2>2
<1>3. f \in Bijection(1..k, S)
  <2> HIDE DEF f, S
  <2>1. DOMAIN f = 1..k
    BY <1>1
  <2> QED BY <1>1, <1>2, <2>1
          DEF Bijection, Injection, Surjection, IsInjective
<1>4. ExistsBijection(1..k, S) /\ k \in Nat
  <2>1. k \in Nat
    OBVIOUS
  <2> HIDE DEF f, S
  <2>2. Bijection(1..k, S) # {}
    BY <1>3
  <2> QED BY <2>1, <2>2 DEF ExistsBijection
<1>5. Cardinality(S) = k
  <2> HIDE DEF S
  <2> QED BY <1>4, FS_CountingElements
<1> QED BY <1>5 DEF Places

\* The k-th of the elements of an increasing sequence.
LEMMA NthIs ==
  ASSUME NEW n \in Nat, NEW b, Rising(b, n), NEW k \in 1..n
  PROVE  Nth(Places(b, n), k) = b[k]
<1> DEFINE B == Places(b, n)
<1>1. ASSUME NEW j \in 1..n
      PROVE  {c \in B : c <= b[j]} = Places(b, j)
  <2> USE DEF Rising, Places
  <2>1. ASSUME NEW i \in 1..n
        PROVE  b[i] <= b[j] <=> i <= j
    <3>1. b[i] \in Nat /\ b[j] \in Nat
      OBVIOUS
    <3>2. (i < j => b[i] < b[j]) /\ (j < i => b[j] < b[i])
      OBVIOUS
    <3> QED BY <3>1, <3>2
  <2>2. 1..j = {i \in 1..n : i <= j}
    OBVIOUS
  <2> QED BY <2>1, <2>2
<1>2. \A j \in 1..n : Cardinality({c \in B : c <= b[j]}) = j
  <2>1. \A j \in 1..n : j \in 0..n
    OBVIOUS
  <2> QED BY <1>1, <2>1, PlacesCount
<1> DEFINE P(x) == Cardinality({c \in B : c <= x}) = k
<1>3. b[k] \in B /\ P(b[k])
  BY <1>2 DEF Places
<1>4. \A x \in B : P(x) => x = b[k]
  <2>1. SUFFICES ASSUME NEW j \in 1..n, P(b[j]) PROVE j = k
    BY DEF Places
  <2> QED BY <1>2, <2>1
<1> HIDE DEF P
<1>5. (CHOOSE x \in B : P(x)) = b[k]
  BY <1>3, <1>4
<1> QED BY <1>5 DEF P, Nth

\* b[k] and e[k] are where the k-th piece begins and where it has ended.
Spans(src, separator, n, b, e) ==
  /\ e \in [1..n -> Nat]
  /\ \A k \in 1..n :
       /\ b[k] <= e[k] /\ e[k] <= Len(src) + 1
       /\ \A q \in b[k]..(e[k] - 1) : src[q] \notin separator
       /\ e[k] = Len(src) + 1 \/ src[e[k]] \in separator

\* What Pieces returns, from the places where the pieces begin and end.
LEMMA PiecesAre ==
  ASSUME NEW src, Len(src) \in Nat, NEW separator,
         NEW n \in Nat, NEW b, Rising(b, n), NEW e, Spans(src, separator, n, b, e),
         NEW begins, begins = Places(b, n)
  PROVE  Pieces(src, separator, begins) = [k \in 1..n |-> SubSeq(src, b[k], e[k] - 1)]
<1> DEFINE ends(x) == {i \in x..Len(src) : src[i] \in separator} \cup {Len(src) + 1}
<1>1. \A k \in 1..n : Nth(begins, k) = b[k]
  BY NthIs
<1>2. Cardinality(begins) = n
  <2>1. n \in 0..n
    OBVIOUS
  <2> QED BY <2>1, PlacesCount, Zenon
<1>3. ASSUME NEW k \in 1..n
      PROVE  Min(ends(b[k])) = e[k]
  <2> USE DEF Spans
  <2>1. b[k] \in Nat /\ e[k] \in Nat
    BY DEF Rising
  <2>2. ends(b[k]) \in SUBSET Nat /\ e[k] \in ends(b[k])
    BY <2>1
  <2>3. \A y \in ends(b[k]) : e[k] <= y
    <3>1. SUFFICES ASSUME NEW y \in b[k]..Len(src), src[y] \in separator
                   PROVE  e[k] <= y
      BY <2>1
    <3>2. y \notin b[k]..(e[k] - 1)
      BY <3>1
    <3> QED BY <2>1, <3>2
  <2> HIDE DEF ends
  <2> QED BY <2>2, <2>3, MinIs
<1> HIDE DEF ends
<1>4. Pieces(src, separator, begins)
        = [k \in 1..Cardinality(begins) |->
             SubSeq(src, Nth(begins, k), Min(ends(Nth(begins, k))) - 1)]
  BY DEF Pieces, ends
<1>5. \A k \in 1..n : SubSeq(src, Nth(begins, k), Min(ends(Nth(begins, k))) - 1)
                        = SubSeq(src, b[k], e[k] - 1)
  BY <1>1, <1>3
<1> QED BY <1>2, <1>4, <1>5

-------------------------------------------------------------------------------

\* FlattenSeq of ss is the last of its joined beginnings g ...
LEMMA FlattenIs ==
  ASSUME NEW S, NEW ss \in Seq(Seq(S)), NEW g \in [0..Len(ss) -> Seq(S)],
         g[0] = <<>>, \A i \in 1..Len(ss) : g[i] = g[i - 1] \o ss[i]
  PROVE  FlattenSeq(ss) = g[Len(ss)]
<1> DEFINE n == Len(ss)
           Flat(f) == f = [i \in 1..n |-> IF i = 1 THEN ss[i] ELSE f[i - 1] \o ss[i]]
           h == [i \in 1..n |-> g[i]]
<1>0. n \in Nat
  OBVIOUS
<1>1. CASE n = 0
  BY <1>1 DEF FlattenSeq
<1>2. CASE n # 0
  <2>1. Flat(h)
    <3>1. g[1] = ss[1]
      <4>1. 1 \in 1..n /\ 1 - 1 = 0
        BY <1>0, <1>2
      <4>2. g[1] = g[1 - 1] \o ss[1]
        BY <4>1
      <4>3. ss[1] \in Seq(S)
        BY <4>1, ElementOfSeq
      <4> QED BY <4>1, <4>2, <4>3, ConcatEmptySeq
    <3>2. \A i \in 1..n : i # 1 => i - 1 \in 1..n
      BY <1>0
    <3> QED BY <3>1, <3>2
  <2> DEFINE f == CHOOSE f : Flat(f)
  <2>2. Flat(f)
    <3> HIDE DEF Flat, h
    <3> QED BY <2>1
  <2>3. FlattenSeq(ss) = f[n]
    BY <1>2 DEF FlattenSeq
  <2> DEFINE T == {i \in Nat : i + 1 \in 1..n => f[i + 1] = g[i + 1]}
  <2>4. \A i \in 1..n : f[i] = IF i = 1 THEN ss[i] ELSE f[i - 1] \o ss[i]
    <3> HIDE DEF f
    <3> QED BY <2>2
  <2> HIDE DEF f
  <2>5. T = Nat
    <3>1. 0 \in T
      <4>1. 1 \in 1..n
        BY <1>0, <1>2
      <4>2. h[1] = ss[1]
        <5> HIDE DEF h
        <5> QED BY <2>1, <4>1
      <4>3. h[1] = g[1] /\ f[1] = ss[1]
        BY <2>4, <4>1
      <4> QED BY <4>2, <4>3
    <3>2. ASSUME NEW i \in T
          PROVE  i + 1 \in T
      <4>1. i \in Nat /\ (i + 1) + 1 # 1 /\ ((i + 1) + 1) - 1 = i + 1
        OBVIOUS
      <4>2. SUFFICES ASSUME (i + 1) + 1 \in 1..n
                     PROVE  f[(i + 1) + 1] = g[(i + 1) + 1]
        BY <4>1
      <4>3. i + 1 \in 1..n
        BY <4>1, <4>2
      <4>4. f[i + 1] = g[i + 1]
        BY <4>3
      <4>5. f[(i + 1) + 1] = f[i + 1] \o ss[(i + 1) + 1]
        BY <2>4, <4>1, <4>2
      <4>6. g[(i + 1) + 1] = g[((i + 1) + 1) - 1] \o ss[(i + 1) + 1]
        BY <4>2
      <4> QED BY <4>1, <4>4, <4>5, <4>6
    <3> HIDE DEF T
    <3>3. T \in SUBSET Nat
      BY DEF T
    <3> QED BY <3>1, <3>2, <3>3, AllOfNat
  <2>6. n - 1 \in Nat /\ (n - 1) + 1 = n /\ n \in 1..n
    BY <1>0, <1>2
  <2>7. n - 1 \in T
    <3> HIDE DEF T, n
    <3> QED BY <2>5, <2>6
  <2> QED BY <2>3, <2>6, <2>7
<1> QED BY <1>1, <1>2

\* ... and there are such.
LEMMA PrefixesExist ==
  ASSUME NEW S, NEW ss \in Seq(Seq(S))
  PROVE  \E g \in [0..Len(ss) -> Seq(S)] :
           g[0] = <<>> /\ \A i \in 1..Len(ss) : g[i] = g[i - 1] \o ss[i]
<1> DEFINE Growing(g, m) ==
             g[0] = <<>> /\ \A i \in 1..m : g[i] = g[i - 1] \o ss[i]
           T == {m \in Nat : m <= Len(ss) =>
                               \E g \in [0..m -> Seq(S)] : Growing(g, m)}
<1>1. 0 \in T
  <2>1. [i \in 0..0 |-> <<>>] \in [0..0 -> Seq(S)]
    OBVIOUS
  <2>2. Growing([i \in 0..0 |-> <<>>], 0)
    OBVIOUS
  <2> HIDE DEF Growing
  <2> QED BY <2>1, <2>2
<1>2. ASSUME NEW m \in T
      PROVE  m + 1 \in T
  <2>0. m \in Nat /\ m + 1 \in Nat
    OBVIOUS
  <2>1. SUFFICES ASSUME m + 1 <= Len(ss)
                 PROVE  \E g \in [0..(m + 1) -> Seq(S)] : Growing(g, m + 1)
    <3> HIDE DEF Growing
    <3> QED BY <2>0
  <2>2. m \in Nat /\ m <= Len(ss) /\ Len(ss) \in Nat
    BY <2>1
  <2>3. PICK g \in [0..m -> Seq(S)] : Growing(g, m)
    BY <2>2
  <2> DEFINE h == [i \in 0..(m + 1) |-> IF i = m + 1 THEN g[m] \o ss[m + 1] ELSE g[i]]
  <2>4. ss[m + 1] \in Seq(S) /\ g[m] \in Seq(S)
    BY <2>1, <2>2
  <2>5. \A i \in 0..(m + 1) : i = m + 1 \/ i \in 0..m
    BY <2>2
  <2>6. h \in [0..(m + 1) -> Seq(S)]
    BY <2>4, <2>5
  <2>7. Growing(h, m + 1)
    <3>1. h[0] = <<>> /\ \A i \in 0..m : h[i] = g[i]
      BY <2>2, <2>3
    <3>2. h[m + 1] = g[m] \o ss[m + 1]
      BY <2>2
    <3>3. \A i \in 1..m : h[i] = h[i - 1] \o ss[i]
      <4>1. \A i \in 1..m : i \in 0..m /\ i - 1 \in 0..m
        BY <2>2
      <4> HIDE DEF h
      <4> QED BY <2>3, <3>1, <4>1
    <3>4. (m + 1) - 1 = m /\ m \in 0..m /\ \A i \in 1..(m + 1) : i \in 1..m \/ i = m + 1
      BY <2>2
    <3> HIDE DEF h
    <3> QED BY <3>1, <3>2, <3>3, <3>4
  <2> HIDE DEF h, Growing
  <2> QED BY <2>6, <2>7
<1>3. T = Nat
  <2>1. T \in SUBSET Nat
    OBVIOUS
  <2> HIDE DEF T
  <2> QED BY <1>1, <1>2, <2>1, AllOfNat
<1>4. Len(ss) \in Nat
  OBVIOUS
<1>5. \E g \in [0..Len(ss) -> Seq(S)] : Growing(g, Len(ss))
  <2> HIDE DEF Growing
  <2> QED BY <1>3, <1>4
<1> QED BY <1>5

-------------------------------------------------------------------------------

\* The characters of all texts.  (That a literal is in STRING is nothing the
\* provers know.)
Char == STRING \cup {"GET", "Host", "#", ":", "/", CR, LF, FF, "1", "2", "4", "5",
                     "9", "c", "s", "t", "u", "w"}

\* Where the pieces of a text lie if each of them is followed by tail: off[i]
\* is the place where the i-th and its tail end.
Laid(text, vec, tail, off) ==
  /\ off \in [0..Len(vec) -> Nat] /\ off[0] = 0
  /\ \A i \in 1..Len(vec) :
       /\ off[i] = off[i - 1] + Len(vec[i]) + Len(tail)
       /\ \A q \in 1..Len(vec[i]) : text[off[i - 1] + q] = vec[i][q]
       /\ \A q \in 1..Len(tail) : text[off[i - 1] + Len(vec[i]) + q] = tail[q]

Joined(vec, tail) == FlattenSeq([i \in DOMAIN vec |-> vec[i] \o tail])

\* The characters of a \o b.
LEMMA ConcatAt ==
  ASSUME NEW S, NEW a \in Seq(S), NEW b \in Seq(S)
  PROVE  /\ a \o b \in Seq(S) /\ Len(a \o b) = Len(a) + Len(b)
         /\ \A q \in 1..Len(a) : (a \o b)[q] = a[q]
         /\ \A q \in 1..Len(b) : (a \o b)[Len(a) + q] = b[q]
<1>1. Len(a) \in Nat /\ Len(b) \in Nat
  OBVIOUS
<1>2. /\ \A q \in 1..Len(a) : q \in 1..(Len(a) + Len(b)) /\ q <= Len(a)
      /\ \A q \in 1..Len(b) :
           /\ Len(a) + q \in 1..(Len(a) + Len(b)) /\ ~(Len(a) + q <= Len(a))
           /\ (Len(a) + q) - Len(a) = q
  BY <1>1
<1>3. /\ a \o b \in Seq(S) /\ Len(a \o b) = Len(a) + Len(b)
      /\ \A i \in 1..(Len(a) + Len(b)) :
           (a \o b)[i] = IF i <= Len(a) THEN a[i] ELSE b[i - Len(a)]
  BY ConcatProperties
<1>4. ASSUME NEW q \in 1..Len(b)
      PROVE  (a \o b)[Len(a) + q] = b[q]
  BY <1>2, <1>3
<1> QED BY <1>2, <1>3, <1>4

\* The characters of a text with a piece and its tail behind it.
LEMMA BlockIs ==
  ASSUME NEW S, NEW a \in Seq(S), NEW piece \in Seq(S), NEW tail \in Seq(S)
  PROVE  LET text == a \o (piece \o tail) IN
         /\ Len(text) = Len(a) + Len(piece) + Len(tail)
         /\ \A q \in 1..Len(a) : text[q] = a[q]
         /\ \A q \in 1..Len(piece) : text[Len(a) + q] = piece[q]
         /\ \A q \in 1..Len(tail) : text[Len(a) + Len(piece) + q] = tail[q]
<1> DEFINE block == piece \o tail
<1>1. Len(a) \in Nat /\ Len(piece) \in Nat /\ Len(tail) \in Nat
  OBVIOUS
<1>2. /\ block \in Seq(S) /\ Len(block) = Len(piece) + Len(tail)
      /\ \A q \in 1..Len(piece) : block[q] = piece[q]
      /\ \A q \in 1..Len(tail) : block[Len(piece) + q] = tail[q]
  BY ConcatAt
<1> HIDE DEF block
<1>3. /\ Len(a \o block) = Len(a) + Len(block)
      /\ \A q \in 1..Len(a) : (a \o block)[q] = a[q]
      /\ \A q \in 1..Len(block) : (a \o block)[Len(a) + q] = block[q]
  <2>1. block \in Seq(S)
    BY <1>2
  <2> QED BY <2>1, ConcatAt
<1>4. /\ \A q \in 1..Len(piece) : q \in 1..Len(block)
      /\ \A q \in 1..Len(tail) : /\ Len(piece) + q \in 1..Len(block)
                                 /\ Len(a) + (Len(piece) + q) = Len(a) + Len(piece) + q
      /\ Len(a) + Len(block) = Len(a) + Len(piece) + Len(tail)
  <2>1. Len(block) = Len(piece) + Len(tail)
    BY <1>2
  <2> QED BY <1>1, <2>1
<1>5. \A q \in 1..Len(piece) : (a \o block)[Len(a) + q] = piece[q]
  BY <1>2, <1>3, <1>4
<1>6. ASSUME NEW q \in 1..Len(tail)
      PROVE  (a \o block)[Len(a) + Len(piece) + q] = tail[q]
  <2>1. (a \o block)[Len(a) + (Len(piece) + q)] = block[Len(piece) + q]
    BY <1>3, <1>4
  <2> QED BY <1>2, <1>4, <2>1
<1> QED BY <1>3, <1>4, <1>5, <1>6 DEF block

\* FlattenSeq lays the pieces one behind the other.
LEMMA JoinedIsLaid ==
  ASSUME NEW S, NEW vec \in Seq(Seq(S)), NEW tail \in Seq(S)
  PROVE  /\ Joined(vec, tail) \in Seq(S)
         /\ \E off : /\ Laid(Joined(vec, tail), vec, tail, off)
                     /\ Len(Joined(vec, tail)) = off[Len(vec)]
<1> DEFINE n == Len(vec)
           ss == [i \in DOMAIN vec |-> vec[i] \o tail]
<1>1. n \in Nat /\ DOMAIN vec = 1..n /\ \A i \in 1..n : vec[i] \in Seq(S)
  BY ElementOfSeq
<1>2. \A i \in 1..n : ss[i] = vec[i] \o tail /\ ss[i] \in Seq(S)
  <2> HIDE DEF n
  <2> QED BY <1>1, ConcatProperties
<1>3. ss \in Seq(Seq(S)) /\ Len(ss) = n
  <2>1. ss = [i \in 1..n |-> ss[i]]
    BY <1>1
  <2> HIDE DEF ss
  <2> QED BY <1>1, <1>2, <2>1, IsASeq
<1>4. Joined(vec, tail) = FlattenSeq(ss)
  BY DEF Joined
<1> HIDE DEF ss
<1>5. PICK g \in [0..n -> Seq(S)] :
         g[0] = <<>> /\ \A i \in 1..n : g[i] = g[i - 1] \o ss[i]
  <2>1. \E g \in [0..Len(ss) -> Seq(S)] :
          g[0] = <<>> /\ \A i \in 1..Len(ss) : g[i] = g[i - 1] \o ss[i]
    BY <1>3, PrefixesExist, Zenon
  <2> QED BY <1>3, <2>1
<1>6. Joined(vec, tail) = g[n]
  BY <1>3, <1>4, <1>5, FlattenIs
<1> DEFINE off == [i \in 0..n |-> Len(g[i])]
<1> HIDE DEF n
<1>7. off \in [0..n -> Nat] /\ off[0] = 0 /\ Len(g[n]) = off[n]
  BY <1>1, <1>5
<1>8. ASSUME NEW i \in 1..n
      PROVE  /\ i - 1 \in 0..n /\ i \in 0..n
             /\ off[i] = off[i - 1] + Len(vec[i]) + Len(tail)
             /\ \A q \in 1..off[i - 1] : g[i][q] = g[i - 1][q]
             /\ \A q \in 1..Len(vec[i]) : g[i][off[i - 1] + q] = vec[i][q]
             /\ \A q \in 1..Len(tail) : g[i][off[i - 1] + Len(vec[i]) + q] = tail[q]
  <2>1. i - 1 \in 0..n /\ i \in 0..n
    BY <1>1
  <2>2. g[i - 1] \in Seq(S) /\ vec[i] \in Seq(S)
        /\ g[i] = g[i - 1] \o (vec[i] \o tail)
    BY <1>1, <1>2, <1>5, <2>1
  <2>3. off[i] = Len(g[i]) /\ off[i - 1] = Len(g[i - 1])
    BY <2>1
  <2> HIDE DEF off
  <2> DEFINE a == g[i - 1]
             piece == vec[i]
  <2>4. /\ Len(g[i]) = Len(g[i - 1]) + Len(vec[i]) + Len(tail)
        /\ \A q \in 1..Len(g[i - 1]) : g[i][q] = g[i - 1][q]
        /\ \A q \in 1..Len(vec[i]) : g[i][Len(g[i - 1]) + q] = vec[i][q]
        /\ \A q \in 1..Len(tail) : g[i][Len(g[i - 1]) + Len(vec[i]) + q] = tail[q]
    <3>1. a \in Seq(S) /\ piece \in Seq(S) /\ g[i] = a \o (piece \o tail)
      BY <2>2
    <3> HIDE DEF a, piece
    <3>2. /\ Len(g[i]) = Len(a) + Len(piece) + Len(tail)
          /\ \A q \in 1..Len(a) : g[i][q] = a[q]
          /\ \A q \in 1..Len(piece) : g[i][Len(a) + q] = piece[q]
          /\ \A q \in 1..Len(tail) : g[i][Len(a) + Len(piece) + q] = tail[q]
      BY <3>1, BlockIs
    <3> QED BY <3>2 DEF a, piece
  <2> QED BY <2>1, <2>3, <2>4
<1> HIDE DEF off
<1>9. /\ \A i \in 0..n : off[i] \in Nat
      /\ \A i \in 1..n : /\ i - 1 \in 0..n /\ i \in 0..n /\ Len(vec[i]) \in Nat
                         /\ off[i] = off[i - 1] + Len(vec[i]) + Len(tail)
      /\ Len(tail) \in Nat
  <2>1. \A i \in 0..n : off[i] \in Nat
    BY <1>7
  <2>2. \A i \in 1..n : Len(vec[i]) \in Nat
    BY <1>1
  <2> QED BY <1>8, <2>1, <2>2
<1>10. \A i \in 1..n : \A q \in 1..off[i - 1] : g[i][q] = g[i - 1][q]
  BY <1>8
<1> DEFINE Same(i, m) == off[i] <= off[m] /\ \A p \in 1..off[i] : g[m][p] = g[i][p]
           T == {m \in Nat : m <= n => \A i \in 0..m : Same(i, m)}
<1>11. T = Nat
  <2>1. 0 \in T
    BY <1>7
  <2>2. ASSUME NEW m \in T
        PROVE  m + 1 \in T
    <3>1. m \in Nat /\ m + 1 \in Nat
      OBVIOUS
    <3>2. SUFFICES ASSUME m + 1 <= n, NEW i \in 0..(m + 1) PROVE Same(i, m + 1)
      <4> HIDE DEF Same
      <4> QED BY <3>1
    <3>3. m + 1 \in 0..n /\ m + 1 \in 1..n /\ (m + 1) - 1 = m /\ m \in 0..n
      BY <1>1, <3>1, <3>2
    <3>4. CASE i = m + 1
      <4>1. off[m + 1] \in Nat
        BY <1>9, <3>3
      <4> QED BY <3>4, <4>1
    <3>5. CASE i # m + 1
      <4>1. i \in 0..m /\ m <= n /\ i \in 0..n
        BY <1>1, <3>1, <3>2, <3>5
      <4>2. Same(i, m)
        <5> HIDE DEF Same
        <5> QED BY <4>1
      <4>3. off[m + 1] = off[m] + Len(vec[m + 1]) + Len(tail)
            /\ Len(vec[m + 1]) \in Nat /\ Len(tail) \in Nat
        BY <1>9, <3>3
      <4>4. \A q \in 1..off[m] : g[m + 1][q] = g[m][q]
        BY <1>10, <3>3
      <4>5. off[i] \in Nat /\ off[m] \in Nat
        BY <1>9, <3>3, <4>1
      <4>6. off[i] <= off[m + 1] /\ \A p \in 1..off[i] : p \in 1..off[m]
        BY <4>2, <4>3, <4>5, SMTT(30)
      <4> QED BY <4>2, <4>4, <4>6
    <3> QED BY <3>4, <3>5
  <2>3. T \in SUBSET Nat
    OBVIOUS
  <2> HIDE DEF T
  <2> QED BY <2>1, <2>2, <2>3, AllOfNat
<1>12. ASSUME NEW i \in 0..n, NEW p \in 1..off[i]
       PROVE  g[n][p] = g[i][p]
  <2>1. n \in T
    BY <1>1, <1>11
  <2>2. Same(i, n)
    <3> HIDE DEF Same
    <3> QED BY <1>1, <2>1
  <2> QED BY <2>2
<1>13. ASSUME NEW i \in 1..n
       PROVE  /\ \A q \in 1..Len(vec[i]) : g[n][off[i - 1] + q] = vec[i][q]
              /\ \A q \in 1..Len(tail) : g[n][off[i - 1] + Len(vec[i]) + q] = tail[q]
  <2>1. /\ off[i] \in Nat /\ off[i - 1] \in Nat /\ Len(vec[i]) \in Nat
        /\ Len(tail) \in Nat /\ off[i] = off[i - 1] + Len(vec[i]) + Len(tail)
        /\ i \in 0..n
    BY <1>9
  <2>2. \A q \in 1..Len(tail) : off[i - 1] + Len(vec[i]) + q \in 1..off[i]
    BY <2>1, SMTT(30)
  <2>3. \A q \in 1..Len(vec[i]) : off[i - 1] + q \in 1..off[i]
    BY <2>1, SMTT(30)
  <2>4. \A q \in 1..Len(vec[i]) : g[n][off[i - 1] + q] = g[i][off[i - 1] + q]
    BY <1>12, <2>1, <2>3
  <2>5. \A q \in 1..Len(tail) : g[n][off[i - 1] + Len(vec[i]) + q]
                                  = g[i][off[i - 1] + Len(vec[i]) + q]
    BY <1>12, <2>1, <2>2
  <2> QED BY <1>8, <2>4, <2>5
<1>14. Laid(g[n], vec, tail, off)
  BY <1>7, <1>9, <1>13 DEF Laid, n
<1>15. n \in 0..n /\ g[n] \in Seq(S)
  BY <1>1, <1>5
<1> QED BY <1>6, <1>7, <1>14, <1>15 DEF n

\* Places that rise from each piece to the next rise over all of them.
LEMMA OffsetsRise ==
  ASSUME NEW n \in Nat, NEW off \in [0..n -> Nat],
         \A i \in 1..n : off[i - 1] < off[i]
  PROVE  \A j \in 0..n : \A i \in 0..n : i <= j => off[i] <= off[j]
<1> DEFINE T == {j \in Nat : j <= n => \A i \in 0..j : off[i] <= off[j]}
<1>1. 0 \in T
  OBVIOUS
<1>2. ASSUME NEW j \in T
      PROVE  j + 1 \in T
  <2>1. SUFFICES ASSUME j + 1 <= n, NEW i \in 0..(j + 1)
                 PROVE  off[i] <= off[j + 1]
    OBVIOUS
  <2>2. j + 1 \in 0..n /\ j + 1 \in 1..n /\ (j + 1) - 1 = j /\ j \in 0..n /\ i \in 0..n
    BY <2>1
  <2>3. off[i] \in Nat /\ off[j] \in Nat /\ off[j + 1] \in Nat
    BY <2>2
  <2>4. off[j] < off[j + 1]
    BY <2>2
  <2>5. CASE i = j + 1
    BY <2>3, <2>5
  <2>6. CASE i # j + 1
    <3>1. i \in 0..j /\ j <= n
      BY <2>2, <2>6
    <3>2. off[i] <= off[j]
      BY <3>1
    <3> QED BY <2>3, <2>4, <3>2
  <2> QED BY <2>5, <2>6
<1>3. T = Nat
  <2>1. T \in SUBSET Nat
    OBVIOUS
  <2> HIDE DEF T
  <2> QED BY <1>1, <1>2, <2>1, AllOfNat
<1>4. ASSUME NEW j \in 0..n, NEW i \in 0..n, i <= j
      PROVE  off[i] <= off[j]
  <2>1. j \in Nat /\ j <= n /\ i \in 0..j
    BY <1>4
  <2>2. j \in T
    <3> HIDE DEF T
    <3> QED BY <1>3, <2>1
  <2> QED BY <2>1, <2>2
<1> QED BY <1>4

\* The pieces of a text: the i-th has len[i] characters that are no separators,
\* and separators behind it up to off[i].
Piecewise(text, sep, n, off, len) ==
  /\ off \in [0..n -> Nat] /\ len \in [1..n -> Nat \ {0}]
  /\ off[0] = 0 /\ off[n] <= Len(text)
  /\ \A i \in 1..n : off[i - 1] + len[i] < off[i]
  /\ \A i \in 1..n : \A p \in (off[i - 1] + 1)..(off[i - 1] + len[i]) : text[p] \notin sep
  /\ \A i \in 1..n : \A p \in (off[i - 1] + len[i] + 1)..off[i] : text[p] \in sep
  /\ \A p \in (off[n] + 1)..Len(text) : text[p] \in sep

\* split and split_line cut such a text at the pieces.
LEMMA PiecewiseIsCut ==
  ASSUME NEW n \in Nat \ {0}, NEW text, Len(text) \in Nat, NEW sep, NEW off, NEW len,
         Piecewise(text, sep, n, off, len)
  PROVE  LET vec == [k \in 1..n |-> SubSeq(text, off[k - 1] + 1, off[k - 1] + len[k])]
         IN Split(text, sep) = vec /\ Pieces(text, sep, Begins(text, sep)) = vec
<1> DEFINE b == [i \in 1..n |-> off[i - 1] + 1]
           e == [i \in 1..n |-> off[i - 1] + len[i] + 1]
<1>1. off \in [0..n -> Nat] /\ off[0] = 0 /\ off[n] <= Len(text) /\ n \in 0..n
  BY DEF Piecewise
<1>2. \A i \in 1..n : /\ i - 1 \in 0..n /\ i \in 0..n
                      /\ off[i] \in Nat /\ off[i - 1] \in Nat
                      /\ len[i] \in Nat /\ len[i] > 0
                      /\ off[i - 1] + len[i] < off[i]
  <2>1. \A i \in 1..n : i - 1 \in 0..n /\ i \in 0..n
    OBVIOUS
  <2>2. \A i \in 1..n : len[i] \in Nat /\ len[i] > 0
    BY DEF Piecewise
  <2>3. \A i \in 1..n : off[i - 1] + len[i] < off[i]
    BY DEF Piecewise
  <2> QED BY <1>1, <2>1, <2>2, <2>3
<1>3. ASSUME NEW i \in 1..n, NEW p \in (off[i - 1] + 1)..(off[i - 1] + len[i])
      PROVE  text[p] \notin sep
  BY DEF Piecewise
<1>4. ASSUME NEW i \in 1..n, NEW p \in (off[i - 1] + len[i] + 1)..off[i]
      PROVE  text[p] \in sep
  BY DEF Piecewise
<1>5. ASSUME NEW p \in (off[n] + 1)..Len(text)
      PROVE  text[p] \in sep
  BY DEF Piecewise
<1>6. \A i \in 1..n : off[i - 1] < off[i]
  BY <1>2
<1>7. \A j \in 0..n : \A i \in 0..n : i <= j => off[i] <= off[j]
  BY <1>1, <1>6, OffsetsRise
<1>8. \A i \in 1..n : off[i] <= Len(text)
  <2> TAKE i \in 1..n
  <2>1. off[i] <= off[n] /\ off[i] \in Nat /\ off[n] \in Nat
    BY <1>1, <1>2, <1>7
  <2> QED BY <1>1, <2>1
<1>9. Rising(b, n)
  <2>1. b \in [1..n -> Nat]
    BY <1>2
  <2>2. ASSUME NEW i \in 1..n, NEW j \in 1..n, i < j
        PROVE  b[i] < b[j]
    <3>1. i \in 0..n /\ j - 1 \in 0..n /\ i <= j - 1
      BY <2>2
    <3>2. off[i] <= off[j - 1] /\ off[i - 1] < off[i]
      BY <1>6, <1>7, <3>1
    <3>3. off[i] \in Nat /\ off[j - 1] \in Nat /\ off[i - 1] \in Nat
      BY <1>2
    <3> QED BY <3>2, <3>3
  <2> QED BY <2>1, <2>2 DEF Rising
<1>10. ASSUME NEW i \in 1..n
       PROVE  b[i] \in Begins(text, sep)
  <2>1. /\ off[i] \in Nat /\ off[i - 1] \in Nat /\ off[i] <= Len(text)
        /\ len[i] \in Nat /\ len[i] > 0 /\ off[i - 1] + len[i] < off[i]
    BY <1>2, <1>8
  <2>2. b[i] \in 1..Len(text) /\ b[i] \in (off[i - 1] + 1)..(off[i - 1] + len[i])
    BY <2>1
  <2>3. text[b[i]] \notin sep
    BY <1>3, <2>2
  <2>4. CASE i = 1
    BY <1>1, <2>2, <2>3, <2>4 DEF Begins
  <2>5. CASE i # 1
    <3> DEFINE h == i - 1
    <3>1. h \in 1..n /\ off[h] \in Nat
      BY <2>1, <2>5
    <3>2. off[h] \in (off[h - 1] + len[h] + 1)..off[h]
      <4>1. off[h - 1] \in Nat /\ len[h] \in Nat /\ off[h - 1] + len[h] < off[h]
        BY <1>2, <3>1
      <4> QED BY <3>1, <4>1
    <3>3. text[off[h]] \in sep
      BY <1>4, <3>1, <3>2
    <3>4. b[i] - 1 = off[h]
      BY <2>1
    <3> QED BY <2>2, <2>3, <3>3, <3>4 DEF Begins
  <2> QED BY <2>4, <2>5
<1>11. ASSUME NEW p \in Begins(text, sep)
       PROVE  \E i \in 1..n : p = b[i]
  <2>1. /\ p \in 1..Len(text) /\ text[p] \notin sep
        /\ p = 1 \/ text[p - 1] \in sep
    BY DEF Begins
  <2>2. p <= off[n]
    <3>1. off[n] \in Nat /\ p \in Nat
      BY <1>1, <2>1
    <3>2. p \notin (off[n] + 1)..Len(text)
      BY <1>5, <2>1
    <3> QED BY <2>1, <3>1, <3>2
  <2> DEFINE I == {i \in 0..n : p <= off[i]}
  <2>3. PICK i \in I : \A j \in I : i <= j
    <3>1. I \in SUBSET Nat /\ n \in I
      BY <1>1, <2>2
    <3> HIDE DEF I
    <3> QED BY <3>1, LeastExists
  <2>4. i \in 1..n /\ p <= off[i]
    <3>1. 0 \notin I
      BY <1>1, <2>1
    <3> QED BY <3>1
  <2>5. ~(p <= off[i - 1])
    <3>1. ~(i <= i - 1) /\ i - 1 \in 0..n
      BY <2>4
    <3>2. i - 1 \notin I
      <4> HIDE DEF I
      <4> QED BY <2>3, <3>1
    <3> QED BY <3>1, <3>2
  <2>6. /\ off[i] \in Nat /\ off[i - 1] \in Nat /\ len[i] \in Nat /\ p \in Nat
        /\ off[i - 1] + len[i] < off[i]
    BY <1>2, <2>1, <2>4
  <2>7. p <= off[i - 1] + len[i]
    <3>1. p \notin (off[i - 1] + len[i] + 1)..off[i]
      BY <1>4, <2>1, <2>4
    <3> QED BY <2>4, <2>6, <3>1
  <2>8. p = off[i - 1] + 1
    <3>1. SUFFICES ASSUME p # off[i - 1] + 1 PROVE FALSE
      OBVIOUS
    <3>2. p - 1 \in (off[i - 1] + 1)..(off[i - 1] + len[i]) /\ p # 1
      BY <2>5, <2>6, <2>7, <3>1
    <3>3. text[p - 1] \notin sep
      BY <1>3, <2>4, <3>2
    <3> QED BY <2>1, <3>2, <3>3
  <2> QED BY <2>4, <2>8
<1>12. Begins(text, sep) = Places(b, n)
  <2> HIDE DEF b
  <2> QED BY <1>10, <1>11 DEF Places
<1>13. {1} \cup Begins(text, sep) = Places(b, n)
  <2>1. 1 \in 1..n /\ b[1] = 1
    BY <1>1
  <2> HIDE DEF b
  <2> QED BY <1>12, <2>1 DEF Places
<1>14. \A k \in 1..n :
         /\ b[k] <= e[k] /\ e[k] <= Len(text) + 1
         /\ \A q \in b[k]..(e[k] - 1) : text[q] \notin sep
         /\ e[k] = Len(text) + 1 \/ text[e[k]] \in sep
  <2> TAKE k \in 1..n
  <2>1. /\ off[k] \in Nat /\ off[k - 1] \in Nat /\ off[k] <= Len(text)
        /\ len[k] \in Nat /\ len[k] > 0 /\ off[k - 1] + len[k] < off[k]
    BY <1>2, <1>8
  <2>2. /\ b[k] = off[k - 1] + 1 /\ e[k] = off[k - 1] + len[k] + 1
        /\ e[k] - 1 = off[k - 1] + len[k]
    BY <2>1
  <2> HIDE DEF b, e
  <2>3. b[k] <= e[k] /\ e[k] <= Len(text) + 1
    BY <2>1, <2>2
  <2>4. \A q \in b[k]..(e[k] - 1) : text[q] \notin sep
    BY <1>3, <2>2
  <2>5. text[e[k]] \in sep
    <3>1. e[k] \in (off[k - 1] + len[k] + 1)..off[k]
      BY <2>1, <2>2
    <3> QED BY <1>4, <3>1
  <2> QED BY <2>3, <2>4, <2>5
<1>15. e \in [1..n -> Nat]
  BY <1>2
<1>16. \A k \in 1..n : b[k] = off[k - 1] + 1 /\ e[k] - 1 = off[k - 1] + len[k]
  BY <1>2
<1> HIDE DEF b, e
<1>17. Pieces(text, sep, Places(b, n)) = [k \in 1..n |-> SubSeq(text, b[k], e[k] - 1)]
  <2>1. Spans(text, sep, n, b, e)
    BY <1>14, <1>15 DEF Spans
  <2> QED BY <1>9, <2>1, PiecesAre
<1>18. Pieces(text, sep, Places(b, n))
         = [k \in 1..n |-> SubSeq(text, off[k - 1] + 1, off[k - 1] + len[k])]
  BY <1>16, <1>17
<1> QED BY <1>12, <1>13, <1>18 DEF Split

\* Places in a piece of l characters behind o others, in what stands behind it,
\* and before the end of all.
LEMMA InPiece ==
  ASSUME NEW o \in Nat, NEW l \in Nat, NEW p \in (o + 1)..(o + l)
  PROVE  p - o \in 1..l /\ p = o + (p - o)
OBVIOUS

LEMMA BehindPiece ==
  ASSUME NEW o \in Nat, NEW l \in Nat, NEW t \in Nat, NEW p \in (o + l + 1)..(o + l + t)
  PROVE  p - (o + l) \in 1..t /\ p = o + l + (p - (o + l))
OBVIOUS

LEMMA BeforeEnd ==
  ASSUME NEW o \in Nat, NEW l \in Nat, NEW e \in Nat, NEW m \in Nat, NEW n \in Nat,
         o + l < e, e <= m, m <= n
  PROVE  o + l <= n
OBVIOUS

\* What was joined by separators, in whatever number behind each piece, is cut
\* into the same pieces.
Clear(piece, sep) == piece # <<>> /\ \A q \in 1..Len(piece) : piece[q] \notin sep
AllIn(text, from, sep) == \A p \in from..Len(text) : text[p] \in sep

LEMMA CutIsJoined ==
  ASSUME NEW S, NEW vec \in Seq(Seq(S)), vec # <<>>, NEW tail \in Seq(S), tail # <<>>,
         NEW text \in Seq(S), NEW off, Laid(text, vec, tail, off),
         off[Len(vec)] <= Len(text),
         NEW sep, AllIn(tail, 1, sep), AllIn(text, off[Len(vec)] + 1, sep),
         \A i \in 1..Len(vec) : Clear(vec[i], sep)
  PROVE  Split(text, sep) = vec /\ Pieces(text, sep, Begins(text, sep)) = vec
<1> DEFINE n == Len(vec)
           len == [i \in 1..n |-> Len(vec[i])]
<1>1. n \in Nat \ {0} /\ DOMAIN vec = 1..n
  BY EmptySeq
<1>2. Len(text) \in Nat /\ Len(tail) \in Nat \ {0}
  BY EmptySeq
<1>3. ASSUME NEW i \in 1..n
      PROVE  /\ vec[i] \in Seq(S) /\ Len(vec[i]) \in Nat \ {0}
             /\ \A q \in 1..Len(vec[i]) : vec[i][q] \notin sep
  <2>1. vec[i] \in Seq(S)
    BY ElementOfSeq
  <2>2. vec[i] # <<>> /\ \A q \in 1..Len(vec[i]) : vec[i][q] \notin sep
    BY DEF Clear
  <2> QED BY <2>1, <2>2, EmptySeq
<1>4. off \in [0..n -> Nat] /\ off[0] = 0
  BY DEF Laid
<1>5. ASSUME NEW i \in 1..n
      PROVE  /\ off[i] = off[i - 1] + Len(vec[i]) + Len(tail)
             /\ \A q \in 1..Len(vec[i]) : text[off[i - 1] + q] = vec[i][q]
             /\ \A q \in 1..Len(tail) : text[off[i - 1] + Len(vec[i]) + q] \in sep
  BY DEF Laid, AllIn
<1> HIDE DEF n
<1>6. \A i \in 1..n : off[i - 1] \in Nat /\ off[i] \in Nat /\ len[i] = Len(vec[i])
  BY <1>1, <1>4
<1>7. len \in [1..n -> Nat \ {0}]
  BY <1>3
<1> HIDE DEF len
<1>8. ASSUME NEW i \in 1..n
      PROVE  off[i - 1] + len[i] < off[i]
  <2>1. off[i] = off[i - 1] + Len(vec[i]) + Len(tail) /\ Len(vec[i]) \in Nat
    BY <1>3, <1>5
  <2>2. off[i - 1] \in Nat /\ len[i] = Len(vec[i]) /\ Len(tail) \in Nat /\ Len(tail) > 0
    BY <1>2, <1>6
  <2> QED BY <2>1, <2>2
<1>9. ASSUME NEW i \in 1..n, NEW p \in (off[i - 1] + 1)..(off[i - 1] + len[i])
      PROVE  text[p] \notin sep
  <2> DEFINE q == p - off[i - 1]
  <2>0. off[i - 1] \in Nat /\ len[i] = Len(vec[i]) /\ Len(vec[i]) \in Nat
    BY <1>6, <1>7
  <2>1. q \in 1..Len(vec[i]) /\ p = off[i - 1] + q
    BY <2>0, InPiece, Zenon
  <2>2. text[off[i - 1] + q] = vec[i][q]
    BY <1>5, <2>1
  <2>3. vec[i][q] \notin sep
    BY <1>3, <2>1
  <2> QED BY <2>1, <2>2, <2>3
<1>10. ASSUME NEW i \in 1..n, NEW p \in (off[i - 1] + len[i] + 1)..off[i]
       PROVE  text[p] \in sep
  <2>1. /\ off[i - 1] \in Nat /\ Len(vec[i]) \in Nat /\ Len(tail) \in Nat
        /\ len[i] = Len(vec[i]) /\ off[i] = off[i - 1] + Len(vec[i]) + Len(tail)
    <3>1. off[i - 1] \in Nat /\ len[i] = Len(vec[i]) /\ len[i] \in Nat
      BY <1>6, <1>7
    <3>2. off[i] = off[i - 1] + Len(vec[i]) + Len(tail)
      BY <1>5
    <3> QED BY <1>2, <3>1, <3>2
  <2> DEFINE q == p - (off[i - 1] + Len(vec[i]))
  <2>2. q \in 1..Len(tail) /\ p = off[i - 1] + Len(vec[i]) + q
    <3>1. p \in (off[i - 1] + Len(vec[i]) + 1)..(off[i - 1] + Len(vec[i]) + Len(tail))
      BY <2>1, Zenon
    <3> QED BY <2>1, <3>1, BehindPiece, Zenon
  <2> HIDE DEF q
  <2>3. text[off[i - 1] + Len(vec[i]) + q] \in sep
    BY <1>5, <2>2, Zenon
  <2> QED BY <2>2, <2>3, Zenon
<1>11. Piecewise(text, sep, n, off, len)
  BY <1>4, <1>7, <1>8, <1>9, <1>10 DEF Piecewise, AllIn, n
<1>12. ASSUME NEW k \in 1..n
       PROVE  SubSeq(text, off[k - 1] + 1, off[k - 1] + len[k]) = vec[k]
  <2> DEFINE a == off[k - 1]
             l == len[k]
             piece == vec[k]
  <2>1. a \in Nat /\ l \in Nat /\ piece \in Seq(S) /\ Len(piece) = l
        /\ a + l <= Len(text)
    <3>1. off[k] <= off[n]
      <4>1. ASSUME NEW i \in 1..n PROVE off[i - 1] < off[i]
        <5>1. off[i - 1] + len[i] < off[i]
          BY <1>8
        <5>2. off[i - 1] \in Nat /\ off[i] \in Nat /\ len[i] \in Nat \ {0}
          BY <1>6, <1>7
        <5> QED BY <5>1, <5>2
      <4>2. k \in 0..n /\ n \in 0..n /\ k <= n
        BY <1>1
      <4> QED BY <1>1, <1>4, <4>1, <4>2, OffsetsRise
    <3>2. off[n] \in Nat /\ off[n] <= Len(text) /\ off[k] \in Nat
      BY <1>1, <1>4, <1>6 DEF n
    <3>3. a \in Nat /\ l \in Nat /\ piece \in Seq(S) /\ Len(piece) = l /\ a + l < off[k]
      <4>1. a \in Nat /\ l \in Nat /\ Len(piece) = l
        BY <1>6, <1>7
      <4>2. piece \in Seq(S)
        BY <1>3
      <4>3. a + l < off[k]
        BY <1>8
      <4> QED BY <4>1, <4>2, <4>3
    <3>4. a + l <= Len(text)
      BY <1>2, <3>1, <3>2, <3>3, BeforeEnd, Zenon
    <3> QED BY <3>3, <3>4, Zenon
  <2>2. \A q \in 1..l : text[a + q] = piece[q]
    BY <1>5, <1>6
  <2> HIDE DEF a, l, piece
  <2> DEFINE s == SubSeq(text, a + 1, a + l)
  <2>3. s \in Seq(S) /\ Len(s) = l /\ \A q \in 1..l : s[q] = text[a + q]
    BY <1>2, <2>1
  <2> HIDE DEF s
  <2>4. s = piece
    BY <2>1, <2>2, <2>3, SeqEqual
  <2> QED BY <2>4 DEF a, l, piece, s
<1>13. vec = [k \in 1..n |-> SubSeq(text, off[k - 1] + 1, off[k - 1] + len[k])]
  <2>1. vec = [k \in 1..n |-> vec[k]]
    BY <1>1
  <2> QED BY <1>12, <2>1
<1> QED BY <1>1, <1>2, <1>11, <1>13, PiecewiseIsCut

\* What stands behind the text changes no place.
LEMMA LaidInMore ==
  ASSUME NEW S, NEW vec \in Seq(Seq(S)), NEW tail \in Seq(S), NEW text \in Seq(S),
         NEW more \in Seq(S), NEW off, Laid(text, vec, tail, off), Len(text) = off[Len(vec)]
  PROVE  Laid(text \o more, vec, tail, off)
<1> DEFINE n == Len(vec)
<1>1. n \in Nat /\ Len(tail) \in Nat /\ Len(text) \in Nat
  OBVIOUS
<1>2. ASSUME NEW i \in 1..n
      PROVE  Len(vec[i]) \in Nat
  BY ElementOfSeq
<1>3. off \in [0..n -> Nat] /\ off[0] = 0 /\ Len(text) = off[n]
  BY DEF Laid
<1>4. ASSUME NEW i \in 1..n
      PROVE  /\ off[i] = off[i - 1] + Len(vec[i]) + Len(tail)
             /\ \A q \in 1..Len(vec[i]) : text[off[i - 1] + q] = vec[i][q]
             /\ \A q \in 1..Len(tail) : text[off[i - 1] + Len(vec[i]) + q] = tail[q]
  BY DEF Laid
<1>5. \A q \in 1..Len(text) : (text \o more)[q] = text[q]
  BY ConcatAt
<1> HIDE DEF n
<1>6. \A i \in 1..n : off[i - 1] \in Nat /\ off[i] \in Nat
  BY <1>1, <1>3
<1>7. ASSUME NEW i \in 1..n
      PROVE  off[i] <= Len(text)
  <2> DEFINE T == {j \in Nat : i + j <= n => off[i] <= off[i + j]}
  <2>1. 0 \in T
    BY <1>6
  <2>2. ASSUME NEW j \in T
        PROVE  j + 1 \in T
    <3>1. SUFFICES ASSUME i + (j + 1) <= n PROVE off[i] <= off[i + (j + 1)]
      OBVIOUS
    <3>2. i + (j + 1) \in 1..n /\ (i + (j + 1)) - 1 = i + j /\ i + j <= n
      BY <1>1, <3>1
    <3>3. off[i + (j + 1)] = off[i + j] + Len(vec[i + (j + 1)]) + Len(tail)
      BY <1>4, <3>2
    <3>4. off[i + j] \in Nat /\ off[i] \in Nat /\ Len(vec[i + (j + 1)]) \in Nat
      BY <1>2, <1>6, <3>2 DEF n
    <3>5. off[i] <= off[i + j]
      BY <3>2
    <3> QED BY <1>1, <3>3, <3>4, <3>5, SMTT(30)
  <2>3. n - i \in T
    <3>1. T \in SUBSET Nat
      OBVIOUS
    <3>2. n - i \in Nat
      BY <1>1
    <3> HIDE DEF T
    <3> QED BY <2>1, <2>2, <3>1, <3>2, AllOfNat
  <2>4. i + (n - i) = n
    BY <1>1
  <2> QED BY <1>1, <1>3, <2>3, <2>4
<1>8. ASSUME NEW i \in 1..n
      PROVE  /\ \A q \in 1..Len(vec[i]) : off[i - 1] + q \in 1..Len(text)
             /\ \A q \in 1..Len(tail) : off[i - 1] + Len(vec[i]) + q \in 1..Len(text)
  <2>1. /\ off[i - 1] \in Nat /\ Len(vec[i]) \in Nat
        /\ off[i] = off[i - 1] + Len(vec[i]) + Len(tail) /\ off[i] <= Len(text)
    BY <1>2, <1>4, <1>6, <1>7 DEF n
  <2> DEFINE o == off[i - 1]
             l == Len(vec[i])
  <2>2. o + l + Len(tail) <= Len(text) /\ o \in Nat /\ l \in Nat
    BY <2>1
  <2> HIDE DEF o, l
  <2>3. \A q \in 1..l : o + q \in 1..Len(text)
    BY <1>1, <2>2
  <2>4. \A q \in 1..Len(tail) : o + l + q \in 1..Len(text)
    BY <1>1, <2>2
  <2> QED BY <2>3, <2>4 DEF o, l
<1>9. ASSUME NEW i \in 1..n
      PROVE  \A q \in 1..Len(vec[i]) : (text \o more)[off[i - 1] + q] = vec[i][q]
  BY <1>4, <1>5, <1>8
<1>10. ASSUME NEW i \in 1..n
       PROVE  \A q \in 1..Len(tail) :
                (text \o more)[off[i - 1] + Len(vec[i]) + q] = tail[q]
  BY <1>4, <1>5, <1>8
<1> QED BY <1>3, <1>4, <1>9, <1>10 DEF Laid, n

\* All the pieces are clear of separators, and the text is joined of them.
AllClear(vec, sep) == \A i \in 1..Len(vec) : Clear(vec[i], sep)
AreJoined(text, vec, tail, more) == text = Joined(vec, tail) \o more

LEMMA JoinedIsCut ==
  ASSUME NEW S, NEW vec \in Seq(Seq(S)), vec # <<>>, NEW tail \in Seq(S), tail # <<>>,
         NEW more \in Seq(S), NEW sep, AllIn(tail, 1, sep), AllIn(more, 1, sep),
         AllClear(vec, sep),
         NEW text, AreJoined(text, vec, tail, more)
  PROVE  Split(text, sep) = vec /\ Pieces(text, sep, Begins(text, sep)) = vec
<1> DEFINE joined == Joined(vec, tail)
<1>0. text = joined \o more
  BY DEF AreJoined
<1>1. joined \in Seq(S)
  BY JoinedIsLaid
<1>2. PICK off : Laid(joined, vec, tail, off) /\ Len(joined) = off[Len(vec)]
  BY JoinedIsLaid
<1> HIDE DEF joined
<1>3. Laid(text, vec, tail, off)
  <2>1. Laid(joined \o more, vec, tail, off)
    BY <1>1, <1>2, LaidInMore
  <2> QED BY <1>0, <2>1
<1>4. /\ text \in Seq(S) /\ Len(text) = Len(joined) + Len(more)
      /\ \A q \in 1..Len(more) : text[Len(joined) + q] = more[q]
  <2>1. /\ joined \o more \in Seq(S) /\ Len(joined \o more) = Len(joined) + Len(more)
        /\ \A q \in 1..Len(more) : (joined \o more)[Len(joined) + q] = more[q]
    BY <1>1, ConcatAt
  <2> QED BY <1>0, <2>1
<1>5. Len(joined) \in Nat /\ Len(more) \in Nat
  BY <1>1
<1>6. AllIn(text, off[Len(vec)] + 1, sep)
  <2>1. ASSUME NEW p \in (Len(joined) + 1)..Len(text)
        PROVE  text[p] \in sep
    <3>1. p - Len(joined) \in 1..Len(more) /\ p = Len(joined) + (p - Len(joined))
      BY <1>4, <1>5
    <3>2. text[p] = more[p - Len(joined)]
      BY <1>4, <3>1
    <3> QED BY <3>1, <3>2 DEF AllIn
  <2> QED BY <1>2, <2>1 DEF AllIn
<1>7. off[Len(vec)] <= Len(text)
  BY <1>2, <1>4, <1>5
<1>8. Split(text, sep) = vec /\ Pieces(text, sep, Begins(text, sep)) = vec
  <2>1. text \in Seq(S)
    BY <1>4
  <2> QED BY <1>3, <1>6, <1>7, <2>1, CutIsJoined DEF AllClear
<1> QED BY <1>8

-------------------------------------------------------------------------------
(* Commands.                                                               *)

\* A field that can be sent: no white space, and no ':' in the key.
FitField(key, value) ==
  /\ \A q \in 1..Len(key) : key[q] \notin Space \cup {":"}
  /\ \A q \in 1..Len(value) : value[q] \notin Space

\* split_by_split_char gives back a key without ':' and any value.
LEMMA ColonDivides ==
  ASSUME NEW S, ":" \in S, NEW key \in Seq(S), NEW value \in Seq(S),
         FitField(key, value)
  PROVE  /\ key \o <<":">> \o value \in Seq(S)
         /\ SplitByColon(key \o <<":">> \o value) = <<key, value>>
         /\ Clear(key \o <<":">> \o value, Space)
<1>0. \A q \in 1..Len(key) : key[q] # ":"
  BY DEF FitField
<1> DEFINE a == key \o <<":">>
           str == a \o value
           k == Len(key)
           v == Len(value)
<1>1. k \in Nat /\ v \in Nat
  OBVIOUS
<1>2. <<":">> \in Seq(S) /\ Len(<<":">>) = 1 /\ <<":">>[1] = ":"
  OBVIOUS
<1>3. /\ a \in Seq(S) /\ Len(a) = k + 1 /\ \A q \in 1..k : a[q] = key[q]
      /\ a[k + 1] = ":"
  <2>1. /\ a \in Seq(S) /\ Len(a) = k + 1 /\ \A q \in 1..k : a[q] = key[q]
        /\ \A q \in 1..1 : a[k + q] = <<":">>[q]
    BY <1>2, ConcatAt
  <2>2. 1 \in 1..1
    OBVIOUS
  <2> HIDE DEF a, k
  <2> QED BY <1>2, <2>1, <2>2
<1> HIDE DEF a
<1>4. /\ str \in Seq(S) /\ Len(str) = k + 1 + v /\ \A q \in 1..(k + 1) : str[q] = a[q]
      /\ \A q \in 1..v : str[(k + 1) + q] = value[q]
  <2>1. a \in Seq(S) /\ value \in Seq(S)
    BY <1>3
  <2>2. /\ str \in Seq(S) /\ Len(str) = Len(a) + v /\ \A q \in 1..Len(a) : str[q] = a[q]
        /\ \A q \in 1..v : str[Len(a) + q] = value[q]
    BY <2>1, ConcatAt
  <2> HIDE DEF str, k, v
  <2> QED BY <1>3, <2>2
<1> HIDE DEF str
<1>5. \A q \in 1..k : str[q] = key[q] /\ str[q] # ":"
  BY <1>0, <1>1, <1>3, <1>4
<1>6. str[k + 1] = ":"
  <2>1. k + 1 \in 1..(k + 1)
    BY <1>1
  <2> QED BY <1>3, <1>4, <2>1
<1>7. FirstOf(str, {":"}) = k + 1
  <2>1. k + 1 \in 1..Len(str) /\ Len(str) \in Nat /\ (k + 1) - 1 = k
    BY <1>1, <1>4
  <2>2. \A q \in 1..((k + 1) - 1) : str[q] \notin {":"}
    BY <1>5, <2>1
  <2> HIDE DEF k
  <2> QED BY <1>6, <2>1, <2>2, FirstIs
<1>8. SubSeq(str, 1, k) = key
  <2> DEFINE s == SubSeq(str, 1, k)
  <2>1. s \in Seq(S) /\ Len(s) = k /\ \A q \in 1..k : s[q] = str[q]
    BY <1>1, <1>4
  <2> HIDE DEF s
  <2>2. s = key
    BY <1>5, <2>1, SeqEqual
  <2> QED BY <2>2 DEF s
<1>9. SubSeq(str, k + 2, Len(str)) = value
  <2> DEFINE s == SubSeq(str, k + 2, Len(str))
  <2>1. s \in Seq(S) /\ Len(s) = v /\ \A q \in 1..v : s[q] = str[(k + 1) + q]
    BY <1>1, <1>4
  <2> HIDE DEF s
  <2>2. s = value
    BY <1>4, <2>1, SeqEqual
  <2> QED BY <2>2 DEF s
<1>10. SplitByColon(str) = <<key, value>>
  <2>1. k + 1 # 0 /\ (k + 1) - 1 = k /\ (k + 1) + 1 = k + 2
    BY <1>1
  <2> HIDE DEF k
  <2> QED BY <1>7, <1>8, <1>9, <2>1 DEF SplitByColon
<1>11. ASSUME NEW q \in 1..Len(str)
       PROVE  str[q] \notin Space
  <2>1. CASE q \in 1..k
    <3>1. str[q] = key[q] /\ key[q] \notin Space
      BY <1>5, <2>1 DEF FitField
    <3> QED BY <3>1
  <2>2. CASE q = k + 1
    BY <1>6, <2>2 DEF Space, CR, LF, FF
  <2>3. CASE q - (k + 1) \in 1..v
    <3>1. q = (k + 1) + (q - (k + 1))
      BY <1>1
    <3>2. str[q] = value[q - (k + 1)]
      BY <1>4, <2>3, <3>1
    <3> QED BY <2>3, <3>2 DEF FitField
  <2> QED BY <1>1, <1>4, <2>1, <2>2, <2>3
<1>12. str # <<>>
  BY <1>1, <1>4
<1>13. Clear(str, Space)
  BY <1>11, <1>12 DEF Clear
<1> QED BY <1>4, <1>10, <1>13 DEF str, a

\* A function on 1..n is a sequence.
LEMMA TextsAre ==
  ASSUME NEW S, NEW n \in Nat, NEW f, f = [j \in 1..n |-> f[j]],
         \A j \in 1..n : f[j] \in S
  PROVE  f \in Seq(S) /\ Len(f) = n /\ DOMAIN f = 1..n
<1>1. f \in Seq(S) /\ DOMAIN f = 1..n
  BY IsASeq
<1> QED BY <1>1

\* Fields that can be sent together: the keys differ.
Sendable(fields) ==
  /\ fields # <<>>
  /\ \A i \in 1..Len(fields) :
       /\ FitField(fields[i][1], fields[i][2])
       /\ \A j \in 1..Len(fields) : fields[i][1] = fields[j][1] => i = j

\* command_str_to_map gives back the fields that cmd_map_to_str was given.
THEOREM CommandIsRead ==
  ASSUME NEW S, {":", CR, LF, FF} \subseteq S,
         NEW fields \in Seq(Seq(S) \X Seq(S)), Sendable(fields),
         NEW i \in 1..Len(fields)
  PROVE  Field(CommandStrToMap(CmdMapToStr(fields)), fields[i][1]) = fields[i][2]
<1> DEFINE n == Len(fields)
           vec == [j \in DOMAIN fields |-> fields[j][1] \o <<":">> \o fields[j][2]]
           tail == <<CR, LF>>
           more == <<FF>>
<1>1. n \in Nat \ {0} /\ DOMAIN fields = 1..n /\ i \in 1..n
  BY EmptySeq DEF Sendable
<1>2. ASSUME NEW j \in 1..n
      PROVE  fields[j][1] \in Seq(S) /\ fields[j][2] \in Seq(S)
  <2>1. fields[j] \in Seq(S) \X Seq(S)
    BY ElementOfSeq
  <2> QED BY <2>1
<1>3. ASSUME NEW j \in 1..n
      PROVE  /\ FitField(fields[j][1], fields[j][2])
             /\ \A k \in 1..n : fields[j][1] = fields[k][1] => j = k
  BY DEF Sendable
<1> HIDE DEF n
<1>4. ASSUME NEW j \in 1..n
      PROVE  /\ vec[j] \in Seq(S) /\ Clear(vec[j], Space)
             /\ SplitByColon(vec[j]) = <<fields[j][1], fields[j][2]>>
  <2> DEFINE key == fields[j][1]
             value == fields[j][2]
  <2>1. key \in Seq(S) /\ value \in Seq(S) /\ FitField(key, value)
    BY <1>2, <1>3
  <2>2. vec[j] = key \o <<":">> \o value
    BY <1>1
  <2>3. ":" \in S
    OBVIOUS
  <2> HIDE DEF key, value, vec
  <2>4. /\ key \o <<":">> \o value \in Seq(S)
        /\ SplitByColon(key \o <<":">> \o value) = <<key, value>>
        /\ Clear(key \o <<":">> \o value, Space)
    BY <2>1, <2>3, ColonDivides
  <2>5. /\ vec[j] \in Seq(S) /\ SplitByColon(vec[j]) = <<key, value>>
        /\ Clear(vec[j], Space)
    BY <2>2, <2>4, Zenon
  <2> QED BY <2>5 DEF key, value
<1>5. vec \in Seq(Seq(S)) /\ Len(vec) = n /\ DOMAIN vec = 1..n /\ vec # <<>>
  <2>1. vec = [j \in 1..n |-> vec[j]] /\ DOMAIN vec = 1..n
    BY <1>1
  <2> HIDE DEF vec
  <2>2. vec \in Seq(Seq(S)) /\ Len(vec) = n
    <3>1. \A j \in 1..n : vec[j] \in Seq(S)
      BY <1>4
    <3> QED BY <1>1, <2>1, <3>1, TextsAre
  <2> QED BY <1>1, <2>1, <2>2
<1>6. /\ tail \in Seq(S) /\ tail # <<>> /\ AllIn(tail, 1, Space)
      /\ more \in Seq(S) /\ AllIn(more, 1, Space)
  <2>1. CR \in S /\ LF \in S /\ FF \in S
    OBVIOUS
  <2>2. CR \in Space /\ LF \in Space /\ FF \in Space
    BY DEF Space
  <2> QED BY <2>1, <2>2 DEF AllIn
<1>7. CmdMapToStr(fields) = Joined(vec, tail) \o more
  <2>1. Joined(vec, tail)
          = FlattenSeq([j \in DOMAIN fields |->
                          fields[j][1] \o <<":">> \o fields[j][2] \o <<CR, LF>>])
    BY <1>1, <1>5, Zenon DEF Joined
  <2> QED BY <2>1 DEF CmdMapToStr
<1> HIDE DEF vec, tail, more
<1>8. SplitLine(CmdMapToStr(fields)) = vec
  <2>1. AllClear(vec, Space)
    BY <1>4, <1>5 DEF AllClear
  <2> DEFINE text == CmdMapToStr(fields)
  <2>2. AreJoined(text, vec, tail, more)
    BY <1>7 DEF AreJoined
  <2> HIDE DEF text
  <2>3. vec \in Seq(Seq(S)) /\ vec # <<>>
    BY <1>5
  <2>4. Pieces(text, Space, Begins(text, Space)) = vec
    BY <1>6, <2>1, <2>2, <2>3, JoinedIsCut
  <2> QED BY <2>4 DEF SplitLine, text
<1> DEFINE pair == [j \in DOMAIN vec |-> SplitByColon(vec[j])]
           map == CommandStrToMap(CmdMapToStr(fields))
           same(key) == {j \in DOMAIN vec : pair[j][1] = key}
<1>9. ASSUME NEW j \in 1..n
      PROVE  pair[j][1] = fields[j][1] /\ pair[j][2] = fields[j][2]
  <2>1. SplitByColon(vec[j]) = <<fields[j][1], fields[j][2]>>
    BY <1>4
  <2>2. pair[j] = SplitByColon(vec[j])
    BY <1>5
  <2> HIDE DEF pair
  <2> QED BY <2>1, <2>2
<1>10. map = [key \in {pair[j][1] : j \in DOMAIN vec} |-> pair[Max(same(key))][2]]
  BY <1>8 DEF CommandStrToMap
<1> HIDE DEF pair, map
<1>11. same(fields[i][1]) = {i}
  BY <1>1, <1>3, <1>5, <1>9
<1> HIDE DEF same
<1>12. Max({i}) = i
  BY <1>1 DEF Max
<1>13. fields[i][1] \in {pair[j][1] : j \in DOMAIN vec}
  BY <1>1, <1>5, <1>9
<1>14. fields[i][1] \in DOMAIN map /\ map[fields[i][1]] = fields[i][2]
  BY <1>1, <1>9, <1>10, <1>11, <1>12, <1>13
<1> QED BY <1>14 DEF Field, map
-------------------------------------------------------------------------------
(* Lines and URLs.                                                         *)

\* The characters a value may have, and those of a URL of a plain line.
Visible == Char \ Space
UrlChar == Visible \ {"#"}

\* replace, of a character that is not there.
LEMMA NothingReplaced ==
  ASSUME NEW str, NEW new_str, NEW special_char, NEW c, special_char = <<c>>,
         \A q \in 1..Len(str) : str[q] # c
  PROVE  Replace(str, new_str, special_char) = str
<1>1. ToSet(special_char) = {c}
  BY DEF ToSet
<1>2. FirstOf(str, {c}) = 0
  BY FirstIsNone
<1> QED BY <1>1, <1>2 DEF Replace

\* What the master makes of a line.
LEMMA PlainUrl ==
  ASSUME NEW line \in Seq(Char), IsPlain(line)
  PROVE  LET url == SubSeq(line, 8, Len(line) - 1)
         IN /\ UrlOfLine(line) = url
            /\ url \in Seq(UrlChar) /\ url # <<>>
            /\ FirstOf(url, {"/"}) # 0
<1> DEFINE n == Len(line)
           front == SubSeq(line, 1, n - 1)
           url == SubSeq(line, 8, n - 1)
<1>1. n \in Nat /\ n > 8 /\ line[n] = LF /\ SubSeq(line, 1, 7) = Scheme
  BY DEF IsPlain, Last
<1>2. ASSUME NEW i \in 8..(n - 1)
      PROVE  line[i] \in UrlChar
  <2>1. line[i] \notin Space \cup {"#"}
    BY DEF IsPlain
  <2>2. line[i] \in Char
    BY <1>1, ElementOfSeq
  <2> QED BY <2>1, <2>2 DEF UrlChar, Visible
<1>3. /\ front \in Seq(Char) /\ Len(front) = n - 1
      /\ \A q \in 1..(n - 1) : front[q] = line[q]
  BY <1>1
<1>4. \A q \in 1..7 : line[q] = Scheme[q]
  <2>1. \A q \in 1..7 : SubSeq(line, 1, 7)[q] = line[q]
    BY <1>1
  <2> QED BY <1>1, <2>1
<1>5. /\ url \in Seq(Char) /\ Len(url) = n - 8
      /\ \A q \in 1..(n - 8) : url[q] = line[q + 7]
  BY <1>1
<1> HIDE DEF front, url
<1>6. Front(line) = front
  BY DEF Front, front
<1>7. Replace(front, <<>>, <<LF>>) = front
  <2>1. ASSUME NEW q \in 1..Len(front)
        PROVE  front[q] # LF
    <3>1. CASE q \in 1..7
      <4>1. Scheme[q] # LF
        BY <3>1 DEF Scheme, LF
      <4> QED BY <1>3, <1>4, <3>1, <4>1
    <3>2. CASE q \in 8..(n - 1)
      <4>1. line[q] \notin Space
        BY <1>2, <3>2 DEF UrlChar, Visible
      <4> QED BY <1>3, <3>2, <4>1 DEF Space
    <3> QED BY <1>1, <1>3, <3>1, <3>2
  <2> QED BY <2>1, NothingReplaced
<1>8. Replace(front, <<>>, Scheme) = url
  <2>1. FirstOf(front, ToSet(Scheme)) = 1
    <3>1. Len(front) \in Nat /\ 1 \in 1..Len(front)
      BY <1>1, <1>3
    <3>2. front[1] \in ToSet(Scheme)
      BY <1>1, <1>3, <1>4 DEF ToSet, Scheme
    <3> QED BY <3>1, <3>2, FirstIs
  <2>2. Len(Scheme) = 7
    BY DEF Scheme
  <2>3. Replace(front, <<>>, Scheme)
          = SubSeq(front, 1, 0) \o <<>> \o SubSeq(front, 8, Len(front))
    BY <2>1, <2>2 DEF Replace
  <2> DEFINE s == SubSeq(front, 8, Len(front))
  <2>4. s \in Seq(Char) /\ Len(s) = n - 8 /\ \A q \in 1..(n - 8) : s[q] = front[q + 7]
    BY <1>1, <1>3
  <2>5. SubSeq(front, 1, 0) = <<>>
    BY <1>3
  <2> HIDE DEF s
  <2>6. \A q \in 1..(n - 8) : q + 7 \in 1..(n - 1)
    BY <1>1
  <2>7. s = url
    <3>1. \A q \in 1..(n - 8) : s[q] = url[q]
      BY <1>3, <1>5, <2>4, <2>6
    <3> QED BY <1>5, <2>4, <3>1, SeqEqual
  <2>8. Replace(front, <<>>, Scheme) = <<>> \o <<>> \o s
    BY <2>3, <2>5 DEF s
  <2> QED BY <2>4, <2>7, <2>8
<1>9. UrlOfLine(line) = url
  BY <1>6, <1>7, <1>8 DEF UrlOfLine
<1>10. url \in Seq(UrlChar) /\ url # <<>>
  <2>1. \A q \in 1..(n - 8) : url[q] \in UrlChar
    <3>1. \A q \in 1..(n - 8) : q + 7 \in 8..(n - 1)
      BY <1>1
    <3> QED BY <1>2, <1>5, <3>1
  <2>2. url = [q \in 1..(n - 8) |-> url[q]] /\ n - 8 \in Nat
    BY <1>1, <1>5
  <2>3. url \in Seq(UrlChar)
    BY <2>1, <2>2, TextsAre
  <2>4. Len(url) = n - 8
    BY <1>5
  <2>5. url # <<>>
    <3>1. Len(<<>>) = 0
      OBVIOUS
    <3>2. n - 8 # 0
      BY <1>1
    <3> HIDE DEF n
    <3> QED BY <2>4, <3>1, <3>2
  <2> QED BY <2>3, <2>5
<1>11. FirstOf(url, {"/"}) # 0
  <2> DEFINE rest == SubSeq(line, 8, n)
  <2>1. /\ Len(rest) = n - 7 /\ \A q \in 1..(n - 7) : rest[q] = line[q + 7]
        /\ n - 7 \in Nat
    BY <1>1
  <2>2. FirstOf(rest, {"/"}) # 0
    BY DEF IsPlain
  <2> HIDE DEF rest
  <2>3. PICK q \in 1..(n - 7) : rest[q] \in {"/"}
    BY <2>1, <2>2, FirstIsNone
  <2>4. q # n - 7
    <3>1. (n - 7) + 7 = n
      BY <1>1
    <3>2. LF # "/"
      BY DEF LF
    <3>3. q = n - 7 => rest[q] = LF
      BY <1>1, <2>1, <3>1
    <3> QED BY <2>3, <3>2, <3>3
  <2>5. q \in 1..Len(url) /\ url[q] = "/"
    <3>1. q \in 1..(n - 8)
      BY <1>1, <2>4
    <3> QED BY <1>5, <2>1, <2>3, <3>1
  <2>6. SUFFICES ASSUME FirstOf(url, {"/"}) = 0 PROVE FALSE
    OBVIOUS
  <2>7. Len(url) \in Nat
    BY <1>5
  <2> QED BY <2>5, <2>6, <2>7, FirstIsZero
<1> QED BY <1>9, <1>10, <1>11 DEF url

\* What the slave makes of a URL.
LEMMA RequestOfUrl ==
  ASSUME NEW url \in Seq(UrlChar), FirstOf(url, {"/"}) # 0
  PROVE  \E p \in DOMAIN url :
           /\ url[p] = "/" /\ \A q \in 1..(p - 1) : url[q] # "/"
           /\ HttpReq(url) = <<"GET">> \o SubSeq(url, p, Len(url))
                               \o <<"Host">> \o SubSeq(url, 1, p - 1)
<1> DEFINE p == FirstOf(url, {"/"})
<1>1. /\ p \in 1..Len(url) /\ url[p] = "/" /\ \A q \in 1..(p - 1) : url[q] # "/"
  <2>1. /\ p \in 1..Len(url) /\ url[p] \in {"/"}
        /\ \A q \in 1..(p - 1) : url[q] \notin {"/"}
    BY FirstIsSome
  <2> QED BY <2>1
<1> DEFINE body == SubSeq(url, p, Len(url))
           host == SubSeq(url, 1, p - 1)
           b == Len(body)
<1>2. UrlBody(url) = body /\ SiteName(url) = host
  BY DEF UrlBody, SiteName
<1> HIDE DEF p
<1>3. /\ body \in Seq(UrlChar) /\ host \in Seq(UrlChar) /\ b \in Nat
  BY <1>1
<1>4. body \in Seq(Char) /\ host \in Seq(Char) /\ \A q \in 1..b : body[q] # "#"
  <2>1. UrlChar \subseteq Char /\ "#" \notin UrlChar
    BY DEF UrlChar, Visible
  <2>2. \A q \in 1..b : body[q] \in UrlChar
    BY <1>3, ElementOfSeq
  <2> HIDE DEF body, host, b
  <2> QED BY <1>3, <2>1, <2>2
<1> HIDE DEF body, host, b
<1> DEFINE head == <<"GET">> \o body
           line == head \o <<"Host", "#">>
<1>5. Replace(HttpHead, body, <<"#">>) = line
  <2>1. FirstOf(HttpHead, {"#"}) = 2
    <3>1. /\ Len(HttpHead) = 4 /\ HttpHead[2] = "#" /\ HttpHead[1] = "GET"
          /\ "GET" # "#"
      BY DEF HttpHead
    <3>2. Len(HttpHead) \in Nat /\ 2 \in 1..Len(HttpHead) /\ HttpHead[2] \in {"#"}
          /\ \A q \in 1..(2 - 1) : HttpHead[q] \notin {"#"}
      BY <3>1
    <3> QED BY <3>2, FirstIs
  <2>2. ToSet(<<"#">>) = {"#"}
    BY DEF ToSet
  <2>3. Replace(HttpHead, body, <<"#">>)
          = SubSeq(HttpHead, 1, 1) \o body \o SubSeq(HttpHead, 3, 4)
    <3>1. /\ Len(HttpHead) = 4 /\ Len(<<"#">>) = 1
          /\ 2 # 0 /\ 2 - 1 = 1 /\ 2 + 1 = 3
      BY DEF HttpHead
    <3> QED BY <2>1, <2>2, <3>1 DEF Replace
  <2> DEFINE s == SubSeq(HttpHead, 1, 1)
             t == SubSeq(HttpHead, 3, 4)
             whole == HttpHead
  <2>4. /\ whole \in Seq(Char) /\ Len(whole) = 4
        /\ whole[1] = "GET" /\ whole[3] = "Host" /\ whole[4] = "#"
    BY DEF HttpHead, Char
  <2> HIDE DEF whole
  <2>5. SubSeq(whole, 1, 1) = <<"GET">>
    <3> DEFINE l == SubSeq(whole, 1, 1)
               r == <<"GET">>
    <3>1. l \in Seq(Char) /\ Len(l) = 1 /\ l[1] = whole[1]
      <4>1. \A i \in 1..1 : whole[i] \in Char
        BY <2>4, ElementOfSeq
      <4> QED BY <4>1, SubSeqProperties
    <3>2. r \in Seq(Char) /\ Len(r) = 1 /\ r[1] = "GET"
      BY DEF Char
    <3>3. \A q \in 1..1 : q = 1
      OBVIOUS
    <3> HIDE DEF l, r
    <3>4. l = r
      BY <2>4, <3>1, <3>2, <3>3, SeqEqual
    <3> QED BY <3>4 DEF l, r
  <2>6. SubSeq(whole, 3, 4) = <<"Host", "#">>
    <3> DEFINE l == SubSeq(whole, 3, 4)
               r == <<"Host", "#">>
    <3>1. l \in Seq(Char) /\ Len(l) = 2 /\ l[1] = whole[3] /\ l[2] = whole[4]
      <4>1. ASSUME NEW i \in 3..4
            PROVE  whole[i] \in Char
        <5>1. i = 3 \/ i = 4
          OBVIOUS
        <5> QED BY <2>4, <5>1 DEF Char
      <4>2. /\ l \in Seq(Char)
            /\ Len(l) = IF 3 <= 4 THEN 4 - 3 + 1 ELSE 0
            /\ \A i \in 1..(4 - 3 + 1) : l[i] = whole[3 + i - 1]
        BY <4>1, SubSeqProperties
      <4>3. 4 - 3 + 1 = 2 /\ 1 \in 1..2 /\ 2 \in 1..2 /\ 3 + 1 - 1 = 3 /\ 3 + 2 - 1 = 4
        OBVIOUS
      <4> HIDE DEF l
      <4>4. l[1] = whole[3] /\ l[2] = whole[4]
        BY <4>2, <4>3
      <4> QED BY <4>2, <4>4
    <3>2. r \in Seq(Char) /\ Len(r) = 2 /\ r[1] = "Host" /\ r[2] = "#"
      BY DEF Char
    <3>3. \A q \in 1..2 : q = 1 \/ q = 2
      OBVIOUS
    <3> HIDE DEF l, r
    <3>4. l = r
      BY <2>4, <3>1, <3>2, <3>3, SeqEqual
    <3> QED BY <3>4 DEF l, r
  <2>7. s = <<"GET">> /\ t = <<"Host", "#">>
    BY <2>5, <2>6 DEF whole
  <2> HIDE DEF s, t
  <2>8. Replace(HttpHead, body, <<"#">>) = s \o body \o t
    BY <2>3 DEF s, t
  <2> QED BY <2>7, <2>8
<1>6. <<"GET">> \in Seq(Char) /\ <<"Host">> \in Seq(Char) /\ <<"#">> \in Seq(Char)
      /\ <<"Host", "#">> \in Seq(Char)
  BY DEF Char
<1>7. /\ head \in Seq(Char) /\ Len(head) = b + 1 /\ head[1] = "GET"
      /\ \A q \in 1..b : head[q + 1] = body[q]
  <2>1. /\ head \in Seq(Char) /\ Len(head) = Len(<<"GET">>) + Len(body)
        /\ \A q \in 1..Len(<<"GET">>) : head[q] = <<"GET">>[q]
        /\ \A q \in 1..Len(body) : head[Len(<<"GET">>) + q] = body[q]
    BY <1>4, <1>6, ConcatAt
  <2>2. Len(<<"GET">>) = 1 /\ <<"GET">>[1] = "GET" /\ 1 \in 1..1
    OBVIOUS
  <2> HIDE DEF head
  <2> QED BY <1>3, <2>1, <2>2 DEF b
<1> HIDE DEF head
<1>8. /\ line \in Seq(Char) /\ Len(line) = b + 3
      /\ \A q \in 1..(b + 1) : line[q] = head[q]
      /\ line[b + 2] = "Host" /\ line[b + 3] = "#"
  <2>1. /\ line \in Seq(Char) /\ Len(line) = Len(head) + Len(<<"Host", "#">>)
        /\ \A q \in 1..Len(head) : line[q] = head[q]
        /\ \A q \in 1..Len(<<"Host", "#">>) :
             line[Len(head) + q] = <<"Host", "#">>[q]
    BY <1>6, <1>7, ConcatAt
  <2>2. /\ Len(<<"Host", "#">>) = 2 /\ <<"Host", "#">>[1] = "Host"
        /\ <<"Host", "#">>[2] = "#" /\ 1 \in 1..2 /\ 2 \in 1..2
    OBVIOUS
  <2>3. (b + 1) + 1 = b + 2 /\ (b + 1) + 2 = b + 3
    BY <1>3
  <2> HIDE DEF line
  <2> QED BY <1>7, <2>1, <2>2, <2>3
<1> HIDE DEF line
<1>9. FirstOf(line, {"#"}) = b + 3
  <2>1. ASSUME NEW q \in 1..((b + 3) - 1)
        PROVE  line[q] # "#"
    <3>1. CASE q = 1
      <4>1. line[1] = "GET"
        BY <1>3, <1>7, <1>8
      <4> QED BY <3>1, <4>1
    <3>2. CASE q - 1 \in 1..b
      <4>1. q \in 1..(b + 1) /\ q = (q - 1) + 1
        BY <1>3, <3>2
      <4>2. line[q] = body[q - 1]
        BY <1>7, <1>8, <3>2, <4>1
      <4> QED BY <1>4, <3>2, <4>2
    <3>3. CASE q = b + 2
      BY <1>8, <3>3
    <3> QED BY <1>3, <3>1, <3>2, <3>3
  <2>2. Len(line) \in Nat /\ b + 3 \in 1..Len(line) /\ line[b + 3] \in {"#"}
    BY <1>3, <1>8
  <2> QED BY <2>1, <2>2, FirstIs
<1>10. Replace(line, host, <<"#">>) = SubSeq(line, 1, b + 2) \o host
  <2>1. ToSet(<<"#">>) = {"#"} /\ Len(<<"#">>) = 1
    BY DEF ToSet
  <2>2. b + 3 # 0 /\ (b + 3) - 1 = b + 2 /\ (b + 3) + 1 = b + 4
    BY <1>3
  <2>3. Replace(line, host, <<"#">>)
          = SubSeq(line, 1, b + 2) \o host \o SubSeq(line, b + 4, b + 3)
    BY <1>8, <1>9, <2>1, <2>2 DEF Replace
  <2>4. SubSeq(line, b + 4, b + 3) = <<>>
    BY <1>3, <1>8
  <2>5. SubSeq(line, 1, b + 2) \in Seq(Char)
    BY <1>3, <1>8
  <2>6. SubSeq(line, 1, b + 2) \o host \in Seq(Char)
    BY <1>4, <2>5, ConcatAt
  <2> HIDE DEF line
  <2> QED BY <2>3, <2>4, <2>6, ConcatEmptySeq
<1>11. SubSeq(line, 1, b + 2) = head \o <<"Host">>
  <2> DEFINE s == SubSeq(line, 1, b + 2)
             t == head \o <<"Host">>
  <2>1. s \in Seq(Char) /\ Len(s) = b + 2 /\ \A q \in 1..(b + 2) : s[q] = line[q]
    BY <1>3, <1>8
  <2>2. /\ t \in Seq(Char) /\ Len(t) = Len(head) + Len(<<"Host">>)
        /\ \A q \in 1..Len(head) : t[q] = head[q]
        /\ \A q \in 1..Len(<<"Host">>) : t[Len(head) + q] = <<"Host">>[q]
    BY <1>6, <1>7, ConcatAt
  <2>3. Len(<<"Host">>) = 1 /\ <<"Host">>[1] = "Host" /\ 1 \in 1..1
    OBVIOUS
  <2>4. (b + 1) + 1 = b + 2 /\ \A q \in 1..(b + 2) : q \in 1..(b + 1) \/ q = b + 2
    BY <1>3
  <2> HIDE DEF s, t
  <2>5. Len(t) = b + 2 /\ \A q \in 1..(b + 2) : t[q] = s[q]
    <3>1. Len(head) = b + 1 /\ Len(t) = b + 2
      BY <1>3, <1>7, <1>8, <2>2, <2>3, <2>4
    <3>2. \A q \in 1..(b + 1) : t[q] = s[q]
      BY <1>7, <1>8, <2>1, <2>2, <2>4, <3>1
    <3>3. t[b + 2] = s[b + 2]
      BY <1>7, <1>8, <2>1, <2>2, <2>3, <2>4, <3>1
    <3> QED BY <2>4, <3>1, <3>2, <3>3
  <2>6. s = t
    BY <2>1, <2>2, <2>5, SeqEqual
  <2> QED BY <2>6 DEF s, t
<1>12. HttpReq(url) = head \o <<"Host">> \o host
  BY <1>2, <1>5, <1>10, <1>11 DEF HttpReq
<1>13. p \in DOMAIN url
  BY <1>1
<1> QED BY <1>1, <1>12, <1>13 DEF head, body, host

-------------------------------------------------------------------------------

\* Seq is monotonic.
LEMMA SeqGrows ==
  ASSUME NEW S, NEW T, S \subseteq T
  PROVE  Seq(S) \subseteq Seq(T)
OBVIOUS

\* A batch is cut into its URLs.
THEOREM BatchIsSplit ==
  ASSUME NEW vec \in Seq(Seq(UrlChar)), vec # <<>>, \A i \in 1..Len(vec) : vec[i] # <<>>
  PROVE  RequestUrl(vec) \in Seq(Visible) /\ Split(RequestUrl(vec), {"#"}) = vec
<1> DEFINE tail == <<"#">>
           more == <<>>
           text == RequestUrl(vec)
<1>1. tail \in Seq(Visible) /\ tail # <<>> /\ more \in Seq(Visible)
  <2>1. "#" \in Visible
    BY DEF Visible, Char, Space, CR, LF, FF
  <2> QED BY <2>1
<1>2. vec \in Seq(Seq(Visible))
  <2>1. UrlChar \subseteq Visible
    BY DEF UrlChar
  <2>2. Seq(UrlChar) \subseteq Seq(Visible)
    BY <2>1, SeqGrows
  <2> QED BY <2>2, SeqGrows
<1>3. text = Joined(vec, tail)
  BY DEF RequestUrl, Joined
<1>4. text \in Seq(Visible)
  BY <1>1, <1>2, <1>3, JoinedIsLaid, Zenon
<1>5. AllClear(vec, {"#"})
  <2>1. ASSUME NEW i \in 1..Len(vec), NEW q \in 1..Len(vec[i])
        PROVE  vec[i][q] \notin {"#"}
    <3>1. vec[i] \in Seq(UrlChar)
      BY ElementOfSeq
    <3>2. vec[i][q] \in UrlChar
      BY <3>1, ElementOfSeq
    <3> QED BY <3>2 DEF UrlChar
  <2> QED BY <2>1 DEF AllClear, Clear
<1>6. AllIn(tail, 1, {"#"}) /\ AllIn(more, 1, {"#"})
  BY DEF AllIn
<1>7. AreJoined(text, vec, tail, more)
  <2>1. text \o <<>> = text
    BY <1>4, ConcatEmptySeq
  <2> QED BY <1>3, <2>1 DEF AreJoined
<1> HIDE DEF text, tail, more
<1>8. Split(text, {"#"}) = vec
  BY <1>1, <1>2, <1>5, <1>6, <1>7, JoinedIsCut
<1> QED BY <1>4, <1>8 DEF text
-------------------------------------------------------------------------------
(* The two commands.                                                       *)

\* A visible text can be sent as a value.
LEMMA VisibleText ==
  ASSUME NEW text \in Seq(Visible)
  PROVE  text \in Seq(Char) /\ \A q \in 1..Len(text) : text[q] \notin Space
<1>1. Visible \subseteq Char
  BY DEF Visible
<1>2. text \in Seq(Char)
  BY <1>1, SeqGrows
<1>3. \A q \in 1..Len(text) : text[q] \in Visible
  BY ElementOfSeq
<1> QED BY <1>2, <1>3 DEF Visible

\* The keys of the commands are single characters.
Keys == {"c", "s", "t", "u", "w"}

\* The keys of the commands can be sent ...
LEMMA KeyText ==
  ASSUME NEW k \in Keys
  PROVE  /\ <<k>> \in Seq(Char) /\ <<k>>[1] = k
         /\ \A q \in 1..Len(<<k>>) : <<k>>[q] \notin Space \cup {":"}
<1>1. k \in Char /\ k \notin Space \cup {":"}
  BY DEF Keys, Char, Space, CR, LF, FF
<1>2. Len(<<k>>) = 1 /\ <<k>>[1] = k /\ <<k>> \in Seq(Char)
  BY <1>1
<1> QED BY <1>1, <1>2

\* ... and their fixed values, ...
LEMMA LiteralsAreVisible ==
  <<"1">> \in Seq(Visible) /\ <<"9">> \in Seq(Visible) /\ <<"5">> \in Seq(Visible)
    /\ SLEEP \in Seq(Visible) /\ GRABPAGE \in Seq(Visible)
<1>1. {"1", "2", "4", "5", "9"} \subseteq Visible
  BY DEF Visible, Char, Space, CR, LF, FF
<1> QED BY <1>1 DEF SLEEP, GRABPAGE

\* ... between the characters that frame them.
LEMMA CharsOfCommands == {":", CR, LF, FF} \subseteq Char
BY DEF Char

\* Fields with different keys.
FieldsAre(fields, n, key, value) ==
  /\ key \in [1..n -> Keys] /\ value \in [1..n -> Seq(Visible)]
  /\ fields = [j \in 1..n |-> <<<<key[j]>>, value[j]>>]
  /\ \A i, j \in 1..n : key[i] = key[j] => i = j

\* Each of them is read back.
LEMMA FieldIsRead ==
  ASSUME NEW n \in Nat, NEW key, NEW value, NEW fields, FieldsAre(fields, n, key, value),
         NEW i \in 1..n
  PROVE  Field(CommandStrToMap(CmdMapToStr(fields)), <<key[i]>>) = value[i]
<1>0. /\ key \in [1..n -> Keys] /\ value \in [1..n -> Seq(Visible)]
      /\ fields = [j \in 1..n |-> <<<<key[j]>>, value[j]>>]
      /\ \A j, k \in 1..n : key[j] = key[k] => j = k
  BY DEF FieldsAre
<1>1. ASSUME NEW j \in 1..n
      PROVE  /\ fields[j] \in Seq(Char) \X Seq(Char)
             /\ fields[j][1] = <<key[j]>> /\ fields[j][2] = value[j]
             /\ key[j] \in Keys /\ value[j] \in Seq(Visible)
  <2>1. key[j] \in Keys /\ value[j] \in Seq(Visible)
    BY <1>0
  <2>2. <<key[j]>> \in Seq(Char) /\ value[j] \in Seq(Char)
    BY <2>1, KeyText, VisibleText
  <2>3. fields[j] = <<<<key[j]>>, value[j]>>
    BY <1>0
  <2>4. fields[j] \in Seq(Char) \X Seq(Char)
    <3> DEFINE T == Seq(Char)
    <3>1. <<key[j]>> \in T /\ value[j] \in T
      BY <2>2
    <3> HIDE DEF T
    <3>2. <<<<key[j]>>, value[j]>> \in T \X T
      BY <3>1
    <3> QED BY <2>3, <3>2 DEF T
  <2>5. fields[j][1] = <<key[j]>> /\ fields[j][2] = value[j]
    BY <2>3
  <2> QED BY <2>1, <2>4, <2>5, Zenon
<1>2. /\ fields \in Seq(Seq(Char) \X Seq(Char)) /\ Len(fields) = n
  <2>1. fields = [j \in 1..n |-> fields[j]]
    BY <1>0
  <2>2. \A j \in 1..n : fields[j] \in Seq(Char) \X Seq(Char)
    BY <1>1
  <2> DEFINE S == Seq(Char) \X Seq(Char)
             f == fields
  <2>3. f = [j \in 1..n |-> f[j]] /\ (\A j \in 1..n : f[j] \in S) /\ n \in Nat
    BY <2>1, <2>2
  <2> HIDE DEF S, f
  <2>4. f \in Seq(S) /\ Len(f) = n
    BY ONLY <2>3, TextsAre
  <2> QED BY <2>4 DEF S, f
<1>3. Sendable(fields)
  <2>1. fields # <<>>
    <3>1. n # 0 /\ Len(<<>>) = 0
      OBVIOUS
    <3> QED BY <1>2, <3>1
  <2>2. ASSUME NEW j \in 1..n
        PROVE  FitField(fields[j][1], fields[j][2])
    <3>1. fields[j][1] = <<key[j]>> /\ key[j] \in Keys
      BY <1>1
    <3>2. fields[j][2] = value[j] /\ value[j] \in Seq(Visible)
      BY <1>1
    <3>3. \A q \in 1..Len(<<key[j]>>) : <<key[j]>>[q] \notin Space \cup {":"}
      BY <3>1, KeyText
    <3>4. \A q \in 1..Len(value[j]) : value[j][q] \notin Space
      BY <3>2, VisibleText
    <3>5. FitField(<<key[j]>>, value[j])
      BY <3>3, <3>4 DEF FitField
    <3> QED BY <3>1, <3>2, <3>5
  <2>3. ASSUME NEW j \in 1..n, NEW k \in 1..n, fields[j][1] = fields[k][1]
        PROVE  j = k
    <3>1. <<key[j]>> = <<key[k]>>
      BY <1>1, <2>3
    <3>2. key[j] = key[k]
      BY <3>1
    <3> QED BY <1>0, <3>2
  <2> QED BY <1>2, <2>1, <2>2, <2>3 DEF Sendable
<1>4. Field(CommandStrToMap(CmdMapToStr(fields)), fields[i][1]) = fields[i][2]
  BY <1>2, <1>3, CharsOfCommands, CommandIsRead
<1>5. fields[i][1] = <<key[i]>> /\ fields[i][2] = value[i]
  BY <1>1
<1> QED BY <1>4, <1>5

\* The fields of the commands come through.
LEMMA AssignCmdIsRead ==
  ASSUME NEW vec, RequestUrl(vec) \in Seq(Visible),
         NEW id \in Seq(Visible), NEW stamp \in Seq(Visible)
  PROVE  LET map == CommandStrToMap(AssignCmd(vec, id, stamp))
         IN Field(map, commd_id) = GRABPAGE /\ Field(map, urls) = RequestUrl(vec)
<1> DEFINE key == <<"c", "s", "t", "u">>
           value == <<GRABPAGE, id, stamp, RequestUrl(vec)>>
           fields == <<<<commd_id, GRABPAGE>>, <<slave_id, id>>, <<task_id, stamp>>,
                       <<urls, RequestUrl(vec)>>>>
<1>1. /\ FieldsAre(fields, 4, key, value)
      /\ key[1] = "c" /\ key[4] = "u" /\ value[1] = GRABPAGE
      /\ value[4] = RequestUrl(vec)
  <2>1. \A j \in 1..4 : j = 1 \/ j = 2 \/ j = 3 \/ j = 4
    OBVIOUS
  <2>2. key \in [1..4 -> Keys]
    BY <2>1 DEF Keys
  <2>3. value \in [1..4 -> Seq(Visible)]
    BY <2>1, LiteralsAreVisible
  <2>4. fields = [j \in 1..4 |-> <<<<key[j]>>, value[j]>>]
    BY <2>1 DEF commd_id, slave_id, task_id, urls
  <2>5. \A i, j \in 1..4 : key[i] = key[j] => i = j
    BY <2>1
  <2>6. FieldsAre(fields, 4, key, value)
    <3> HIDE DEF key, value, fields
    <3> QED BY <2>2, <2>3, <2>4, <2>5 DEF FieldsAre
  <2> QED BY <2>6
<1>2.  AssignCmd(vec, id, stamp) = CmdMapToStr(fields)
  BY DEF AssignCmd
<1> HIDE DEF key, value, fields
<1>3. 4 \in Nat /\ 1 \in 1..4 /\ 4 \in 1..4
  OBVIOUS
<1>4. \A i \in 1..4 : Field(CommandStrToMap(CmdMapToStr(fields)), <<key[i]>>) = value[i]
  BY <1>1, <1>3, FieldIsRead
<1>5. /\ Field(CommandStrToMap(CmdMapToStr(fields)), <<key[1]>>) = value[1]
      /\ Field(CommandStrToMap(CmdMapToStr(fields)), <<key[4]>>) = value[4]
  BY <1>3, <1>4
<1> QED BY <1>1, <1>2, <1>5 DEF commd_id, urls

\* A sleep command comes through as one.
LEMMA SleepCmdIsRead ==
  ASSUME NEW id \in Seq(Visible), NEW sleep_time \in Seq(Visible)
  PROVE  Field(CommandStrToMap(SleepCmd(id, sleep_time)), commd_id) = SLEEP
<1> DEFINE key == <<"c", "s", "w">>
           value == <<SLEEP, id, sleep_time>>
           fields == <<<<commd_id, SLEEP>>, <<slave_id, id>>, <<time, sleep_time>>>>
<1>1. /\ FieldsAre(fields, 3, key, value)
      /\ key[1] = "c" /\ value[1] = SLEEP
  <2>1. \A j \in 1..3 : j = 1 \/ j = 2 \/ j = 3
    OBVIOUS
  <2>2. key \in [1..3 -> Keys]
    BY <2>1 DEF Keys
  <2>3. value \in [1..3 -> Seq(Visible)]
    BY <2>1, LiteralsAreVisible
  <2>4. fields = [j \in 1..3 |-> <<<<key[j]>>, value[j]>>]
    BY <2>1 DEF commd_id, slave_id, time
  <2>5. \A i, j \in 1..3 : key[i] = key[j] => i = j
    BY <2>1
  <2>6. FieldsAre(fields, 3, key, value)
    <3> HIDE DEF key, value, fields
    <3> QED BY <2>2, <2>3, <2>4, <2>5 DEF FieldsAre
  <2> QED BY <2>6
<1>2.  SleepCmd(id, sleep_time) = CmdMapToStr(fields)
  BY DEF SleepCmd
<1> HIDE DEF key, value, fields
<1>3. 3 \in Nat /\ 1 \in 1..3
  OBVIOUS
<1>4. \A i \in 1..3 : Field(CommandStrToMap(CmdMapToStr(fields)), <<key[i]>>) = value[i]
  BY <1>1, <1>3, FieldIsRead
<1>5. Field(CommandStrToMap(CmdMapToStr(fields)), <<key[1]>>) = value[1]
  BY <1>3, <1>4
<1> QED BY <1>1, <1>2, <1>5 DEF commd_id


-------------------------------------------------------------------------------
(* The inductive invariant.                                                *)

\* The best of the sites that were looked at.
Seen(t) == t < it /\ ~url_map[t].isfinised
BestSoFar ==
  \/ badnum = -1 /\ site = NoSite /\ \A t \in Sites : ~Seen(t)
  \/ /\ site \in Sites /\ Seen(site)
     /\ badnum = w.bad[site]
     /\ \A t \in Sites :
          Seen(t) => badnum < w.bad[t] \/ (badnum = w.bad[t] /\ site <= t)

ChooseOK ==
  /\ pc = "choose" => BestSoFar
  /\ pc = "open" => M!MinBadSite(w, site)
  /\ pc \in {"open", "read", "record"} => site \in Sites

Cursor == url_map[site].finished_length

\* The URLs of the batch; they are those from the cursor to pos.
Batch == {<<site, vec_urls[i]>> : i \in DOMAIN vec_urls}

BatchOK ==
  /\ Cursor <= pos /\ (pos = Cursor \/ pos <= Len(File[site]))
  /\ Batch = M!Between(site, Cursor, pos)
  /\ IsFiniteSet(Batch) /\ Cardinality(Batch) = Len(vec_urls)

ReadOK ==
  /\ pc = "read" =>
       /\ BatchOK
       /\ read_line = AssignUrlNumber - Len(vec_urls)
       /\ read_line = 0 => <<site, pos>> \in Batch
  /\ pc = "record" => ReadsABatch

\* What is on its way to the slave when the request is served.
SentOK ==
  /\ pc \in {"choose", "open"} => ~isok
  /\ pc = "read" => \A i \in DOMAIN vec_urls : vec_urls[i] \in 1..Len(File[site])
  /\ pc \in {"record", "served"} /\ isok =>
       /\ site \in Sites /\ Len(vec_urls) = AssignUrlNumber
       /\ \A i \in DOMAIN vec_urls : vec_urls[i] \in 1..Len(File[site])

IInv == TypeOK /\ ChooseOK /\ ReadOK /\ SentOK

-------------------------------------------------------------------------------
(* Sets of URLs.                                                           *)

LEMMA UrlsAre ==
  \A u : u \in Urls <=> \E s \in Sites : \E l \in 1..Len(File[s]) :
                          u = <<s, l>> /\ IsUrl(File[s][l])
<1>1. \A s \in Sites : DOMAIN File[s] = 1..Len(File[s])
  BY SiteReaderAssumption
<1> QED BY <1>1 DEF Urls

LEMMA LenFile == \A s \in Sites : Len(File[s]) \in Nat
BY SiteReaderAssumption

\* Master counts as this module does.
LEMMA SameCardinality == \A S : M!Cardinality(S) = Cardinality(S)
BY DEF M!Cardinality, Cardinality, M!IsFiniteSet, IsFiniteSet

LEMMA BetweenNone ==
  ASSUME NEW s \in Sites, NEW p \in Nat
  PROVE  M!Between(s, p, p) = {}
BY UrlsAre, LenFile DEF M!Between, Sites

LEMMA BetweenBlank ==
  ASSUME NEW s \in Sites, NEW p \in Nat, NEW q \in Nat,
         ~IsUrl(File[s][q + 1])
  PROVE  M!Between(s, p, q + 1) = M!Between(s, p, q)
<1>1. <<s, q + 1>> \notin Urls
  BY UrlsAre
<1>2. \A u \in Urls : u[1] = s => u[2] \in Nat /\ u[2] # q + 1
  BY <1>1, UrlsAre, LenFile
<1> QED BY <1>2 DEF M!Between

LEMMA BetweenUrl ==
  ASSUME NEW s \in Sites, NEW p \in Nat, NEW q \in Nat, p <= q,
         q < Len(File[s]), IsUrl(File[s][q + 1])
  PROVE  /\ M!Between(s, p, q + 1) = M!Between(s, p, q) \cup {<<s, q + 1>>}
         /\ <<s, q + 1>> \notin M!Between(s, p, q)
<1>1. q + 1 \in 1..Len(File[s])
  BY LenFile
<1>2. <<s, q + 1>> \in Urls
  BY <1>1, UrlsAre
<1>3. \A u \in Urls : u = <<u[1], u[2]>> /\ u[2] \in Nat
  BY UrlsAre, LenFile
<1>4. \A u \in Urls : u[1] = s /\ u[2] = q + 1 => u = <<s, q + 1>>
  BY <1>3
<1>5. ASSUME NEW u \in Urls
      PROVE  u \in M!Between(s, p, q + 1)
               <=> u \in M!Between(s, p, q) \/ u = <<s, q + 1>>
  <2>1. u[2] \in Nat
    BY <1>3
  <2> QED BY <1>4, <2>1 DEF M!Between
<1>6. <<s, q + 1>> \notin M!Between(s, p, q)
  BY DEF M!Between
<1> QED BY <1>2, <1>5, <1>6 DEF M!Between

LEMMA BetweenEof ==
  ASSUME NEW s \in Sites, NEW p \in Nat, NEW q \in Nat, q >= Len(File[s])
  PROVE  M!Between(s, p, q) = M!Between(s, p, Len(File[s]))
<1>1. \A u \in Urls : u[1] = s => u[2] \in Nat /\ u[2] <= Len(File[s])
  BY UrlsAre, LenFile
<1> QED BY <1>1, LenFile DEF M!Between

-------------------------------------------------------------------------------

LEMMA InitInv == Init => IInv
<1> SUFFICES ASSUME Init PROVE IInv
  OBVIOUS
<1> USE SiteReaderAssumption
<1>1. conf \in [Sites -> Nat]
  BY DEF Init
<1>2. url_map \in [Sites -> [finished_length : Nat, isfinised : BOOLEAN]]
  BY <1>1 DEF Init, LoadCursors
<1>3. w \in [last_task_site : Sites \cup {NoSite}, bad : [Sites -> Nat]]
  BY DEF Init, NewSlave
<1>4. /\ pc = "idle" /\ missing \in Missing /\ it \in 1..(NumSites + 1)
      /\ badnum \in Nat \cup {-1} /\ site \in Sites \cup {NoSite}
      /\ pos \in Nat /\ read_line \in 0..AssignUrlNumber
      /\ vec_urls \in Seq(Nat) /\ Len(vec_urls) <= AssignUrlNumber
  BY DEF Init
<1>5. isok \in BOOLEAN
  BY Zenon DEF Init
<1> QED BY <1>1, <1>2, <1>3, <1>4, <1>5 DEF IInv, TypeOK, ChooseOK, ReadOK, SentOK

LEMMA TypeOKStep ==
  ASSUME IInv, Next
  PROVE  TypeOK'
<1> USE SiteReaderAssumption DEF TypeOK, Sites
<1>0. TypeOK
  BY DEF IInv
<1>1. ASSUME NEW failed \in BOOLEAN, Request(failed)
      PROVE  TypeOK'
  <2>1. w' \in [last_task_site : Sites \cup {NoSite}, bad : [Sites -> Nat]]
    <3>1. CASE failed
      <4> DEFINE l == w.last_task_site
                 b == [w.bad EXCEPT ![l] = @ + 1]
      <4>1. l \in Sites /\ w' = [w EXCEPT !.bad[l] = @ + 1]
        BY <1>0, <1>1, <3>1 DEF Request
      <4>2. w.bad \in [Sites -> Nat]
        BY <1>0
      <4>3. b \in [Sites -> Nat]
        BY <4>1, <4>2, SMTT(30)
      <4>4. w' = [w EXCEPT !.bad = b]
        BY <4>1
      <4> HIDE DEF b, l
      <4> QED BY <1>0, <4>3, <4>4
    <3>2. CASE ~failed
      BY <1>0, <1>1, <3>2 DEF Request
    <3> QED BY <3>1, <3>2
  <2>2. /\ pc' = "choose" /\ it' = 1 /\ badnum' = -1 /\ site' = NoSite
        /\ vec_urls' = <<>> /\ isok' = FALSE
        /\ UNCHANGED <<url_map, conf, missing, pos, read_line>>
    BY <1>1 DEF Request
  <2>3. 1 \in 1..(NumSites + 1) /\ vec_urls' \in Seq(Nat)
        /\ Len(vec_urls') <= AssignUrlNumber
    BY <2>2
  <2> QED BY <1>0, <2>1, <2>2, <2>3
<1>2. CASE LookAtSite
  <2>1. /\ UNCHANGED <<pc, url_map, conf, w, missing>> /\ UNCHANGED reading
        /\ it \in Sites /\ it' = it + 1
    BY <1>2 DEF LookAtSite
  <2>2. w.bad[it] \in Nat
    BY <1>0, <2>1
  <2>3. badnum' \in Nat \cup {-1} /\ site' \in Sites \cup {NoSite}
    BY <1>0, <1>2, <2>2 DEF LookAtSite
  <2>4. it' \in 1..(NumSites + 1)
    BY <2>1
  <2> QED BY <1>0, <2>1, <2>3, <2>4 DEF reading
<1>3. CASE Chosen
  BY <1>0, <1>3 DEF Chosen, choice, reading
<1>4. CASE OpenFile
  <2>1. /\ UNCHANGED <<url_map, conf, w, missing, isok>> /\ UNCHANGED choice
        /\ pc' = "read" /\ vec_urls' = <<>> /\ read_line' = AssignUrlNumber
        /\ pos' = url_map[site].finished_length /\ site \in Sites
    BY <1>4 DEF OpenFile, IInv, ChooseOK
  <2>2. pos' \in Nat
    BY <1>0, <2>1
  <2>3. vec_urls' \in Seq(Nat) /\ Len(vec_urls') <= AssignUrlNumber
    BY <2>1
  <2> QED BY <1>0, <2>1, <2>2, <2>3, SMTT(30) DEF choice
<1>10. CASE OpenNothing
  BY <1>0, <1>10 DEF OpenNothing, choice, reading
<1>5. CASE ReadBlank
  <2>1. /\ UNCHANGED <<pc, url_map, conf, w, missing, read_line, vec_urls, isok>>
        /\ UNCHANGED choice
        /\ pos' = pos + 1
    BY <1>5 DEF ReadBlank
  <2>2. pos' \in Nat
    BY <1>0, <2>1
  <2> QED BY <1>0, <2>1, <2>2 DEF choice
<1>6. CASE ReadUrl
  <2>1. /\ UNCHANGED <<pc, url_map, conf, w, missing, isok>>
        /\ UNCHANGED choice
        /\ pos' = pos + 1 /\ read_line > 0 /\ read_line' = read_line - 1
        /\ vec_urls' = Append(vec_urls, pos + 1)
        /\ read_line = AssignUrlNumber - Len(vec_urls)
    BY <1>6 DEF ReadUrl, IInv, ReadOK
  <2>2. /\ pos \in Nat /\ read_line \in 0..AssignUrlNumber
        /\ vec_urls \in Seq(Nat) /\ Len(vec_urls) \in Nat
    BY <1>0
  <2>3. /\ pos' \in Nat /\ read_line' \in 0..AssignUrlNumber
        /\ vec_urls' \in Seq(Nat) /\ Len(vec_urls') <= AssignUrlNumber
    BY <2>1, <2>2
  <2> QED BY <1>0, <2>1, <2>3 DEF choice
<1>7. CASE ReadEof \/ ReadEnough
  BY <1>0, <1>7 DEF ReadEof, ReadEnough, choice
<1>8. CASE Record
  <2>1. site \in Sites
    BY <1>8 DEF Record, IInv, ChooseOK
  <2>2. /\ url_map' \in [Sites -> [finished_length : Nat, isfinised : BOOLEAN]]
        /\ w' \in [last_task_site : Sites \cup {NoSite}, bad : [Sites -> Nat]]
    BY <1>0, <1>8, <2>1 DEF Record
  <2>3. conf' \in [Sites -> Nat]
    BY <1>8, <2>2 DEF Record
  <2> QED BY <1>0, <1>8, <2>2, <2>3 DEF Record, choice, reading
<1>9. CASE Restart
  <2>1. /\ url_map' \in [Sites -> [finished_length : Nat, isfinised : BOOLEAN]]
        /\ w' \in [last_task_site : Sites \cup {NoSite}, bad : [Sites -> Nat]]
    BY <1>0, <1>9 DEF Restart, LoadCursors, NewSlave
  <2> QED BY <1>0, <1>9, <2>1 DEF Restart, choice, reading
<1> QED BY <1>1, <1>2, <1>3, <1>4, <1>5, <1>6, <1>7, <1>8, <1>9, <1>10 DEF Next

\* A turn of the loop keeps the best of the sites seen, and the end of the
\* loop finds the best of all.
LEMMA ChooseOKStep ==
  ASSUME IInv, Next
  PROVE  ChooseOK'
<1> USE SiteReaderAssumption DEF ChooseOK
<1>0. TypeOK /\ ChooseOK
  BY DEF IInv
<1>1. ASSUME NEW failed \in BOOLEAN, Request(failed)
      PROVE  ChooseOK'
  <2>1. pc' = "choose" /\ it' = 1 /\ badnum' = -1 /\ site' = NoSite
    BY <1>1 DEF Request
  <2>2. \A t \in Sites : ~(t < 1)
    BY DEF Sites
  <2> QED BY <2>1, <2>2 DEF BestSoFar, Seen
<1>2. CASE LookAtSite
  <2>1. /\ pc = "choose" /\ pc' = "choose" /\ it \in Sites /\ it' = it + 1
        /\ UNCHANGED <<url_map, w>>
        /\ BestSoFar
    BY <1>0, <1>2 DEF LookAtSite
  <2>2. /\ \A t \in Sites : w.bad[t] \in Nat /\ t \in Nat
        /\ it \in Nat /\ badnum \in Nat \cup {-1}
    BY <1>0 DEF TypeOK, Sites
  <2>3. \A t \in Sites : t < it' <=> t < it \/ t = it
    BY <2>1, <2>2
  <2>4. CASE ~url_map[it].isfinised /\ (badnum = -1 \/ badnum > w.bad[it])
    <3>1. badnum' = w.bad[it] /\ site' = it
      BY <1>2, <2>4 DEF LookAtSite
    <3>2. ASSUME NEW t \in Sites, t < it', ~url_map[t].isfinised
          PROVE  w.bad[it] < w.bad[t] \/ (w.bad[it] = w.bad[t] /\ it <= t)
      <4>1. CASE t = it
        BY <2>2, <4>1
      <4>2. CASE t < it
        <5>1. /\ w.bad[t] \in Nat /\ w.bad[it] \in Nat
              /\ badnum \in Nat \cup {-1}
          BY <2>1, <2>2
        <5>2. Seen(t)
          BY <3>2, <4>2 DEF Seen
        <5>3. badnum \in Nat /\ (badnum < w.bad[t] \/ badnum = w.bad[t])
          <6>1. /\ site \in Sites /\ badnum = w.bad[site]
                /\ badnum < w.bad[t] \/ (badnum = w.bad[t] /\ site <= t)
            BY <2>1, <5>2 DEF BestSoFar
          <6> QED BY <2>2, <6>1
        <5> QED BY <2>4, <5>1, <5>3
      <4> QED BY <2>3, <3>2, <4>1, <4>2
    <3>3. it < it'
      BY <2>1, <2>2
    <3> QED BY <2>1, <2>4, <3>1, <3>2, <3>3 DEF BestSoFar, Seen
  <2>5. CASE ~(~url_map[it].isfinised /\ (badnum = -1 \/ badnum > w.bad[it]))
    <3>1. badnum' = badnum /\ site' = site
      BY <1>2, <2>5 DEF LookAtSite
    <3>2. CASE url_map[it].isfinised
      BY <2>1, <2>3, <3>1, <3>2 DEF BestSoFar, Seen
    <3>3. CASE ~url_map[it].isfinised
      <4>1. badnum # -1 /\ badnum \in Nat /\ badnum <= w.bad[it]
        BY <2>1, <2>2, <2>5, <3>3
      <4>2. /\ site \in Sites /\ site < it /\ ~url_map[site].isfinised
            /\ badnum = w.bad[site]
            /\ \A t \in Sites : t < it /\ ~url_map[t].isfinised =>
                 badnum < w.bad[t] \/ (badnum = w.bad[t] /\ site <= t)
        BY <2>1, <4>1 DEF BestSoFar, Seen
      <4>3. badnum < w.bad[it] \/ (badnum = w.bad[it] /\ site <= it)
        <5>1. w.bad[it] \in Nat /\ site \in Nat /\ it \in Nat
          BY <2>1, <2>2, <4>2
        <5> QED BY <4>1, <4>2, <5>1
      <4>4. \A t \in Sites : t < it' /\ ~url_map[t].isfinised =>
                 badnum < w.bad[t] \/ (badnum = w.bad[t] /\ site <= t)
        BY <2>3, <4>2, <4>3
      <4>5. site < it'
        BY <2>3, <4>2
      <4> QED BY <2>1, <3>1, <4>2, <4>4, <4>5 DEF BestSoFar, Seen
    <3> QED BY <3>2, <3>3
  <2> QED BY <2>4, <2>5
<1>3. CASE Chosen
  <2>1. /\ pc = "choose" /\ it \notin Sites /\ pc' \in {"open", "served"}
        /\ pc' = "open" => site # NoSite
        /\ UNCHANGED <<url_map, w, site>>
        /\ BestSoFar
    BY <1>0, <1>3 DEF Chosen, choice
  <2>2. /\ \A t \in Sites : w.bad[t] \in Nat /\ t \in Nat /\ t < it
        /\ \A t \in Sites : url_map[t].finished_length # -1
    <3>1. \A t \in Sites : url_map[t].finished_length \in Nat
      BY <1>0 DEF TypeOK
    <3>2. \A t \in Sites : w.bad[t] \in Nat
      BY <1>0 DEF TypeOK
    <3>3. it \in 1..(NumSites + 1) /\ it = NumSites + 1
      BY <1>0, <2>1 DEF TypeOK, Sites
    <3> QED BY <3>1, <3>2, <3>3 DEF Sites
  <2>3. site # NoSite => M!MinBadSite(w, site)
    BY <2>1, <2>2 DEF BestSoFar, Seen, M!MinBadSite, M!Unfinished, M!Absent
  <2>4. site # NoSite => site \in Sites
    BY <2>1 DEF BestSoFar, Seen
  <2> QED BY <2>1, <2>3, <2>4 DEF M!MinBadSite, M!Unfinished, M!Absent
<1>4. CASE OpenFile \/ OpenNothing
  BY <1>0, <1>4 DEF OpenFile, OpenNothing, choice
<1>5. CASE ReadBlank \/ ReadUrl \/ ReadEof \/ ReadEnough
  BY <1>0, <1>5 DEF ReadBlank, ReadUrl, ReadEof, ReadEnough, choice
<1>6. CASE Record \/ Restart
  BY <1>6 DEF Record, Restart
<1> QED BY <1>1, <1>2, <1>3, <1>4, <1>5, <1>6 DEF Next

\* A line that is read moves pos and, if it is a URL, the batch with it.
LEMMA ReadOKStep ==
  ASSUME IInv, Next
  PROVE  ReadOK'
<1> USE DEF ReadOK
<1>0. /\ TypeOK /\ ReadOK
      /\ pc \in {"open", "read", "record"} => site \in Sites /\ Cursor \in Nat
      /\ pos \in Nat /\ read_line \in 0..AssignUrlNumber
      /\ vec_urls \in Seq(Nat) /\ Len(vec_urls) \in Nat
      /\ AssignUrlNumber \in Nat \ {0}
  BY SiteReaderAssumption, SMTT(30) DEF IInv, TypeOK, ChooseOK, Cursor
<1>1. ASSUME NEW failed \in BOOLEAN, Request(failed)
      PROVE  ReadOK'
  BY <1>1 DEF Request
<1>2. CASE LookAtSite \/ Chosen \/ OpenNothing \/ Record \/ Restart
  BY <1>2 DEF LookAtSite, Chosen, OpenNothing, Record, Restart
<1>3. CASE OpenFile
  <2>1. /\ pc = "open" /\ pc' = "read" /\ vec_urls' = <<>>
        /\ read_line' = AssignUrlNumber
        /\ pos' = Cursor /\ Cursor' = Cursor /\ site' = site
        /\ UNCHANGED url_map
    BY <1>3 DEF OpenFile, choice, Cursor
  <2>2. Batch' = {}
    BY <2>1 DEF Batch
  <2>3. M!Between(site, Cursor, Cursor) = {}
    BY <1>0, <2>1, BetweenNone
  <2>4. M!Between(site, Cursor, pos)' = {}
    BY <2>1, <2>3 DEF M!Between
  <2>5. IsFiniteSet({}) /\ Cardinality({}) = 0
    BY FS_EmptySet
  <2>6. BatchOK'
    BY <1>0, <2>1, <2>2, <2>4, <2>5 DEF BatchOK
  <2> QED BY <1>0, <2>1, <2>6
<1>4. CASE ReadBlank
  <2>1. /\ pc = "read" /\ pc' = "read" /\ read_line > 0
        /\ pos' = pos + 1 /\ pos < Len(File[site])
        /\ ~IsUrl(File[site][pos + 1])
        /\ UNCHANGED <<url_map, site, vec_urls, read_line>>
    BY <1>4 DEF ReadBlank, choice
  <2>2. M!Between(site, Cursor, pos + 1) = M!Between(site, Cursor, pos)
    BY <1>0, <2>1, BetweenBlank
  <2>3. M!Between(site, Cursor, pos)' = M!Between(site, Cursor, pos)
    BY <2>1, <2>2 DEF M!Between, Cursor
  <2>4. Batch' = Batch /\ Cursor' = Cursor
    BY <2>1 DEF Batch, Cursor
  <2>5. pos + 1 <= Len(File[site]) /\ Cursor <= pos + 1
    BY <1>0, <2>1, LenFile DEF BatchOK
  <2>6. BatchOK'
    BY <1>0, <2>1, <2>3, <2>4, <2>5 DEF BatchOK
  <2> QED BY <1>0, <2>1, <2>6
<1>5. CASE ReadUrl
  <2>1. /\ pc = "read" /\ pc' = "read" /\ read_line > 0
        /\ pos' = pos + 1 /\ pos < Len(File[site])
        /\ IsUrl(File[site][pos + 1])
        /\ vec_urls' = Append(vec_urls, pos + 1)
        /\ read_line' = read_line - 1
        /\ UNCHANGED <<url_map, site>>
    BY <1>5 DEF ReadUrl, choice
  <2>2. BatchOK /\ read_line = AssignUrlNumber - Len(vec_urls)
    BY <1>0, <2>1
  <2> DEFINE u == <<site, pos + 1>>
  <2>3. /\ M!Between(site, Cursor, pos + 1) = M!Between(site, Cursor, pos) \cup {u}
        /\ u \notin M!Between(site, Cursor, pos)
    BY <1>0, <2>1, <2>2, BetweenUrl DEF BatchOK
  <2>4. M!Between(site, Cursor, pos)' = M!Between(site, Cursor, pos) \cup {u}
    BY <2>1, <2>3 DEF M!Between, Cursor
  <2>5. /\ Len(vec_urls') = Len(vec_urls) + 1
        /\ \A i \in 1..Len(vec_urls) : vec_urls'[i] = vec_urls[i]
        /\ vec_urls'[Len(vec_urls) + 1] = pos + 1
        /\ DOMAIN vec_urls = 1..Len(vec_urls)
        /\ DOMAIN vec_urls' = 1..(Len(vec_urls) + 1)
    BY <1>0, <2>1
  <2>6. Batch' = Batch \cup {u}
    <3>1. \A i \in 1..(Len(vec_urls) + 1) :
            i \in 1..Len(vec_urls) \/ i = Len(vec_urls) + 1
      BY <1>0
    <3>2. 1..Len(vec_urls) \subseteq 1..(Len(vec_urls) + 1)
          /\ Len(vec_urls) + 1 \in 1..(Len(vec_urls) + 1)
      BY <1>0
    <3> QED BY <2>1, <2>5, <3>1, <3>2 DEF Batch
  <2>7. u \notin Batch
    BY <2>2, <2>3 DEF BatchOK
  <2>8. IsFiniteSet(Batch') /\ Cardinality(Batch') = Cardinality(Batch) + 1
    BY <2>2, <2>6, <2>7, FS_AddElement DEF BatchOK
  <2>9. pos + 1 <= Len(File[site]) /\ Cursor <= pos + 1 /\ Cursor' = Cursor
    BY <1>0, <2>1, <2>2, LenFile, SMTT(30) DEF BatchOK, Cursor
  <2>10. BatchOK'
    BY <1>0, <2>1, <2>2, <2>4, <2>5, <2>6, <2>8, <2>9 DEF BatchOK
  <2>11. read_line' = AssignUrlNumber - Len(vec_urls')
    BY <1>0, <2>1, <2>2, <2>5
  <2>12. <<site, pos>>' \in Batch'
    BY <2>1, <2>6
  <2> QED BY <2>1, <2>10, <2>11, <2>12
<1>6. CASE ReadEof
  <2>1. /\ pc = "read" /\ pc' = "record" /\ ~isok' /\ read_line > 0
        /\ pos >= Len(File[site])
        /\ UNCHANGED <<url_map, site, pos, vec_urls>>
    BY <1>6 DEF ReadEof, choice
  <2>2. BatchOK /\ read_line = AssignUrlNumber - Len(vec_urls)
    BY <1>0, <2>1
  <2>3. M!Between(site, Cursor, pos) = M!Between(site, Cursor, Len(File[site]))
    BY <1>0, <2>1, BetweenEof
  <2>4. Len(File[site]) \in Nat /\ site \in Sites
    BY <1>0, <2>1, LenFile
  <2>5. Cardinality(M!Between(site, Cursor, Len(File[site]))) < AssignUrlNumber
    BY <1>0, <2>1, <2>2, <2>3 DEF BatchOK
  <2>6. M!ReadMeetsEof(site, Cursor)
    BY <2>4, <2>5, SameCardinality DEF M!ReadMeetsEof
  <2>7. Batch = M!Between(site, Cursor, Len(File[site]))
    BY <2>2, <2>3 DEF BatchOK
  <2>8. pos = IF Cursor > Len(File[site]) THEN Cursor ELSE Len(File[site])
    BY <1>0, <2>1, <2>2, <2>4 DEF BatchOK
  <2> QED BY <2>1, <2>6, <2>7, <2>8
          DEF ReadsABatch, Cursor, Batch, M!ReadMeetsEof, M!Between
<1>7. CASE ReadEnough
  <2>1. /\ pc = "read" /\ pc' = "record" /\ isok' /\ read_line = 0
        /\ UNCHANGED <<url_map, site, pos, vec_urls>>
    BY <1>7 DEF ReadEnough, choice
  <2>2. BatchOK /\ Len(vec_urls) = AssignUrlNumber
    BY <1>0, <2>1
  <2>3. <<site, pos>> \in Batch
    BY <1>0, <2>1
  <2>4. M!ReadStopsAt(site, Cursor, pos)
    BY <2>2, <2>3, SameCardinality DEF BatchOK, M!ReadStopsAt
  <2>5. Batch = M!Between(site, Cursor, pos)
    BY <2>2 DEF BatchOK
  <2> QED BY <2>1, <2>4, <2>5
          DEF ReadsABatch, Cursor, Batch, M!ReadStopsAt, M!Between
<1> QED BY <1>1, <1>2, <1>3, <1>4, <1>5, <1>6, <1>7 DEF Next

\* What was read stands in the file, and a full batch is on its way until the
\* next request.
LEMMA SentOKStep ==
  ASSUME IInv, Next
  PROVE  SentOK'
<1>0. TypeOK /\ ChooseOK /\ ReadOK /\ SentOK
  BY DEF IInv
<1>1. CASE \E failed \in BOOLEAN : Request(failed)
  BY <1>1 DEF Request, SentOK
<1>2. CASE LookAtSite \/ Chosen \/ OpenNothing \/ Restart
  <2>1. CASE LookAtSite
    BY <1>0, <2>1 DEF LookAtSite, SentOK, reading
  <2>2. CASE Chosen
    BY <1>0, <2>2 DEF Chosen, SentOK, reading
  <2>3. CASE OpenNothing
    BY <2>3 DEF OpenNothing, SentOK
  <2>4. CASE Restart
    BY <2>4 DEF Restart, SentOK
  <2> QED BY <1>2, <2>1, <2>2, <2>3, <2>4
<1>3. CASE OpenFile
  BY <1>3 DEF OpenFile, SentOK
<1>4. CASE ReadBlank
  BY <1>0, <1>4 DEF ReadBlank, SentOK, choice
<1>5. CASE ReadUrl
  <2>1. /\ pc = "read" /\ pc' = "read" /\ site' = site
        /\ pos \in Nat /\ vec_urls \in Seq(Nat)
        /\ pos < Len(File[site]) /\ vec_urls' = Append(vec_urls, pos + 1)
    BY <1>0, <1>5 DEF ReadUrl, choice, TypeOK
  <2>2. Len(File[site]) \in Nat
    BY <1>0, <2>1, LenFile DEF ChooseOK
  <2>3. \A i \in DOMAIN vec_urls' :
          (i \in DOMAIN vec_urls /\ vec_urls'[i] = vec_urls[i])
            \/ vec_urls'[i] = pos + 1
    BY <2>1
  <2>4. \A i \in DOMAIN vec_urls' : vec_urls'[i] \in 1..Len(File[site])
    BY <1>0, <2>1, <2>2, <2>3 DEF SentOK
  <2> QED BY <2>1, <2>4 DEF SentOK
<1>6. CASE ReadEof
  BY <1>6 DEF ReadEof, SentOK
<1>7. CASE ReadEnough
  <2>1. /\ pc = "read" /\ pc' = "record" /\ read_line = 0
        /\ site' = site /\ vec_urls' = vec_urls
    BY <1>7 DEF ReadEnough, choice
  <2>2. site \in Sites /\ Len(vec_urls) \in Nat /\ AssignUrlNumber \in Nat
    BY <1>0, <2>1, SiteReaderAssumption DEF ChooseOK, TypeOK
  <2>3. Len(vec_urls) = AssignUrlNumber
    BY <1>0, <2>1, <2>2 DEF ReadOK
  <2> QED BY <1>0, <2>1, <2>2, <2>3 DEF SentOK
<1>8. CASE Record
  BY <1>0, <1>8 DEF Record, SentOK, choice, reading
<1> QED BY <1>1, <1>2, <1>3, <1>4, <1>5, <1>6, <1>7, <1>8 DEF Next

LEMMA Invariance == Spec => []IInv
<1>1. ASSUME IInv, [Next]_vars
      PROVE  IInv'
  <2>1. CASE Next
    BY <1>1, <2>1, TypeOKStep, ChooseOKStep, ReadOKStep, SentOKStep DEF IInv
  <2>2. CASE UNCHANGED vars
    <3>1. TypeOK'
      BY <1>1, <2>2 DEF IInv, TypeOK, vars
    <3>2. ChooseOK'
      BY <1>1, <2>2
         DEF IInv, ChooseOK, BestSoFar, Seen, M!MinBadSite, M!Unfinished, vars
    <3>3. ReadOK'
      BY <1>1, <2>2
         DEF IInv, ReadOK, BatchOK, Batch, Cursor, ReadsABatch, M!Between,
             M!ReadStopsAt, M!ReadMeetsEof, vars
    <3>4. SentOK'
      BY <1>1, <2>2 DEF IInv, SentOK, vars
    <3> QED BY <3>1, <3>2, <3>3, <3>4 DEF IInv
  <2> QED BY <1>1, <2>1, <2>2
<1> QED BY <1>1, InitInv, PTL DEF Spec

-------------------------------------------------------------------------------

\* Cursors stay places in or behind a file, for any files and cursor files.
THEOREM TypeCorrect == Spec => []TypeOK
BY Invariance, PTL DEF IInv

\* The loop over the sites chooses among the unfinished ones the first of
\* those on which the slave failed least, for any number of sites.
THEOREM LeastBadIsChosen == Spec => []ChoosesLeastBad
<1>1. IInv => ChoosesLeastBad
  BY DEF IInv, ChooseOK, ChoosesLeastBad
<1> QED BY <1>1, Invariance, PTL

\* The loop over the lines reads a full batch and stops at its last URL, or
\* meets the end of the file, for any file, cursor and size of a batch.
THEOREM BatchIsRead == Spec => []ReadsABatch
<1>1. IInv => ReadsABatch
  BY DEF IInv, ReadOK, ReadsABatch
<1> QED BY <1>1, Invariance, PTL

-------------------------------------------------------------------------------
(* What arrives.                                                           *)

\* The lines of the files are texts.
LEMMA FilesAreTexts ==
  ASSUME NEW s \in Sites, NEW l \in 1..Len(File[s])
  PROVE  File[s][l] \in Seq(Char)
<1>1. File[s] \in Seq(Seq(STRING))
  BY SiteReaderAssumption
<1>2. File[s][l] \in Seq(STRING)
  BY <1>1, ElementOfSeq
<1>3. STRING \subseteq Char
  BY DEF Char
<1> QED BY <1>2, <1>3, SeqGrows

\* The reply that is on its way says what stands in the file.
LEMMA ReplyArrives == TypeOK /\ SentOK => BatchArrives
<1> SUFFICES ASSUME TypeOK, SentOK, pc = "served"
             PROVE  LET task == Str2Task(Reply) IN
                    IF isok
                      THEN LET line(i) == File[site][vec_urls[i]]
                               url(i)  == SubSeq(line(i), 8, Len(line(i)) - 1)
                           IN (\A i \in DOMAIN vec_urls : IsPlain(line(i))) =>
                                /\ task.cmd_id = GRABPAGE /\ ~task.died
                                /\ task.urls_vec = [i \in DOMAIN vec_urls |-> url(i)]
                                /\ \A i \in DOMAIN vec_urls :
                                     \E p \in DOMAIN url(i) :
                                       /\ url(i)[p] = "/" /\ \A q \in 1..(p - 1) : url(i)[q] # "/"
                                       /\ task.urls_http_req[i] =
                                            <<"GET">> \o SubSeq(url(i), p, Len(url(i)))
                                              \o <<"Host">> \o SubSeq(url(i), 1, p - 1)
                      ELSE task.cmd_id = SLEEP
  BY DEF BatchArrives
<1> DEFINE task == Str2Task(Reply)
           map == CommandStrToMap(Reply)
<1>1. task.cmd_id = Field(map, commd_id)
  BY DEF Str2Task
<1>2. CASE ~isok
  <2>1. Reply = SleepCmd(<<"1">>, <<"5">>)
    BY <1>2 DEF Reply
  <2>2. Field(map, commd_id) = SLEEP
    BY <2>1, LiteralsAreVisible, SleepCmdIsRead
  <2> QED BY <1>1, <1>2, <2>2
<1>3. CASE isok
  <2> DEFINE line(i) == File[site][vec_urls[i]]
             url(i) == SubSeq(line(i), 8, Len(line(i)) - 1)
             n == Len(vec_urls)
             vec == [i \in DOMAIN vec_urls |-> UrlOfLine(line(i))]
             Plain == \A i \in DOMAIN vec_urls : IsPlain(line(i))
             Asked(i) ==
               \E p \in DOMAIN url(i) :
                 /\ url(i)[p] = "/" /\ \A q \in 1..(p - 1) : url(i)[q] # "/"
                 /\ HttpReq(url(i)) =
                      <<"GET">> \o SubSeq(url(i), p, Len(url(i)))
                        \o <<"Host">> \o SubSeq(url(i), 1, p - 1)
             AskedInTask(i) ==
               \E p \in DOMAIN url(i) :
                 /\ url(i)[p] = "/" /\ \A q \in 1..(p - 1) : url(i)[q] # "/"
                 /\ task.urls_http_req[i] =
                      <<"GET">> \o SubSeq(url(i), p, Len(url(i)))
                        \o <<"Host">> \o SubSeq(url(i), 1, p - 1)
  <2>1. SUFFICES ASSUME Plain
                 PROVE  /\ task.cmd_id = GRABPAGE /\ ~task.died
                        /\ task.urls_vec = [i \in DOMAIN vec_urls |-> url(i)]
                        /\ \A i \in DOMAIN vec_urls : AskedInTask(i)
    <3> HIDE DEF task
    <3> QED BY <1>3 DEF task
  <2>2. /\ n \in Nat \ {0} /\ DOMAIN vec_urls = 1..n /\ site \in Sites
        /\ \A i \in 1..n : vec_urls[i] \in 1..Len(File[site])
    <3>1. /\ site \in Sites /\ n = AssignUrlNumber /\ vec_urls \in Seq(Nat)
          /\ \A i \in DOMAIN vec_urls : vec_urls[i] \in 1..Len(File[site])
      BY <1>3 DEF TypeOK, SentOK
    <3>2. DOMAIN vec_urls = 1..n
      BY <3>1
    <3> QED BY <3>1, <3>2, SiteReaderAssumption
  <2> HIDE DEF n
  <2>3. ASSUME NEW i \in 1..n
        PROVE  /\ vec[i] = url(i) /\ url(i) \in Seq(UrlChar) /\ url(i) # <<>>
               /\ FirstOf(url(i), {"/"}) # 0
    <3> DEFINE l == line(i)
    <3>1. l \in Seq(Char) /\ IsPlain(l)
      BY <2>1, <2>2, FilesAreTexts
    <3>2. vec[i] = UrlOfLine(l)
      BY <2>2
    <3> HIDE DEF l, vec
    <3>3. /\ UrlOfLine(l) = SubSeq(l, 8, Len(l) - 1)
          /\ SubSeq(l, 8, Len(l) - 1) \in Seq(UrlChar)
          /\ SubSeq(l, 8, Len(l) - 1) # <<>>
          /\ FirstOf(SubSeq(l, 8, Len(l) - 1), {"/"}) # 0
      BY <3>1, PlainUrl
    <3> QED BY <3>2, <3>3 DEF l
  <2>4. Reply = AssignCmd(vec, <<"1">>, <<"9">>)
    BY <1>3 DEF Reply
  <2>5. vec = [i \in 1..n |-> vec[i]]
    BY <2>2
  <2>6. DOMAIN vec = 1..n
    BY <2>2
  <2>7. vec = [i \in DOMAIN vec_urls |-> url(i)]
    <3> HIDE DEF vec, url
    <3> QED BY <2>2, <2>3, <2>5
  <2>8. \A i \in 1..n : FirstOf(vec[i], {"/"}) # 0 /\ vec[i] \in Seq(UrlChar)
                           /\ vec[i] # <<>>
    <3> HIDE DEF vec, url
    <3> QED BY <2>3
  <2>9. \A i \in 1..n : Asked(i)
    <3> HIDE DEF vec
    <3> TAKE i \in 1..n
    <3> DEFINE u == url(i)
    <3>1. u \in Seq(UrlChar) /\ FirstOf(u, {"/"}) # 0
      BY <2>3
    <3> HIDE DEF u
    <3>2. \E p \in DOMAIN u :
            /\ u[p] = "/" /\ \A q \in 1..(p - 1) : u[q] # "/"
            /\ HttpReq(u) = <<"GET">> \o SubSeq(u, p, Len(u))
                               \o <<"Host">> \o SubSeq(u, 1, p - 1)
      BY <3>1, RequestOfUrl
    <3> QED BY <3>2 DEF u
  <2> HIDE DEF vec, Asked
  <2>10. vec \in Seq(Seq(UrlChar)) /\ Len(vec) = n
    BY <2>2, <2>5, <2>8, TextsAre
  <2>11. RequestUrl(vec) \in Seq(Visible) /\ Split(RequestUrl(vec), {"#"}) = vec
    <3>1. vec # <<>>
      BY <2>2, <2>10
    <3>2. \A i \in 1..Len(vec) : vec[i] # <<>>
      BY <2>8, <2>10
    <3> QED BY <2>10, <3>1, <3>2, BatchIsSplit
  <2>12. Field(map, commd_id) = GRABPAGE /\ Field(map, urls) = RequestUrl(vec)
    BY <2>4, <2>11, LiteralsAreVisible, AssignCmdIsRead
  <2>13. /\ task.urls_vec = vec
         /\ task.died = \E i \in DOMAIN vec : FirstOf(vec[i], {"/"}) = 0
         /\ task.urls_http_req = IF \E i \in DOMAIN vec : FirstOf(vec[i], {"/"}) = 0
                                   THEN <<>>
                                   ELSE [i \in DOMAIN vec |-> HttpReq(vec[i])]
    BY <2>11, <2>12 DEF Str2Task
  <2> HIDE DEF task, map
  <2>14. ~task.died /\ task.urls_http_req = [i \in 1..n |-> HttpReq(vec[i])]
    BY <2>6, <2>8, <2>13
  <2>15. ASSUME NEW i \in 1..n
         PROVE  AskedInTask(i)
    <3>1. task.urls_http_req[i] = HttpReq(url(i))
      BY <2>3, <2>14
    <3> QED BY <2>9, <3>1 DEF Asked
  <2> QED BY <1>1, <2>2, <2>7, <2>12, <2>13, <2>14, <2>15
<1> QED BY <1>2, <1>3

\* A full batch of lines as the files are meant to have them is grabbed as it
\* stands in the file, and without a batch the slave is told to sleep: what
\* read_sitefile_lines and assign_request make of the lines, the slave's
\* split_line, split and convert_url_to_http_req undo, for any files of any
\* lines, any number of them in a batch, and whatever the cursors are.
THEOREM BatchArrivesWhole == Spec => []BatchArrives
<1>1. IInv => BatchArrives
  BY ReplyArrives DEF IInv
<1> QED BY <1>1, Invariance, PTL

-------------------------------------------------------------------------------
(* The information extraction: places in texts.                            *)

\* Adding a place behind the others.
LEMMA RisingGrows ==
  ASSUME NEW n \in Nat, NEW b, Rising(b, n), NEW x \in Nat,
         \A i \in 1..n : b[i] < x,
         NEW c, c = [i \in 1..(n + 1) |-> IF i = n + 1 THEN x ELSE b[i]]
  PROVE  Rising(c, n + 1) /\ Places(c, n + 1) = Places(b, n) \cup {x}
<1>1. 1..(n + 1) = (1..n) \cup {n + 1} /\ n + 1 \notin 1..n /\ n + 1 \in Nat
  OBVIOUS
<1>2. c[n + 1] = x /\ \A i \in 1..n : c[i] = b[i]
  BY <1>1
<1>3. c \in [1..(n + 1) -> Nat]
  BY <1>1 DEF Rising
<1>4. ASSUME NEW i \in 1..(n + 1), NEW j \in 1..(n + 1), i < j
      PROVE  c[i] < c[j]
  <2>1. i \in 1..n
    BY <1>1, <1>4
  <2>2. CASE j = n + 1
    BY <1>2, <2>1, <2>2
  <2>3. CASE j \in 1..n
    BY <1>2, <1>4, <2>1, <2>3 DEF Rising
  <2> QED BY <1>1, <2>2, <2>3
<1>5. Places(c, n + 1) = Places(b, n) \cup {x}
  BY <1>1, <1>2 DEF Places
<1>6. Rising(c, n + 1)
  BY <1>3, <1>4 DEF Rising
<1> QED BY <1>5, <1>6

\* Any places of a text can be put in their order.
LEMMA SortedExists ==
  ASSUME NEW L \in Nat, NEW S \in SUBSET (1..L)
  PROVE  \E n \in Nat : \E b : Rising(b, n) /\ Places(b, n) = S
<1> DEFINE Sorted(X) == \E n \in Nat : \E b : Rising(b, n) /\ Places(b, n) = X
           T == {m \in Nat : \A X \in SUBSET (1..m) : Sorted(X)}
<1>1. 0 \in T
  <2>1. Rising(<<>>, 0) /\ Places(<<>>, 0) = {} /\ 0 \in Nat
    BY DEF Rising, Places
  <2>2. Sorted({})
    BY <2>1
  <2>3. \A X \in SUBSET (1..0) : X = {}
    OBVIOUS
  <2> HIDE DEF Sorted
  <2> QED BY <2>2, <2>3
<1>2. ASSUME NEW m \in T
      PROVE  m + 1 \in T
  <2>0. m \in Nat /\ m + 1 \in Nat
    OBVIOUS
  <2>1. SUFFICES ASSUME NEW X \in SUBSET (1..(m + 1))
                 PROVE  Sorted(X)
    <3> HIDE DEF Sorted
    <3> QED BY <2>0
  <2> DEFINE Y == X \ {m + 1}
  <2>2. Y \in SUBSET (1..m)
    BY <2>0
  <2>3. Sorted(Y)
    <3> HIDE DEF Sorted, Y
    <3> QED BY <2>2
  <2>4. CASE m + 1 \notin X
    <3>1. X = Y
      BY <2>4
    <3> HIDE DEF Sorted, Y
    <3> QED BY <2>3, <3>1
  <2>5. CASE m + 1 \in X
    <3>1a. PICK n \in Nat : \E b : Rising(b, n) /\ Places(b, n) = Y
      BY <2>3
    <3>1. PICK b : Rising(b, n) /\ Places(b, n) = Y
      BY <3>1a
    <3>2. \A i \in 1..n : b[i] < m + 1
      <4>1. \A i \in 1..n : b[i] \in Y
        BY <3>1 DEF Places
      <4>2. \A y \in Y : y < m + 1
        BY <2>0, <2>2
      <4> HIDE DEF Y
      <4> QED BY <4>1, <4>2
    <3>3. X = Y \cup {m + 1}
      BY <2>5
    <3> DEFINE c == [i \in 1..(n + 1) |-> IF i = n + 1 THEN m + 1 ELSE b[i]]
    <3>4. Rising(c, n + 1) /\ Places(c, n + 1) = Y \cup {m + 1}
      <4>1. c = [i \in 1..(n + 1) |-> IF i = n + 1 THEN m + 1 ELSE b[i]]
        OBVIOUS
      <4> HIDE DEF Y, c
      <4>2. Rising(c, n + 1) /\ Places(c, n + 1) = Places(b, n) \cup {m + 1}
        BY <2>0, <3>1, <3>2, <4>1, RisingGrows
      <4> QED BY <3>1, <4>2
    <3> HIDE DEF Y, c
    <3>5. n + 1 \in Nat
      OBVIOUS
    <3> QED BY <3>3, <3>4, <3>5
  <2> QED BY <2>4, <2>5
<1>3. T = Nat
  <2>1. T \in SUBSET Nat
    OBVIOUS
  <2> HIDE DEF T
  <2> QED BY <1>1, <1>2, <2>1, AllOfNat
<1>4. \A X \in SUBSET (1..L) : Sorted(X)
  <2> HIDE DEF Sorted
  <2> QED BY <1>3
<1> QED BY <1>4

\* What stands at some places, from their order.
LEMMA PickedIs ==
  ASSUME NEW n \in Nat, NEW b, Rising(b, n), NEW seq
  PROVE  Picked(seq, Places(b, n)) = [k \in 1..n |-> seq[b[k]]]
<1>1. Cardinality(Places(b, n)) = n
  <2>1. n \in 0..n
    OBVIOUS
  <2> QED BY <2>1, PlacesCount
<1>2. \A k \in 1..n : seq[Nth(Places(b, n), k)] = seq[b[k]]
  BY NthIs
<1> QED BY <1>1, <1>2 DEF Picked

LEMMA PickedNone == ASSUME NEW seq PROVE Picked(seq, {}) = <<>>
<1>1. Rising(<<>>, 0) /\ Places(<<>>, 0) = {} /\ 0 \in Nat
  BY DEF Rising, Places
<1>2. Picked(seq, {}) = [k \in 1..0 |-> seq[<<>>[k]]]
  BY <1>1, PickedIs
<1>3. 1..0 = {}
  OBVIOUS
<1> QED BY <1>2, <1>3

\* A place behind the others adds what stands there.
LEMMA PickedGrows ==
  ASSUME NEW L \in Nat, NEW S \in SUBSET (1..L), NEW x \in Nat,
         \A i \in S : i < x, NEW seq
  PROVE  Picked(seq, S \cup {x}) = Append(Picked(seq, S), seq[x])
<1>1a. PICK n \in Nat : \E b : Rising(b, n) /\ Places(b, n) = S
  BY SortedExists
<1>1. PICK b : Rising(b, n) /\ Places(b, n) = S
  BY <1>1a
<1> DEFINE c == [i \in 1..(n + 1) |-> IF i = n + 1 THEN x ELSE b[i]]
<1>2. \A i \in 1..n : b[i] < x /\ b[i] \in S
  BY <1>1 DEF Places
<1>3. Rising(c, n + 1) /\ Places(c, n + 1) = S \cup {x}
  <2>1. c = [i \in 1..(n + 1) |-> IF i = n + 1 THEN x ELSE b[i]]
    OBVIOUS
  <2> HIDE DEF c
  <2>2. Rising(c, n + 1) /\ Places(c, n + 1) = Places(b, n) \cup {x}
    BY <1>1, <1>2, <2>1, RisingGrows
  <2> QED BY <1>1, <2>2
<1> DEFINE p == [k \in 1..n |-> seq[b[k]]]
           q == [k \in 1..(n + 1) |-> seq[c[k]]]
<1>4. Picked(seq, S) = p
  BY <1>1, PickedIs
<1>5. Picked(seq, S \cup {x}) = q
  <2>1. n + 1 \in Nat
    OBVIOUS
  <2> HIDE DEF c
  <2>2. Picked(seq, Places(c, n + 1)) = [k \in 1..(n + 1) |-> seq[c[k]]]
    BY <1>3, <2>1, PickedIs
  <2> QED BY <1>3, <2>2
<1>6. p \in Seq({seq[i] : i \in S}) /\ Len(p) = n
  <2>1. \A k \in 1..n : seq[b[k]] \in {seq[i] : i \in S}
    BY <1>2
  <2> DEFINE T == {seq[i] : i \in S}
  <2> HIDE DEF T
  <2>2. p \in [1..n -> T]
    BY <2>1 DEF T
  <2>3. p \in Seq(T) /\ Len(p) = n
    <3> HIDE DEF p
    <3> QED BY <2>2
  <2> QED BY <2>3 DEF T
<1>7. \A k \in 1..(n + 1) : q[k] = IF k = n + 1 THEN seq[x] ELSE p[k]
  OBVIOUS
<1>8. q = Append(p, seq[x])
  <2>1. Append(p, seq[x]) = [k \in 1..(n + 1) |-> IF k = n + 1 THEN seq[x] ELSE p[k]]
    <3> HIDE DEF p
    <3> QED BY <1>6
  <2> QED BY <1>7, <2>1
<1> QED BY <1>4, <1>5, <1>6, <1>8

\* The same places of two sequences that agree there.
LEMMA PickedSame ==
  ASSUME NEW L \in Nat, NEW S \in SUBSET (1..L), NEW seq, NEW other,
         \A i \in S : seq[i] = other[i]
  PROVE  Picked(seq, S) = Picked(other, S)
<1>1a. PICK n \in Nat : \E b : Rising(b, n) /\ Places(b, n) = S
  BY SortedExists
<1>1. PICK b : Rising(b, n) /\ Places(b, n) = S
  BY <1>1a
<1>2. \A k \in 1..n : seq[b[k]] = other[b[k]]
  BY <1>1 DEF Places
<1> QED BY <1>1, <1>2, PickedIs

LEMMA PickedType ==
  ASSUME NEW L \in Nat, NEW S \in SUBSET (1..L), NEW T, NEW seq,
         \A i \in S : seq[i] \in T
  PROVE  Picked(seq, S) \in Seq(T)
<1>1a. PICK n \in Nat : \E b : Rising(b, n) /\ Places(b, n) = S
  BY SortedExists
<1>1. PICK b : Rising(b, n) /\ Places(b, n) = S
  BY <1>1a
<1>2. \A k \in 1..n : seq[b[k]] \in T
  BY <1>1 DEF Places
<1>3. [k \in 1..n |-> seq[b[k]]] \in Seq(T)
  BY <1>2
<1> QED BY <1>1, <1>3, PickedIs

\* The largest of a set of numbers.
LEMMA MaxIs ==
  ASSUME NEW S \in SUBSET Nat, NEW m \in S, \A y \in S : y <= m
  PROVE  Max(S) = m
<1>1. Max(S) \in S /\ \A y \in S : Max(S) >= y
  BY DEF Max
<1>2. Max(S) <= m /\ m <= Max(S) /\ m \in Nat /\ Max(S) \in Nat
  BY <1>1
<1> QED BY <1>2

\* The function ExtractStrFromHtmltag goes through a text with.
LEMMA ScanIs ==
  ASSUME NEW html, Len(html) \in Nat
  PROVE  \E scan :
           /\ scan[0] = [pos1 |-> 0, vec |-> <<>>]
           /\ \A p \in 1..Len(html) : scan[p] = ScanChar(html, p, scan[p - 1])
           /\ ExtractStrFromHtmltag(html) = scan[Len(html)].vec
<1> DEFINE n == Len(html)
           zero == [pos1 |-> 0, vec |-> <<>>]
           Scans(f, m) ==
             f = [p \in 0..m |-> IF p = 0 THEN zero
                                 ELSE ScanChar(html, p, f[p - 1])]
           T == {m \in Nat : \E f : Scans(f, m)}
<1>1. 0 \in T
  <2>1. Scans([p \in 0..0 |-> zero], 0)
    OBVIOUS
  <2> HIDE DEF Scans
  <2> QED BY <2>1
<1>2. ASSUME NEW m \in T
      PROVE  m + 1 \in T
  <2>1. PICK f : Scans(f, m)
    OBVIOUS
  <2>2. m \in Nat /\ m + 1 \in Nat /\ (m + 1) - 1 = m /\ m + 1 # 0
    OBVIOUS
  <2> HIDE DEF T
  <2> DEFINE g == [p \in 0..(m + 1) |-> IF p = m + 1 THEN ScanChar(html, m + 1, f[m])
                                        ELSE f[p]]
  <2>3. \A p \in 0..m : g[p] = f[p]
    BY <2>2
  <2>4. \A p \in 0..(m + 1) : g[p] = IF p = 0 THEN zero
                                     ELSE ScanChar(html, p, g[p - 1])
    <3>1. ASSUME NEW p \in 0..(m + 1)
          PROVE  g[p] = IF p = 0 THEN zero ELSE ScanChar(html, p, g[p - 1])
      <4>1. CASE p = m + 1
        <5>1. g[m + 1] = ScanChar(html, m + 1, f[m]) /\ g[m] = f[m]
          BY <2>2, <2>3
        <5> HIDE DEF g
        <5> QED BY <2>2, <4>1, <5>1
      <4>2. CASE p \in 0..m
        <5>1. p # 0 => p - 1 \in 0..m
          BY <2>2, <4>2
        <5>2. f[p] = IF p = 0 THEN zero ELSE ScanChar(html, p, f[p - 1])
          <6> HIDE DEF zero
          <6> QED BY <2>1, <4>2
        <5> HIDE DEF g, zero
        <5> QED BY <2>3, <4>2, <5>1, <5>2
      <4> QED BY <2>2, <4>1, <4>2
    <3> QED BY <3>1
  <2>5. DOMAIN g = 0..(m + 1) /\ g = [p \in 0..(m + 1) |-> g[p]]
    OBVIOUS
  <2>6. Scans(g, m + 1)
    <3> HIDE DEF g, zero
    <3>1. [p \in 0..(m + 1) |-> g[p]]
            = [p \in 0..(m + 1) |-> IF p = 0 THEN zero ELSE ScanChar(html, p, g[p - 1])]
      BY <2>4
    <3> QED BY <2>5, <3>1
  <2> HIDE DEF g, Scans
  <2> QED BY <2>2, <2>6 DEF T
<1>3. T = Nat
  <2>1. T \in SUBSET Nat
    OBVIOUS
  <2> HIDE DEF T
  <2> QED BY <1>1, <1>2, <2>1, AllOfNat
<1>4. \E f : Scans(f, n)
  <2> HIDE DEF Scans
  <2> QED BY <1>3
<1> DEFINE scan == CHOOSE f : Scans(f, n)
<1>5. Scans(scan, n)
  <2> HIDE DEF Scans
  <2> QED BY <1>4
<1>6. ExtractStrFromHtmltag(html) = scan[n].vec
  BY DEF ExtractStrFromHtmltag
<1> HIDE DEF scan
<1>7. \A p \in 0..n : scan[p] = IF p = 0 THEN zero ELSE ScanChar(html, p, scan[p - 1])
  <2> HIDE DEF zero
  <2> QED BY <1>5
<1>8. \A p \in 1..n : p \in 0..n /\ p # 0
  OBVIOUS
<1>9. 0 \in 0..n
  OBVIOUS
<1> QED BY <1>6, <1>7, <1>8, <1>9

\* Clean leaves a text of the same bytes.
LEMMA CleanType ==
  ASSUME NEW S, NEW str \in Seq(S)
  PROVE  Clean(str) \in Seq(S)
<1> DEFINE K == {i \in DOMAIN str : str[i] \notin BadChars}
<1>1. Len(str) \in Nat /\ K \in SUBSET (1..Len(str)) /\ \A i \in K : str[i] \in S
  OBVIOUS
<1>2. Picked(str, K) \in Seq(S)
  <2> HIDE DEF K
  <2> QED BY <1>1, PickedType
<1> QED BY <1>2 DEF Clean

\* What the scan keeps: where the last '>' is, and the texts.
Kept(at, texts) == [pos1 |-> at, vec |-> texts]

\* One step of the scan: at a '>', ...
LEMMA ScanOpens ==
  ASSUME NEW html, NEW m \in Nat, NEW a \in Nat, NEW v, html[m + 1] = ">"
  PROVE  ScanChar(html, m + 1, Kept(a, v)) = Kept(m + 1, v)
<1>1. [[pos1 |-> a, vec |-> v] EXCEPT !.pos1 = m + 1] = [pos1 |-> m + 1, vec |-> v]
  OBVIOUS
<1> QED BY <1>1 DEF ScanChar, Kept

\* ... at a '<' with a text before it, ...
LEMMA ScanFinds ==
  ASSUME NEW html, NEW m \in Nat, NEW a \in Nat, NEW v, html[m + 1] = "<", a # 0,
         NEW t, t = Clean(SubSeq(html, a + 1, m)), t # <<>>
  PROVE  ScanChar(html, m + 1, Kept(a, v)) = Kept(a, Append(v, t))
<1> DEFINE s == [pos1 |-> a, vec |-> v]
           u == Append(v, t)
<1>1. s.pos1 = a /\ s.vec = v
  OBVIOUS
<1>2. [s EXCEPT !.vec = u] = [pos1 |-> a, vec |-> u]
  <2> HIDE DEF u
  <2> QED OBVIOUS
<1>3. Clean(SubSeq(html, s.pos1 + 1, (m + 1) - 1)) = t
  BY <1>1
<1>4. html[m + 1] # ">"
  OBVIOUS
<1>5. [s EXCEPT !.vec = Append(@, Clean(SubSeq(html, s.pos1 + 1, (m + 1) - 1)))]
        = [pos1 |-> a, vec |-> u]
  BY <1>1, <1>2, <1>3
<1>6. ScanChar(html, m + 1, s)
        = [s EXCEPT !.vec = Append(@, Clean(SubSeq(html, s.pos1 + 1, (m + 1) - 1)))]
  <2> HIDE DEF s
  <2> QED BY <1>1, <1>3, <1>4 DEF ScanChar
<1> QED BY <1>5, <1>6 DEF Kept

\* ... at a '<' without one, and at all other characters.
LEMMA ScanPasses ==
  ASSUME NEW html, NEW m \in Nat, NEW a \in Nat, NEW v, html[m + 1] # ">",
         html[m + 1] = "<" /\ a # 0 => Clean(SubSeq(html, a + 1, m)) = <<>>
  PROVE  ScanChar(html, m + 1, Kept(a, v)) = Kept(a, v)
<1>1. Kept(a, v).pos1 = a /\ (m + 1) - 1 = m
  BY DEF Kept
<1> QED BY <1>1 DEF ScanChar

\* The texts that are found are texts.
LEMMA TextsType ==
  ASSUME NEW S, NEW html \in Seq(S)
  PROVE  ExtractStrFromHtmltag(html) \in Seq(Seq(S))
<1> DEFINE n == Len(html)
<1>0. n \in Nat
  OBVIOUS
<1>1. PICK scan :
        /\ scan[0] = Kept(0, <<>>)
        /\ \A p \in 1..n : scan[p] = ScanChar(html, p, scan[p - 1])
        /\ ExtractStrFromHtmltag(html) = scan[n].vec
  BY <1>0, ScanIs DEF Kept
<1> DEFINE V == Seq(Seq(S))
           Sound(p) == \E a \in 0..p, v \in V : scan[p] = Kept(a, v)
           T == {p \in Nat : p <= n => Sound(p)}
<1>2. 0 \in T
  <2>1. <<>> \in V /\ 0 \in 0..0
    OBVIOUS
  <2> HIDE DEF V
  <2>2. Sound(0)
    BY <1>1, <2>1
  <2> HIDE DEF Sound
  <2> QED BY <2>2
<1>3. ASSUME NEW m \in T
      PROVE  m + 1 \in T
  <2>1. m \in Nat /\ m + 1 \in Nat /\ (m + 1) - 1 = m
    OBVIOUS
  <2>2. SUFFICES ASSUME m + 1 <= n PROVE Sound(m + 1)
    <3> HIDE DEF Sound
    <3> QED BY <2>1
  <2>3. Sound(m) /\ m + 1 \in 1..n
    <3> HIDE DEF Sound
    <3> QED BY <1>0, <2>1, <2>2
  <2>4. PICK a \in 0..m, v \in V : scan[m] = Kept(a, v)
    BY <2>3
  <2> DEFINE t == Clean(SubSeq(html, a + 1, m))
  <2>5. t \in Seq(S)
    <3>1. SubSeq(html, a + 1, m) \in Seq(S)
      <4>1. a + 1 \in 1..(n + 1) /\ m \in 0..n
        BY <1>0, <2>1, <2>2
      <4> QED BY <4>1
    <3> QED BY <3>1, CleanType
  <2>6. Append(v, t) \in V
    <3> HIDE DEF t
    <3> QED BY <2>5
  <2>7. scan[m + 1] = ScanChar(html, m + 1, scan[m])
    BY <1>1, <2>1, <2>3
  <2>8. a \in 0..(m + 1) /\ m + 1 \in 0..(m + 1)
    BY <2>1
  <2>9. \/ ScanChar(html, m + 1, scan[m]) = Kept(m + 1, v)
        \/ ScanChar(html, m + 1, scan[m]) = Kept(a, Append(v, t))
        \/ ScanChar(html, m + 1, scan[m]) = scan[m]
    <3>1. t = Clean(SubSeq(html, a + 1, m)) /\ a \in Nat
      OBVIOUS
    <3> HIDE DEF t, V, T, Sound
    <3>2. CASE html[m + 1] = ">"
      BY <2>1, <2>4, <3>1, <3>2, ScanOpens
    <3>3. CASE html[m + 1] = "<" /\ a # 0 /\ t # <<>>
      BY <2>1, <2>4, <3>1, <3>3, ScanFinds
    <3>4. CASE html[m + 1] # ">" /\ ~(html[m + 1] = "<" /\ a # 0 /\ t # <<>>)
      BY <2>1, <2>4, <3>1, <3>4, ScanPasses
    <3> QED BY <3>2, <3>3, <3>4
  <2> HIDE DEF t, V
  <2> QED BY <2>4, <2>6, <2>7, <2>8, <2>9
<1>4. T = Nat
  <2>1. T \in SUBSET Nat
    OBVIOUS
  <2> HIDE DEF T
  <2> QED BY <1>2, <1>3, <2>1, AllOfNat
<1>5. Sound(n)
  <2> HIDE DEF Sound
  <2> QED BY <1>0, <1>4
<1> HIDE DEF n
<1> QED BY <1>1, <1>5 DEF Kept

\* Where the texts of a page begin.
LEMMA OpensAre ==
  ASSUME NEW S, NEW html \in Seq(S), NEW b \in 1..Len(html),
         NEW d \in Nat, FirstOf(html, {"<"}) = d + 2
  PROVE  /\ Opens(html, b) \in SUBSET Nat
         /\ Opens(html, b + 1) = IF b > d /\ html[b] = ">" THEN Opens(html, b) \cup {b}
                                 ELSE Opens(html, b)
         /\ \A a \in Opens(html, b) : a > d /\ a < b
<1>1. \A a \in Nat : a >= FirstOf(html, {"<"}) - 1 <=> a > d
  OBVIOUS
<1>2. b \in Nat /\ (b + 1) - 1 = b
  OBVIOUS
<1>3. \A x : x \in 1..b <=> x \in 1..(b - 1) \/ x = b
  BY <1>2
<1>4. \A a \in 1..b : a \in Nat
  OBVIOUS
<1>5. Opens(html, b) = {a \in 1..(b - 1) : a > d /\ html[a] = ">"}
  BY <1>1 DEF Opens
<1>6. Opens(html, b + 1) = {a \in 1..b : a > d /\ html[a] = ">"}
  BY <1>1, <1>2 DEF Opens
<1>7. Opens(html, b + 1) = IF b > d /\ html[b] = ">" THEN Opens(html, b) \cup {b}
                           ELSE Opens(html, b)
  <2>1. CASE b > d /\ html[b] = ">"
    <3>1. \A a : a \in Opens(html, b + 1) <=> a \in Opens(html, b) \/ a = b
      BY <1>3, <1>5, <1>6, <2>1
    <3> QED BY <2>1, <3>1
  <2>2. CASE ~(b > d /\ html[b] = ">")
    <3>1. \A a : a \in Opens(html, b + 1) <=> a \in Opens(html, b)
      BY <1>3, <1>5, <1>6, <2>2
    <3>2. Opens(html, b + 1) = Opens(html, b)
      BY <1>5, <1>6, <3>1
    <3> QED BY <2>2, <3>2
  <2> QED BY <2>1, <2>2
<1>8. \A a \in 1..(b - 1) : a \in Nat /\ a < b
  BY <1>2
<1> QED BY <1>5, <1>7, <1>8

\* Part of a text.
LEMMA PartIs ==
  ASSUME NEW S, NEW str \in Seq(S), NEW a \in Nat, NEW k \in Nat, a + k <= Len(str)
  PROVE  /\ SubSeq(str, a + 1, a + k) = [i \in 1..k |-> str[a + i]]
         /\ SubSeq(str, a + 1, a + k) \in Seq(S)
         /\ Len(SubSeq(str, a + 1, a + k)) = k
<1>1. Len(str) \in Nat /\ a + 1 \in Nat /\ a + k \in Nat
  OBVIOUS
<1>2. ((a + k) - (a + 1)) + 1 = k /\ \A i \in 1..k : (i + (a + 1)) - 1 = a + i
  OBVIOUS
<1>3. SubSeq(str, a + 1, a + k)
        = [i \in 1..(((a + k) - (a + 1)) + 1) |-> str[(i + (a + 1)) - 1]]
  OBVIOUS
<1>4. SubSeq(str, a + 1, a + k) = [i \in 1..k |-> str[a + i]]
  BY <1>2, <1>3
<1>5. \A i \in 1..k : str[a + i] \in S
  <2>1. \A i \in 1..k : a + i \in 1..Len(str)
    BY <1>1
  <2> QED BY <2>1
<1>6. [i \in 1..k |-> str[a + i]] \in Seq(S)
      /\ Len([i \in 1..k |-> str[a + i]]) = k
  BY <1>5
<1> QED BY <1>4, <1>6

\* A part of the end of a text that is a part of its beginning.
LEMMA PartOfPart ==
  ASSUME NEW S, NEW body \in Seq(S), NEW tail \in Seq(S), NEW d \in Nat,
         NEW a \in Nat, NEW m \in Nat, d + m <= Len(body), a <= m,
         NEW html, html = SubSeq(body \o tail, d + 1, Len(body \o tail))
  PROVE  SubSeq(html, a + 1, m) = SubSeq(body, (a + d) + 1, m + d)
<1> DEFINE all == body \o tail
           n == Len(all) - d
           k == m - a
<1>1. /\ all \in Seq(S) /\ Len(all) = Len(body) + Len(tail)
      /\ \A q \in 1..Len(body) : all[q] = body[q]
  BY ConcatAt
<1>2. Len(body) \in Nat /\ Len(tail) \in Nat
  OBVIOUS
<1>3. n \in Nat /\ d + n = Len(all) /\ k \in Nat /\ a + k = m /\ (a + d) + k = m + d
      /\ a + k <= n /\ (a + d) + k <= Len(body) /\ a + d \in Nat
  BY <1>1, <1>2
<1> HIDE DEF all, n, k
<1>4. html = [i \in 1..n |-> all[d + i]] /\ html \in Seq(S) /\ Len(html) = n
  <2>0. html = SubSeq(all, d + 1, Len(all))
    BY DEF all
  <2>1. d + n = Len(all) /\ d + n <= Len(all)
    BY <1>1, <1>2, <1>3
  <2>2. SubSeq(all, d + 1, d + n) = [i \in 1..n |-> all[d + i]]
        /\ SubSeq(all, d + 1, d + n) \in Seq(S) /\ Len(SubSeq(all, d + 1, d + n)) = n
    <3>1. all \in Seq(S) /\ n \in Nat /\ d + n <= Len(all)
      BY <1>1, <1>3, <2>1
    <3> QED BY <3>1, PartIs
  <2> QED BY <2>0, <2>1, <2>2
<1>5. SubSeq(html, a + 1, a + k) = [i \in 1..k |-> html[a + i]]
  BY <1>3, <1>4, PartIs
<1>6. SubSeq(body, (a + d) + 1, (a + d) + k) = [i \in 1..k |-> body[(a + d) + i]]
  BY <1>3, PartIs
<1>7. ASSUME NEW i \in 1..k
      PROVE  html[a + i] = body[(a + d) + i]
  <2>1. a + i \in 1..n /\ d + (a + i) \in 1..Len(body) /\ d + (a + i) = (a + d) + i
    BY <1>2, <1>3
  <2> QED BY <1>1, <1>4, <2>1
<1> QED BY <1>3, <1>5, <1>6, <1>7

\* What a page yields, whatever lies behind it without a tag: the texts between
\* its tags.
LEMMA TextsAreFound ==
  ASSUME NEW S, NEW body \in Seq(S), NEW tail \in Seq(S), FirstOf(tail, {"<"}) = 0,
         NEW d \in Nat, FirstOf(body \o tail, {"<"}) = d + 2
  PROVE  ExtractStrFromHtmltag(SubSeq(body \o tail, d + 1, Len(body \o tail)))
           = TextsBetweenTags(body)
<1> DEFINE all == body \o tail
           B == Len(body)
           N == Len(all)
           n == N - d
           html == SubSeq(all, d + 1, N)
<1>1. /\ all \in Seq(S) /\ N = B + Len(tail) /\ B \in Nat /\ Len(tail) \in Nat
      /\ \A q \in 1..B : all[q] = body[q]
      /\ \A q \in 1..Len(tail) : all[B + q] = tail[q]
  BY ConcatAt
<1>2. /\ d + 2 \in 1..N /\ all[d + 2] = "<"
      /\ \A q \in 1..(d + 1) : all[q] # "<"
  <2>1. N \in Nat /\ FirstOf(all, {"<"}) # 0
    BY <1>1
  <2> HIDE DEF all
  <2>2. LET p == FirstOf(all, {"<"}) IN
          p \in 1..Len(all) /\ all[p] \in {"<"} /\ \A q \in 1..(p - 1) : all[q] \notin {"<"}
    BY <2>1, FirstIsSome
  <2>3. (d + 2) - 1 = d + 1
    OBVIOUS
  <2> QED BY <2>2, <2>3 DEF all
<1>3. \A q \in 1..Len(tail) : tail[q] # "<"
  <2>1. ASSUME NEW q \in 1..Len(tail), tail[q] = "<" PROVE FALSE
    BY <1>1, <2>1, FirstIsZero
  <2> QED BY <2>1
<1>4. d + 2 <= B
  <2>1. SUFFICES ASSUME d + 2 > B PROVE FALSE
    BY <1>1
  <2>2. (d + 2) - B \in 1..Len(tail) /\ B + ((d + 2) - B) = d + 2
    BY <1>1, <1>2, <2>1
  <2> HIDE DEF all
  <2>3. all[B + ((d + 2) - B)] = tail[(d + 2) - B]
    BY <1>1, <2>2
  <2>4. tail[(d + 2) - B] = "<"
    BY <1>2, <2>2, <2>3
  <2> QED BY <1>3, <2>2, <2>4
<1>5. FirstOf(body, {"<"}) = d + 2
  <2>1. d + 2 \in 1..Len(body) /\ body[d + 2] \in {"<"}
        /\ \A q \in 1..((d + 2) - 1) : body[q] \notin {"<"}
    BY <1>1, <1>2, <1>4
  <2> QED BY <1>1, <2>1, FirstIs
<1>6. /\ n \in Nat /\ html \in Seq(S) /\ Len(html) = n
      /\ \A q \in 1..n : html[q] = all[d + q]
  <2>1. n \in Nat /\ d + n = N /\ d + n <= Len(all)
    BY <1>1, <1>2
  <2> HIDE DEF all, n
  <2>2. SubSeq(all, d + 1, d + n) = [i \in 1..n |-> all[d + i]]
        /\ SubSeq(all, d + 1, d + n) \in Seq(S) /\ Len(SubSeq(all, d + 1, d + n)) = n
    BY <1>1, <2>1, PartIs
  <2> QED BY <2>1, <2>2
<1>7. PICK scan :
        /\ scan[0] = Kept(0, <<>>)
        /\ \A p \in 1..n : scan[p] = ScanChar(html, p, scan[p - 1])
        /\ ExtractStrFromHtmltag(html) = scan[n].vec
  <2> HIDE DEF html, n
  <2> QED BY <1>6, ScanIs DEF Kept
<1> DEFINE E == TextEnds(body)
           F == [b \in DOMAIN body |-> TextTo(body, b)]
           Upto(x) == {b \in E : b <= x}
           Opened(x, a) == IF Opens(body, x) = {} THEN a = 0
                         ELSE a > 0 /\ a + d = Max(Opens(body, x))
           Sound(p) == \E a \in 0..p :
                         /\ scan[p] = Kept(a, Picked(F, Upto(p + d)))
                         /\ p + d <= B => Opened(p + d + 1, a)
           T == {p \in Nat : p <= n => Sound(p)}
<1>8. /\ E \in SUBSET (1..B)
      /\ \A b \in 1..B : b \in E <=> /\ body[b] = "<" /\ Opens(body, b) # {}
                                     /\ TextTo(body, b) # <<>>
      /\ \A x : Upto(x) \in SUBSET (1..B)
  BY <1>1 DEF TextEnds
<1> HIDE DEF E
<1>9. 0 \in T
  <2>1. Upto(0 + d) = {}
    <3>1. \A b \in E : body[b] = "<" /\ b \in 1..B
      BY <1>8
    <3>2. \A b \in 1..B : b <= 0 + d => b \in 1..(d + 1)
      OBVIOUS
    <3>3. \A b \in 1..B : b <= 0 + d => body[b] # "<"
      BY <1>1, <1>2, <3>2
    <3> QED BY <3>1, <3>3
  <2>2. Opens(body, 0 + d + 1) = {}
    BY <1>5 DEF Opens
  <2>3. scan[0] = Kept(0, Picked(F, Upto(0 + d)))
    <3> HIDE DEF F
    <3> QED BY <1>7, <2>1, PickedNone
  <2>4. Sound(0)
    <3> HIDE DEF F, Upto
    <3>1. 0 \in 0..0
      OBVIOUS
    <3> QED BY <2>2, <2>3, <3>1
  <2> HIDE DEF Sound
  <2> QED BY <2>4
<1>10. ASSUME NEW m \in T
       PROVE  m + 1 \in T
  <2>1. m \in Nat /\ m + 1 \in Nat /\ (m + 1) - 1 = m
    OBVIOUS
  <2>2. SUFFICES ASSUME m + 1 <= n PROVE Sound(m + 1)
    <3> HIDE DEF Sound
    <3> QED BY <2>1
  <2>3. Sound(m) /\ m + 1 \in 1..n
    <3> HIDE DEF Sound
    <3> QED BY <1>6, <2>1, <2>2
  <2>4. PICK a \in 0..m : /\ scan[m] = Kept(a, Picked(F, Upto(m + d)))
                          /\ m + d <= B => Opened(m + d + 1, a)
    <3> HIDE DEF Opened, F, Upto
    <3> QED BY <2>3
  <2> DEFINE x == m + d + 1
             v == Picked(F, Upto(m + d))
  <2>5. x \in Nat /\ (m + 1) + d = x /\ (m + 1) + d + 1 = x + 1 /\ x > d /\ m + d = x - 1
        /\ d + (m + 1) = x /\ x <= N /\ a \in Nat /\ a \in 0..(m + 1) /\ m + 1 \in 0..(m + 1)
    BY <1>1, <2>1, <2>3
  <2>6. html[m + 1] = all[x] /\ scan[m + 1] = ScanChar(html, m + 1, scan[m])
    <3> HIDE DEF html, all, n, x
    <3> QED BY <1>6, <1>7, <2>1, <2>3, <2>5
  <2> HIDE DEF T, Sound, html, all, n, v
  <2>7. ASSUME x \notin E
        PROVE  Upto(x) = Upto(m + d)
    BY <1>8, <2>5, <2>7
  <2>8. CASE x > B
    <3>1. x \notin E /\ ~((m + 1) + d <= B)
      BY <1>1, <1>8, <2>5, <2>8
    <3>2. html[m + 1] # "<"
      <4>1. x - B \in 1..Len(tail) /\ B + (x - B) = x
        BY <1>1, <2>5, <2>8
      <4> QED BY <1>1, <1>3, <2>6, <4>1
    <3>3. v = Picked(F, Upto((m + 1) + d))
      BY <2>5, <2>7, <3>1 DEF v
    <3>4. scan[m + 1] = Kept(a, v) \/ scan[m + 1] = Kept(m + 1, v)
      <4>1. html[m + 1] = ">" => ScanChar(html, m + 1, Kept(a, v)) = Kept(m + 1, v)
        BY <2>1, <2>5, ScanOpens
      <4>2. html[m + 1] # ">" => ScanChar(html, m + 1, Kept(a, v)) = Kept(a, v)
        BY <2>1, <2>5, <3>2, ScanPasses
      <4> QED BY <2>4, <2>6, <4>1, <4>2 DEF v
    <3> HIDE DEF F, Upto, Opened, x
    <3> QED BY <2>5, <3>1, <3>3, <3>4 DEF Sound
  <2>9. CASE x <= B
    <3>1. html[m + 1] = body[x] /\ x \in 1..B /\ m + d <= B
      BY <1>1, <2>5, <2>6, <2>9
    <3>2. Opened(x, a)
      BY <2>4, <3>1
    <3>3. /\ Opens(body, x) \in SUBSET Nat
          /\ Opens(body, x + 1) = IF body[x] = ">" THEN Opens(body, x) \cup {x}
                                  ELSE Opens(body, x)
          /\ \A o \in Opens(body, x) : o < x
      <4> HIDE DEF x
      <4>1. x \in 1..Len(body)
        BY <3>1
      <4>2. /\ Opens(body, x) \in SUBSET Nat
            /\ Opens(body, x + 1) = IF x > d /\ body[x] = ">" THEN Opens(body, x) \cup {x}
                                    ELSE Opens(body, x)
            /\ \A o \in Opens(body, x) : o > d /\ o < x
        BY <1>5, <4>1, OpensAre
      <4> QED BY <2>5, <4>2
    <3>4. CASE body[x] = ">"
      <4>1. x \notin E
        BY <1>8, <3>1, <3>4
      <4>2. scan[m + 1] = Kept(m + 1, v)
        BY <2>1, <2>4, <2>5, <2>6, <3>1, <3>4, ScanOpens DEF v
      <4>3. Opened(x + 1, m + 1)
        <5>1. x \in Opens(body, x + 1) /\ Opens(body, x + 1) \in SUBSET Nat
              /\ \A o \in Opens(body, x + 1) : o <= x
          <6> HIDE DEF x
          <6> QED BY <2>5, <3>3, <3>4, SMTT(30)
        <5>2. Max(Opens(body, x + 1)) = x
          <6> HIDE DEF x
          <6> QED BY <5>1, MaxIs
        <5> HIDE DEF x
        <5> QED BY <2>1, <2>5, <5>1, <5>2
      <4>4. v = Picked(F, Upto((m + 1) + d))
        BY <2>5, <2>7, <4>1 DEF v
      <4> HIDE DEF F, Upto, Opened, x
      <4> QED BY <2>5, <4>2, <4>3, <4>4 DEF Sound
    <3>5. CASE body[x] # ">"
      <4>1. Opened(x + 1, a)
        <5> HIDE DEF x
        <5> QED BY <3>2, <3>3, <3>5
      <4> DEFINE t == Clean(SubSeq(html, a + 1, m))
      <4>2. a # 0 => t = TextTo(body, x)
        <5>1. SUFFICES ASSUME a # 0 PROVE t = TextTo(body, x)
          OBVIOUS
        <5>2. a + d = Max(Opens(body, x))
          <6> HIDE DEF x
          <6> QED BY <3>2, <5>1
        <5>3. SubSeq(html, a + 1, m) = SubSeq(body, (a + d) + 1, m + d)
          <6>1. d + m <= Len(body) /\ a <= m
            BY <2>1, <3>1
          <6> QED BY <2>1, <2>5, <6>1, PartOfPart DEF html, all
        <5>4. m + d = x - 1
          BY <2>5
        <5> HIDE DEF x
        <5> QED BY <5>2, <5>3, <5>4 DEF TextTo
      <4>3. Opens(body, x) # {} <=> a # 0
        <5> HIDE DEF x
        <5> QED BY <3>2
      <4>4. CASE x \in E
        <5>1. body[x] = "<" /\ a # 0 /\ t # <<>> /\ t = F[x]
          <6>1. body[x] = "<" /\ Opens(body, x) # {} /\ TextTo(body, x) # <<>>
            BY <1>8, <3>1, <4>4
          <6>2. F[x] = TextTo(body, x)
            <7> HIDE DEF x
            <7> QED BY <3>1
          <6> HIDE DEF t, x, F
          <6> QED BY <4>2, <4>3, <6>1, <6>2
        <5>2. scan[m + 1] = Kept(a, Append(v, t))
          <6>1. t = Clean(SubSeq(html, a + 1, m))
            OBVIOUS
          <6> HIDE DEF t
          <6>2. ScanChar(html, m + 1, Kept(a, v)) = Kept(a, Append(v, t))
            BY <2>1, <2>5, <3>1, <5>1, <6>1, ScanFinds
          <6> QED BY <2>4, <2>6, <6>2 DEF v
        <5>3. Upto(x) = Upto(m + d) \cup {x} /\ \A i \in Upto(m + d) : i < x
          <6>1. \A i \in 1..B : i <= x <=> i <= m + d \/ i = x
            BY <2>5
          <6> HIDE DEF x
          <6> QED BY <1>8, <2>5, <4>4, <6>1
        <5>4. Append(v, t) = Picked(F, Upto((m + 1) + d))
          <6>1. Picked(F, Upto(m + d) \cup {x}) = Append(Picked(F, Upto(m + d)), F[x])
            <7> DEFINE U == Upto(m + d)
            <7>1. U \in SUBSET (1..B) /\ \A i \in U : i < x
              BY <1>8, <5>3
            <7> HIDE DEF F, U, x, B
            <7>2. B \in Nat /\ x \in Nat
              BY <1>1, <2>5
            <7>3. Picked(F, U \cup {x}) = Append(Picked(F, U), F[x])
              BY <7>1, <7>2, PickedGrows, ZenonT(60)
            <7> QED BY <7>3 DEF U
          <6> HIDE DEF F, Upto, x, t
          <6> QED BY <2>5, <5>1, <5>3, <6>1 DEF v
        <5> HIDE DEF F, Upto, Opened, x, t
        <5> QED BY <2>5, <4>1, <5>2, <5>4 DEF Sound
      <4>5. CASE x \notin E
        <5>1. html[m + 1] = "<" /\ a # 0 => t = <<>>
          <6> HIDE DEF t, x
          <6> QED BY <1>8, <3>1, <4>2, <4>3, <4>5
        <5>2. scan[m + 1] = Kept(a, v)
          <6>1. ScanChar(html, m + 1, Kept(a, v)) = Kept(a, v)
            BY <2>1, <2>5, <3>1, <3>5, <5>1, ScanPasses
          <6> QED BY <2>4, <2>6, <6>1 DEF v
        <5>3. v = Picked(F, Upto((m + 1) + d))
          BY <2>5, <2>7, <4>5 DEF v
        <5> HIDE DEF F, Upto, Opened, x
        <5> QED BY <2>5, <4>1, <5>2, <5>3 DEF Sound
      <4> QED BY <4>4, <4>5
    <3> QED BY <3>4, <3>5
  <2> QED BY <1>1, <2>5, <2>8, <2>9
<1>11. T = Nat
  <2>1. T \in SUBSET Nat
    OBVIOUS
  <2> HIDE DEF T
  <2> QED BY <1>9, <1>10, <2>1, AllOfNat
<1>12. Sound(n)
  <2> HIDE DEF Sound
  <2> QED BY <1>6, <1>11
<1>13. Upto(n + d) = E
  <2>1. n + d = N /\ \A b \in E : b \in 1..B
    BY <1>1, <1>8
  <2>2. \A b \in 1..B : b <= N
    BY <1>1
  <2> QED BY <2>1, <2>2
<1>14. scan[n].vec = Picked(F, E)
  <2> HIDE DEF F, n, Opened, Upto
  <2> QED BY <1>12, <1>13 DEF Kept
<1> QED BY <1>7, <1>14 DEF TextsBetweenTags, E

-------------------------------------------------------------------------------
(* Colons.                                                                 *)

\* No byte of the colon stands outside of a colon.
Whole(t) ==
  \A n \in DOMAIN t : t[n] \in ToSet(Colon) => \E m \in Marks(t) : n \in m..(m + 2)

LEMMA ColonBytes == ToSet(Colon) = {"EF", "BC", "9A"}
BY DEF ToSet, Colon

\* Where colons begin.
LEMMA MarksAre ==
  ASSUME NEW S, NEW t \in Seq(S), NEW m
  PROVE  m \in Marks(t) <=> /\ m \in Nat \ {0} /\ m + 2 <= Len(t)
                            /\ t[m] = "EF" /\ t[m + 1] = "BC" /\ t[m + 2] = "9A"
<1>0. Len(t) \in Nat
  OBVIOUS
<1>1. ASSUME NEW x \in Nat \ {0}, x + 2 <= Len(t)
      PROVE  SubSeq(t, x, x + 2) = Colon
               <=> t[x] = "EF" /\ t[x + 1] = "BC" /\ t[x + 2] = "9A"
  <2> DEFINE a == x - 1
  <2>1. a \in Nat /\ 3 \in Nat /\ a + 3 <= Len(t) /\ a + 1 = x /\ a + 3 = x + 2
        /\ a + 2 = x + 1
    BY <1>0, <1>1
  <2> HIDE DEF a
  <2>2. SubSeq(t, a + 1, a + 3) = [i \in 1..3 |-> t[a + i]]
    BY <2>1, PartIs
  <2>3. 1..3 = {1, 2, 3}
    OBVIOUS
  <2>4. [i \in 1..3 |-> t[a + i]] = <<t[a + 1], t[a + 2], t[a + 3]>>
    BY <2>3
  <2>5. SubSeq(t, x, x + 2) = <<t[x], t[x + 1], t[x + 2]>>
    BY <2>1, <2>2, <2>4
  <2>6. <<t[x], t[x + 1], t[x + 2]>> = <<"EF", "BC", "9A">>
          <=> t[x] = "EF" /\ t[x + 1] = "BC" /\ t[x + 2] = "9A"
    OBVIOUS
  <2> QED BY <2>5, <2>6 DEF Colon
<1>2. m \in 1..(Len(t) - 2) <=> m \in Nat \ {0} /\ m + 2 <= Len(t)
  BY <1>0
<1> QED BY <1>1, <1>2 DEF Marks

\* All bytes of a colon are bytes of the colon, and colons do not overlap.
LEMMA MarkBytes ==
  ASSUME NEW S, NEW t \in Seq(S), NEW m \in Marks(t)
  PROVE  /\ m \in Nat \ {0} /\ m + 2 <= Len(t)
         /\ \A i \in m..(m + 2) : i \in 1..Len(t) /\ t[i] \in ToSet(Colon)
         /\ m + 1 \notin Marks(t) /\ m + 2 \notin Marks(t)
<1>1. /\ m \in Nat \ {0} /\ m + 2 <= Len(t)
      /\ t[m] = "EF" /\ t[m + 1] = "BC" /\ t[m + 2] = "9A"
  BY MarksAre
<1>2. \A i \in m..(m + 2) : i = m \/ i = m + 1 \/ i = m + 2
  BY <1>1
<1>3. Len(t) \in Nat /\ \A i \in m..(m + 2) : i \in 1..Len(t)
  BY <1>1
<1>4. m + 1 \notin Marks(t) /\ m + 2 \notin Marks(t)
  <2>1. t[m + 1] # "EF" /\ t[m + 2] # "EF"
    BY <1>1
  <2> QED BY <2>1, MarksAre
<1> QED BY <1>1, <1>2, <1>3, <1>4, ColonBytes

\* Places that follow each other.
LEMMA RisingNext ==
  ASSUME NEW n \in Nat, NEW b, Rising(b, n), NEW i \in 1..n, NEW j \in 1..n,
         b[j] = b[i] + 1
  PROVE  j = i + 1
<1>1. /\ b[i] \in Nat /\ b[j] \in Nat
      /\ i < j => b[i] < b[j]
      /\ j < i => b[j] < b[i]
  BY DEF Rising
<1>2. i < j
  BY <1>1
<1>3. CASE i + 1 < j
  <2>1. i + 1 \in 1..n /\ i < i + 1
    BY <1>3
  <2>2. b[i + 1] \in Nat /\ b[i] < b[i + 1] /\ b[i + 1] < b[j]
    BY <1>3, <2>1 DEF Rising
  <2> QED BY <1>1, <2>2
<1> QED BY <1>2, <1>3

\* Taking out characters leaves colons whole ...
LEMMA CleanWhole ==
  ASSUME NEW S, NEW str \in Seq(S), Whole(str)
  PROVE  Whole(Clean(str))
<1> DEFINE K == {i \in DOMAIN str : str[i] \notin BadChars}
<1>0. Len(str) \in Nat /\ DOMAIN str = 1..Len(str) /\ K \in SUBSET (1..Len(str))
  OBVIOUS
<1>1a. PICK n \in Nat : \E b : Rising(b, n) /\ Places(b, n) = K
  <2> HIDE DEF K
  <2> QED BY <1>0, SortedExists
<1>1. PICK b : Rising(b, n) /\ Places(b, n) = K
  BY <1>1a
<1> DEFINE t == [j \in 1..n |-> str[b[j]]]
<1>2. Clean(str) = t
  <2>1. Clean(str) = Picked(str, K)
    BY DEF Clean
  <2> HIDE DEF K
  <2> QED BY <1>1, <2>1, PickedIs
<1>3. t \in Seq(S) /\ Len(t) = n
  <2>1. Clean(str) \in Seq(S)
    BY CleanType
  <2> QED BY <1>2, <2>1
<1>4. \A i \in 1..Len(str) : str[i] \in ToSet(Colon) => \E j \in 1..n : b[j] = i
  <2>1. \A i \in 1..Len(str) : str[i] \in ToSet(Colon) => i \in K
    BY <1>0, ColonBytes DEF BadChars, LF, CR
  <2>2. \A i \in K : \E j \in 1..n : b[j] = i
    <3> HIDE DEF K
    <3> QED BY <1>1 DEF Places
  <2> HIDE DEF K
  <2> QED BY <2>1, <2>2
<1>5. ASSUME NEW j \in 1..n, t[j] \in ToSet(Colon)
      PROVE  \E m \in Marks(t) : j \in m..(m + 2)
  <2>1. b[j] \in 1..Len(str) /\ str[b[j]] \in ToSet(Colon)
    <3>1. b[j] \in K
      <4> HIDE DEF K
      <4> QED BY <1>1 DEF Places
    <3> QED BY <1>0, <1>5, <3>1
  <2>2. PICK m \in Marks(str) : b[j] \in m..(m + 2)
    BY <1>0, <2>1 DEF Whole
  <2>3. /\ m \in Nat \ {0} /\ m + 2 <= Len(str)
        /\ str[m] = "EF" /\ str[m + 1] = "BC" /\ str[m + 2] = "9A"
    BY MarksAre
  <2>4. /\ m \in 1..Len(str) /\ m + 1 \in 1..Len(str) /\ m + 2 \in 1..Len(str)
    BY <1>0, <2>3
  <2>5. PICK j0 \in 1..n : b[j0] = m
    BY <1>4, <2>3, <2>4, ColonBytes
  <2>6. PICK j1 \in 1..n : b[j1] = m + 1
    BY <1>4, <2>3, <2>4, ColonBytes
  <2>7. PICK j2 \in 1..n : b[j2] = m + 2
    BY <1>4, <2>3, <2>4, ColonBytes
  <2>8. j1 = j0 + 1 /\ j2 = j1 + 1
    <3>1. b[j1] = b[j0] + 1 /\ b[j2] = b[j1] + 1
      BY <2>3, <2>5, <2>6, <2>7
    <3> QED BY <1>1, <3>1, RisingNext
  <2>9. j0 \in Nat \ {0} /\ j0 + 1 \in 1..n /\ j0 + 2 \in 1..n /\ j0 + 2 <= n
        /\ b[j0 + 1] = m + 1 /\ b[j0 + 2] = m + 2
    BY <2>6, <2>7, <2>8
  <2>10. t[j0] = "EF" /\ t[j0 + 1] = "BC" /\ t[j0 + 2] = "9A"
    <3>1. t[j0] = str[b[j0]] /\ t[j0 + 1] = str[b[j0 + 1]] /\ t[j0 + 2] = str[b[j0 + 2]]
      BY <2>9
    <3> HIDE DEF t
    <3> QED BY <2>3, <2>5, <2>9, <3>1
  <2>11. j0 \in Marks(t)
    <3> HIDE DEF t
    <3> QED BY <1>3, <2>9, <2>10, MarksAre
  <2>12. j = j0 \/ j = j1 \/ j = j2
    <3>1. b[j] = m \/ b[j] = m + 1 \/ b[j] = m + 2
      BY <2>2, <2>3
    <3>2. \A i, k \in 1..n : b[i] = b[k] => i = k
      <4>1. ASSUME NEW i \in 1..n, NEW k \in 1..n, b[i] = b[k]
            PROVE  i = k
        <5>1. b[i] \in Nat /\ b[k] \in Nat /\ (i < k => b[i] < b[k])
              /\ (k < i => b[k] < b[i])
          BY <1>1 DEF Rising
        <5> QED BY <4>1, <5>1
      <4> QED BY <4>1
    <3> QED BY <2>5, <2>6, <2>7, <3>1, <3>2
  <2>13. j \in j0..(j0 + 2)
    BY <2>8, <2>9, <2>12
  <2> QED BY <2>11, <2>13
<1>6. DOMAIN t = 1..n
  OBVIOUS
<1> HIDE DEF t
<1> QED BY <1>2, <1>5, <1>6 DEF Whole

\* ... and so does cutting a text out between two tags.
LEMMA PartWhole ==
  ASSUME NEW S, NEW body \in Seq(S), Whole(body),
         NEW a \in 1..Len(body), NEW b \in 1..Len(body), a < b,
         body[a] = ">", body[b] = "<"
  PROVE  SubSeq(body, a + 1, b - 1) \in Seq(S) /\ Whole(SubSeq(body, a + 1, b - 1))
<1> DEFINE k == (b - 1) - a
<1>1. k \in Nat /\ a \in Nat /\ a + k <= Len(body) /\ a + k = b - 1 /\ Len(body) \in Nat
      /\ b \in Nat
  OBVIOUS
<1> HIDE DEF k
<1> DEFINE t == SubSeq(body, a + 1, a + k)
<1>2. t = [i \in 1..k |-> body[a + i]] /\ t \in Seq(S) /\ Len(t) = k
  BY <1>1, PartIs
<1> HIDE DEF t
<1>3. ASSUME NEW i \in 1..k, t[i] \in ToSet(Colon)
      PROVE  \E m \in Marks(t) : i \in m..(m + 2)
  <2>1. a + i \in DOMAIN body /\ body[a + i] \in ToSet(Colon)
    BY <1>1, <1>2, <1>3
  <2>2. PICK m \in Marks(body) : a + i \in m..(m + 2)
    BY <2>1 DEF Whole
  <2>3. /\ m \in Nat \ {0} /\ m + 2 <= Len(body)
        /\ body[m] = "EF" /\ body[m + 1] = "BC" /\ body[m + 2] = "9A"
    BY MarksAre
  <2>4. a \notin m..(m + 2) /\ b \notin m..(m + 2)
    <3>1. \A j \in m..(m + 2) : j = m \/ j = m + 1 \/ j = m + 2
      BY <2>3
    <3>2. \A j \in m..(m + 2) : body[j] # ">" /\ body[j] # "<"
      BY <2>3, <3>1
    <3> QED BY <3>2
  <2>5. a < m /\ m + 2 < b
    BY <1>1, <2>2, <2>3, <2>4
  <2> DEFINE j == m - a
  <2>6. j \in Nat \ {0} /\ j + 2 <= k /\ i \in j..(j + 2) /\ a + j = m
        /\ a + (j + 1) = m + 1 /\ a + (j + 2) = m + 2
        /\ j \in 1..k /\ j + 1 \in 1..k /\ j + 2 \in 1..k
    BY <1>1, <2>2, <2>3, <2>5
  <2> HIDE DEF j
  <2>7. t[j] = "EF" /\ t[j + 1] = "BC" /\ t[j + 2] = "9A"
    BY <1>2, <2>3, <2>6
  <2>8. j \in Marks(t)
    <3>1. t \in Seq(S) /\ j \in Nat \ {0} /\ j + 2 <= Len(t)
      BY <1>2, <2>6
    <3> QED BY <2>7, <3>1, MarksAre
  <2> QED BY <2>6, <2>8
<1>4. DOMAIN t = 1..k
  BY <1>2
<1>5. Whole(t)
  BY <1>3, <1>4 DEF Whole
<1>6. t = SubSeq(body, a + 1, b - 1)
  BY <1>1 DEF t
<1> QED BY <1>2, <1>5, <1>6

\* The texts of a page are texts, and whole if the page is.
LEMMA TextsAreWhole ==
  ASSUME NEW S, NEW body \in Seq(S), NEW b \in TextEnds(body)
  PROVE  /\ TextTo(body, b) \in Seq(S)
         /\ Whole(body) => Whole(TextTo(body, b))
<1>1. b \in 1..Len(body) /\ body[b] = "<" /\ Opens(body, b) # {}
  BY DEF TextEnds
<1>2. Opens(body, b) \in SUBSET Nat /\ Len(body) \in Nat
      /\ \A o \in Opens(body, b) : o < b /\ body[o] = ">" /\ o \in 1..Len(body)
  BY <1>1 DEF Opens
<1>3. \E o \in Opens(body, b) : \A y \in Opens(body, b) : y <= o
  <2> DEFINE below == {b - o : o \in Opens(body, b)}
  <2>1. below \in SUBSET Nat /\ below # {}
    BY <1>1, <1>2
  <2>2. PICK least \in below : \A y \in below : least <= y
    <3> HIDE DEF below
    <3> QED BY <2>1, LeastExists
  <2>3. PICK o \in Opens(body, b) : least = b - o
    BY <2>2
  <2>4. \A y \in Opens(body, b) : b - o <= b - y
    BY <2>2, <2>3
  <2>5. \A y \in Opens(body, b) : y <= o
    <3>1. o \in Nat /\ b \in Nat
      BY <1>1, <1>2, <2>3
    <3>2. ASSUME NEW y \in Opens(body, b) PROVE y <= o
      <4>1. y \in Nat /\ b - o <= b - y
        BY <1>2, <2>4
      <4> QED BY <3>1, <4>1
    <3> QED BY <3>2
  <2> QED BY <2>5
<1>4. PICK a \in Opens(body, b) : \A y \in Opens(body, b) : y <= a
  BY <1>3
<1>5. Max(Opens(body, b)) = a
  BY <1>2, <1>4, MaxIs
<1>6. a \in 1..Len(body) /\ a < b /\ body[a] = ">"
  BY <1>2
<1> DEFINE str == SubSeq(body, a + 1, b - 1)
<1>7. TextTo(body, b) = Clean(str)
  BY <1>5 DEF TextTo
<1>8. str \in Seq(S)
  <2> DEFINE k == (b - 1) - a
  <2>1. k \in Nat /\ a \in Nat /\ a + k <= Len(body) /\ a + k = b - 1
    BY <1>1, <1>2, <1>6
  <2> HIDE DEF k
  <2>2. SubSeq(body, a + 1, a + k) \in Seq(S)
    BY <2>1, PartIs
  <2> QED BY <2>1, <2>2
<1>9. Whole(body) => Whole(str)
  <2> HIDE DEF str
  <2> QED BY <1>1, <1>6, PartWhole DEF str
<1> HIDE DEF str
<1> QED BY <1>7, <1>8, <1>9, CleanType, CleanWhole

\* The first two of a set of places.
LEMMA NthFirst ==
  ASSUME NEW L \in Nat, NEW B \in SUBSET (1..L), NEW x \in B, \A i \in B : x <= i
  PROVE  /\ Nth(B, 1) = x /\ Cardinality(B) \in Nat \ {0}
         /\ B = {x} => Cardinality(B) = 1
         /\ \A y \in B : y # x /\ (\A i \in B : i = x \/ y <= i)
              => Nth(B, 2) = y /\ Cardinality(B) > 1
<1>1a. PICK n \in Nat : \E b : Rising(b, n) /\ Places(b, n) = B
  BY SortedExists
<1>1. PICK b : Rising(b, n) /\ Places(b, n) = B
  BY <1>1a
<1>2. \A k \in 1..n : Nth(B, k) = b[k]
  BY <1>1, NthIs
<1>3. Cardinality(B) = n
  <2>1. n \in 0..n
    OBVIOUS
  <2> QED BY <1>1, <2>1, PlacesCount
<1>4. /\ \A k \in 1..n : b[k] \in B /\ b[k] \in Nat
      /\ \A y \in B : \E k \in 1..n : b[k] = y
      /\ \A i, j \in 1..n : i < j => b[i] < b[j]
  BY <1>1 DEF Places, Rising
<1>5. PICK i \in 1..n : b[i] = x
  BY <1>4
<1>6. 1 \in 1..n
  OBVIOUS
<1>7. i = 1
  <2>1. ~(1 < i)
    <3>1. b[1] \in B /\ b[1] \in Nat /\ x \in Nat /\ (1 < i => b[1] < b[i])
      BY <1>4, <1>5, <1>6
    <3>2. x <= b[1]
      BY <3>1
    <3> QED BY <1>5, <3>1, <3>2
  <2> QED BY <2>1
<1>8. ASSUME B = {x} PROVE n = 1
  <2>1. SUFFICES ASSUME 1 < n PROVE FALSE
    BY <1>6
  <2>2. 2 \in 1..n
    BY <2>1
  <2>3. b[1] < b[2] /\ b[1] \in B /\ b[2] \in B /\ b[1] \in Nat
    BY <1>4, <1>6, <2>2
  <2> QED BY <1>8, <2>3
<1>9. ASSUME NEW y \in B, y # x, \A j \in B : j = x \/ y <= j
      PROVE  2 \in 1..n /\ b[2] = y
  <2>1. PICK k \in 1..n : b[k] = y
    BY <1>4
  <2>2. k # 1
    BY <1>5, <1>7, <1>9, <2>1
  <2>3. 2 \in 1..n /\ (2 < k \/ k = 2)
    BY <2>2
  <2>4. b[2] \in B /\ b[2] \in Nat /\ b[1] < b[2] /\ (2 < k => b[2] < b[k]) /\ b[1] \in Nat
        /\ y \in Nat
    BY <1>4, <1>6, <2>1, <2>3
  <2>5. y <= b[2]
    BY <1>5, <1>7, <1>9, <2>4
  <2> QED BY <2>1, <2>3, <2>4, <2>5
<1>10. \A y \in B : y # x /\ (\A j \in B : j = x \/ y <= j)
              => Nth(B, 2) = y /\ Cardinality(B) > 1
  BY <1>2, <1>3, <1>9
<1> QED BY <1>2, <1>3, <1>5, <1>6, <1>7, <1>8, <1>10

\* Where a piece ends.
EndOf(src, separator, b) ==
  Min({i \in b..Len(src) : src[i] \in separator} \cup {Len(src) + 1})

LEMMA EndIs ==
  ASSUME NEW src, Len(src) \in Nat, NEW separator, NEW b \in 1..(Len(src) + 1)
  PROVE  EndOf(src, separator, b) \in b..(Len(src) + 1)
<1> DEFINE E == {i \in b..Len(src) : src[i] \in separator} \cup {Len(src) + 1}
<1>1. E \in SUBSET (b..(Len(src) + 1)) /\ E \in SUBSET Nat /\ E # {}
  OBVIOUS
<1>2. PICK e \in E : \A y \in E : e <= y
  <2> HIDE DEF E
  <2> QED BY <1>1, LeastExists
<1>3. Min(E) = e
  <2> HIDE DEF E
  <2> QED BY <1>1, <1>2, MinIs
<1> QED BY <1>1, <1>3 DEF EndOf

\* Split, of a text.
LEMMA SplitType ==
  ASSUME NEW S, NEW src \in Seq(S), NEW separator
  PROVE  Split(src, separator) \in Seq(Seq(S)) /\ Len(Split(src, separator)) > 0
<1> DEFINE B == {1} \cup Begins(src, separator)
           L == Len(src) + 1
<1>0. Len(src) \in Nat /\ L \in Nat /\ 1 \in 1..L
  OBVIOUS
<1>1. B \in SUBSET (1..L) /\ 1 \in B /\ \A i \in B : 1 <= i
  <2>1. \A i \in Begins(src, separator) : i \in 1..L
    BY <1>0 DEF Begins
  <2> QED BY <1>0, <2>1
<1>2a. PICK n \in Nat : \E b : Rising(b, n) /\ Places(b, n) = B
  <2> HIDE DEF B, L
  <2> QED BY <1>0, <1>1, SortedExists
<1>2. PICK b : Rising(b, n) /\ Places(b, n) = B
  BY <1>2a
<1>3. Cardinality(B) = n /\ n > 0
  <2>1. n \in 0..n
    OBVIOUS
  <2> HIDE DEF B, L
  <2>2. Cardinality(B) \in Nat \ {0}
    BY <1>0, <1>1, NthFirst
  <2>3. Cardinality(B) = n
    BY <1>2, <2>1, PlacesCount
  <2> QED BY <2>2, <2>3
<1> DEFINE part(k) == SubSeq(src, Nth(B, k), EndOf(src, separator, Nth(B, k)) - 1)
<1>4. Split(src, separator) = [k \in 1..n |-> part(k)]
  <2> HIDE DEF B
  <2>1. Pieces(src, separator, B) = [k \in 1..n |-> part(k)]
    BY <1>3 DEF Pieces, EndOf
  <2> QED BY <2>1 DEF Split, B
<1>5. ASSUME NEW k \in 1..n PROVE part(k) \in Seq(S)
  <2>1. Nth(B, k) \in 1..(Len(src) + 1)
    <3>1. Nth(B, k) = b[k] /\ b[k] \in B
      <4> HIDE DEF B
      <4> QED BY <1>2, NthIs DEF Places
    <3> QED BY <1>1, <3>1
  <2> DEFINE x == Nth(B, k)
             e == EndOf(src, separator, x)
  <2> HIDE DEF x, B
  <2>2. x \in 1..(Len(src) + 1) /\ e \in x..(Len(src) + 1)
    BY <1>0, <2>1, EndIs DEF x
  <2> HIDE DEF e
  <2>3. x - 1 \in Nat /\ e - x \in Nat /\ (x - 1) + (e - x) <= Len(src)
        /\ (x - 1) + 1 = x /\ (x - 1) + (e - x) = e - 1
    BY <1>0, <2>2
  <2>4. SubSeq(src, (x - 1) + 1, (x - 1) + (e - x)) \in Seq(S)
    BY <2>3, PartIs
  <2> QED BY <2>3, <2>4 DEF x, e
<1> HIDE DEF part
<1>6. [k \in 1..n |-> part(k)] \in Seq(Seq(S)) /\ Len([k \in 1..n |-> part(k)]) = n
  <2> DEFINE V == Seq(S)
  <2>1. \A k \in 1..n : part(k) \in V
    BY <1>5
  <2> HIDE DEF V
  <2>2. [k \in 1..n |-> part(k)] \in Seq(V) /\ Len([k \in 1..n |-> part(k)]) = n
    BY <2>1
  <2> QED BY <2>2 DEF V
<1> QED BY <1>3, <1>4, <1>6

\* An empty line has one part.
LEMMA SplitNothing == ASSUME NEW separator PROVE Len(Split(<<>>, separator)) = 1
<1>1. {1} \cup Begins(<<>>, separator) = {1}
  BY DEF Begins
<1>2. Cardinality({1}) = 1
  BY FS_Singleton
<1> DEFINE part(k) == SubSeq(<<>>, Nth({1}, k), EndOf(<<>>, separator, Nth({1}, k)) - 1)
<1>3. Split(<<>>, separator) = [k \in 1..1 |-> part(k)]
  BY <1>1, <1>2 DEF Split, Pieces, EndOf
<1> HIDE DEF part
<1> QED BY <1>3

\* Whether there is a colon in a text.
LEMMA HasIs ==
  ASSUME NEW S, NEW t \in Seq(S)
  PROVE  Has(t, Colon) <=> Marks(t) # {}
<1>1. Len(Colon) = 3 /\ Len(t) \in Nat
  BY DEF Colon
<1>2. (Len(t) - 3) + 1 = Len(t) - 2
  BY <1>1
<1>3. \A i \in 1..(Len(t) - 2) : (i + 3) - 1 = i + 2
  OBVIOUS
<1>4. Has(t, Colon) <=> \E i \in 1..((Len(t) - Len(Colon)) + 1) :
                          SubSeq(t, i, (i + Len(Colon)) - 1) = Colon
  BY DEF Has
<1>5. Has(t, Colon) <=> \E i \in 1..(Len(t) - 2) : SubSeq(t, i, (i + 3) - 1) = Colon
  BY <1>1, <1>2, <1>4
<1>6. Has(t, Colon) <=> \E i \in 1..(Len(t) - 2) : SubSeq(t, i, i + 2) = Colon
  BY <1>3, <1>5
<1> QED BY <1>6 DEF Marks

\* ExtractKv of a text with a colon, none of whose bytes is alone.
LEMMA KvIs ==
  ASSUME NEW S, NEW t \in Seq(S), Whole(t), Marks(t) # {}, NEW next
  PROVE  ExtractKv(t, next)
           = [key   |-> Named(t),
              value |-> IF Has(next, Colon) THEN Given(t) ELSE next]
<1> DEFINE C == ToSet(Colon)
           L == Len(t)
           Bs == {1} \cup Begins(t, C)
           part(k) == SubSeq(t, Nth(Bs, k), EndOf(t, C, Nth(Bs, k)) - 1)
<1>0. L \in Nat /\ L \in Nat \ {0}
  <2>1. PICK m \in Marks(t) : TRUE
    OBVIOUS
  <2>2. m \in Nat \ {0} /\ m + 2 <= L
    BY <2>1, MarkBytes, ZenonT(30)
  <2>3. L \in Nat
    BY LenProperties
  <2> HIDE DEF L
  <2> QED BY <2>2, <2>3
<1>1. Split(t, C) = [k \in 1..Cardinality(Bs) |-> part(k)]
  BY DEF Split, Pieces, EndOf
<1>2. Bs \in SUBSET (1..L) /\ 1 \in Bs /\ \A i \in Bs : 1 <= i
  BY <1>0 DEF Begins
<1>3. \A i : i \in Begins(t, C) <=> i \in 1..L /\ t[i] \notin C /\ (i = 1 \/ t[i - 1] \in C)
  BY DEF Begins
<1>4. Nth(Bs, 1) = 1 /\ Cardinality(Bs) \in Nat \ {0}
  <2> HIDE DEF Bs, L
  <2> QED BY <1>0, <1>2, NthFirst
<1>5a. ASSUME NEW m \in Marks(t)
       PROVE  /\ m \in Nat \ {0} /\ m \in 1..L /\ m + 2 <= L /\ m < L + 1 /\ L - m \in Nat
              /\ t[m] \in C
              /\ m + 1 \notin Marks(t) /\ m + 2 \notin Marks(t)
  <2> HIDE DEF C, L
  <2>1. /\ m \in Nat \ {0} /\ m + 2 <= Len(t)
        /\ \A i \in m..(m + 2) : i \in 1..Len(t) /\ t[i] \in ToSet(Colon)
        /\ m + 1 \notin Marks(t) /\ m + 2 \notin Marks(t)
    BY MarkBytes
  <2>2. m \in m..(m + 2)
    BY <2>1
  <2>3. m + 2 <= L
    BY <2>1 DEF L
  <2>4. t[m] \in C
    BY <2>1, <2>2 DEF C
  <2> QED BY <1>0, <2>1, <2>3, <2>4
<1>5. Marks(t) \in SUBSET Nat
  BY <1>5a
<1>6. PICK m0 \in Marks(t) : \A m \in Marks(t) : m0 <= m
  BY <1>5, LeastExists
<1>7. Min(Marks(t)) = m0
  BY <1>5, <1>6, MinIs
<1>8. EndOf(t, C, 1) = m0
  <2> DEFINE E == {i \in 1..L : t[i] \in C} \cup {L + 1}
  <2>1. m0 \in E /\ E \in SUBSET Nat
    <3>1. m0 \in 1..L /\ t[m0] \in C
      BY <1>5a, <1>6
    <3> HIDE DEF C
    <3> QED BY <1>0, <3>1
  <2>2. \A y \in E : m0 <= y
    <3>1. ASSUME NEW y \in 1..L, t[y] \in C PROVE m0 <= y
      <4>1. PICK m \in Marks(t) : y \in m..(m + 2)
        BY <3>1 DEF Whole
      <4>2. m \in Nat /\ m0 <= m /\ m0 \in Nat
        BY <1>5, <1>6
      <4> QED BY <4>1, <4>2
    <3>2. m0 <= L + 1
      <4>1. m0 \in 1..L
        BY <1>5a, <1>6
      <4> HIDE DEF E, C, L
      <4> QED BY <1>0, <4>1
    <3> QED BY <3>1, <3>2
  <2>3. Min(E) = m0
    <3> HIDE DEF E
    <3> QED BY <2>1, <2>2, MinIs
  <2> QED BY <2>3 DEF EndOf
<1>9. part(1) = Named(t)
  <2> HIDE DEF C, Bs
  <2> QED BY <1>4, <1>7, <1>8 DEF Named
\* The end of the first run of colons.
<1> DEFINE D == {m \in Marks(t) : m + 3 \notin Marks(t)}
<1>10. D # {} /\ D \in SUBSET Nat
  <2>1. SUFFICES ASSUME \A m \in Marks(t) : m + 3 \in Marks(t) PROVE FALSE
    BY <1>5
  <2> DEFINE R == {L - m : m \in Marks(t)}
  <2>2. R \in SUBSET Nat /\ R # {}
    <3>1. \A m \in Marks(t) : L - m \in Nat
      BY <1>5a
    <3> QED BY <3>1
  <2>3. PICK r \in R : \A y \in R : r <= y
    <3> HIDE DEF R
    <3> QED BY <2>2, LeastExists
  <2>4. PICK m \in Marks(t) : r = L - m
    BY <2>3
  <2>5. L - (m + 3) \in R /\ m \in Nat
    BY <1>5, <2>1
  <2>6. r <= L - (m + 3)
    <3> HIDE DEF R
    <3> QED BY <2>3, <2>5
  <2> QED BY <1>0, <2>4, <2>5, <2>6
<1>11. PICK m1 \in D : \A m \in D : m1 <= m
  <2> HIDE DEF D
  <2> QED BY <1>10, LeastExists
<1>12. Min(D) = m1
  <2> HIDE DEF D
  <2> QED BY <1>10, <1>11, MinIs
<1> DEFINE y == m1 + 3
           G == {m \in Marks(t) : m > m1} \cup {L + 1}
<1>13. m1 \in Marks(t) /\ m1 \in Nat \ {0} /\ m1 + 2 <= L /\ y \in Nat /\ y \notin Marks(t)
       /\ m1 + 1 \notin Marks(t) /\ m1 + 2 \notin Marks(t)
  <2>1. m1 \in Marks(t) /\ m1 + 3 \notin Marks(t)
    BY <1>11
  <2>2. m1 \in Nat \ {0} /\ m1 + 2 <= L /\ m1 + 1 \notin Marks(t) /\ m1 + 2 \notin Marks(t)
    BY <1>5a, <2>1
  <2> HIDE DEF D, L, C
  <2> QED BY <2>1, <2>2
<1>14. Given(t) = SubSeq(t, y, Min(G) - 1)
  BY <1>12 DEF Given
\* What begins behind the first piece begins behind a run of colons.
<1>15. ASSUME NEW i \in Bs, i # 1 PROVE y <= i
  <2>1. i \in 1..L /\ t[i] \notin C /\ t[i - 1] \in C
    BY <1>3, <1>15
  <2>2. i \in Nat /\ i - 1 \in 1..L
    BY <1>0, <1>15, <2>1
  <2>3. PICK m \in Marks(t) : i - 1 \in m..(m + 2)
    BY <2>1, <2>2 DEF Whole
  <2>4. m \in Nat \ {0} /\ \A j \in m..(m + 2) : t[j] \in C
    BY MarkBytes
  <2>5. i \notin m..(m + 2)
    BY <2>1, <2>4
  <2>6. i = m + 3
    BY <2>2, <2>3, <2>4, <2>5
  <2>7. m + 3 \notin Marks(t)
    <3>1. SUFFICES ASSUME m + 3 \in Marks(t) PROVE FALSE
      OBVIOUS
    <3>2. m + 3 \in (m + 3)..((m + 3) + 2)
      BY <2>4
    <3>3. t[m + 3] \in C
      BY <3>1, <3>2, MarkBytes
    <3> QED BY <2>1, <2>6, <3>3
  <2>8. m1 <= m
    BY <1>11, <2>7
  <2> QED BY <1>13, <2>4, <2>6, <2>8
<1>16. CASE y <= L
  <2>1. t[y] \notin C
    <3>1. SUFFICES ASSUME t[y] \in C PROVE FALSE
      OBVIOUS
    <3>2. y \in DOMAIN t
      BY <1>13, <1>16
    <3>3. PICK m \in Marks(t) : y \in m..(m + 2)
      BY <3>1, <3>2 DEF Whole
    <3>4. m \in Nat /\ (m = m1 + 3 \/ m = m1 + 2 \/ m = m1 + 1)
      BY <1>5, <1>13, <3>3
    <3> QED BY <1>13, <3>4
  <2>2. y \in Bs /\ y # 1
    <3>1. t[y - 1] \in C
      <4>1. y - 1 \in m1..(m1 + 2)
        BY <1>13
      <4> QED BY <1>13, <4>1, MarkBytes
    <3>2. y \in Begins(t, C)
      <4>1. y \in 1..L
        BY <1>13, <1>16
      <4> HIDE DEF y
      <4> QED BY <1>3, <2>1, <3>1, <4>1
    <3> QED BY <1>13, <3>2
  <2>3. Nth(Bs, 2) = y /\ Cardinality(Bs) > 1
    <3>1. \A i \in Bs : i = 1 \/ y <= i
      BY <1>15
    <3> HIDE DEF y, Bs, L
    <3>2. \A z \in Bs : z # 1 /\ (\A i \in Bs : i = 1 \/ z <= i)
              => Nth(Bs, 2) = z /\ Cardinality(Bs) > 1
      BY <1>0, <1>2, NthFirst
    <3> QED BY <2>2, <3>1, <3>2
  <2>4. EndOf(t, C, y) = Min(G)
    <3>1. G \in SUBSET Nat /\ G # {}
      BY <1>0, <1>5
    <3>2. PICK e \in G : \A g \in G : e <= g
      <4> HIDE DEF G
      <4> QED BY <3>1, LeastExists
    <3>3. Min(G) = e
      <4> HIDE DEF G
      <4> QED BY <3>1, <3>2, MinIs
    <3> DEFINE E == {i \in y..L : t[i] \in C} \cup {L + 1}
    <3>4. \A g \in G : g \in E
      <4>1. ASSUME NEW g \in Marks(t), g > m1 PROVE g \in y..L /\ t[g] \in C
        <5>1. g \in Nat \ {0} /\ g + 2 <= L /\ g \in g..(g + 2)
              /\ \A i \in g..(g + 2) : t[i] \in C
          BY MarkBytes
        <5>2. g # m1 + 1 /\ g # m1 + 2
          BY <1>13
        <5>3. g \in y..L
          BY <1>0, <1>13, <4>1, <5>1, <5>2
        <5> QED BY <5>1, <5>3
      <4> QED BY <4>1
    <3>5. \A i \in E : e <= i
      <4>1. ASSUME NEW i \in y..L, t[i] \in C PROVE e <= i
        <5>1. i \in DOMAIN t
          BY <1>13, <4>1
        <5>2. PICK m \in Marks(t) : i \in m..(m + 2)
          BY <4>1, <5>1 DEF Whole
        <5>3. m \in Nat /\ m > m1 /\ m <= i
          BY <1>5, <1>13, <5>2
        <5>4. m \in G
          BY <5>3
        <5>5. e <= m /\ e \in Nat
          <6> HIDE DEF G
          <6> QED BY <3>1, <3>2, <5>4
        <5> QED BY <5>3, <5>5
      <4>2. e <= L + 1
        BY <3>2
      <4> QED BY <4>1, <4>2
    <3>6. Min(E) = e
      <4>1. e \in E /\ E \in SUBSET Nat
        BY <1>0, <1>13, <3>2, <3>4
      <4> HIDE DEF E
      <4> QED BY <3>5, <4>1, MinIs
    <3> HIDE DEF G, y
    <3> QED BY <3>3, <3>6 DEF EndOf
  <2>5. part(2) = Given(t)
    <3> HIDE DEF C, Bs, y, G
    <3> QED BY <1>14, <2>3, <2>4
  <2> HIDE DEF part, Bs, y, G, D, C
  <2>6. Split(t, C)[1] = part(1) /\ Split(t, C)[2] = part(2) /\ Len(Split(t, C)) > 1
    BY <1>1, <1>4, <2>3
  <2> QED BY <1>9, <2>5, <2>6 DEF ExtractKv, C
<1>17. CASE ~(y <= L)
  <2>1. y = L + 1
    BY <1>0, <1>13, <1>17
  <2>2. Bs = {1}
    <3>1. \A i \in Bs : i \in 1..L
      BY <1>2
    <3>2. \A i \in Bs : i = 1
      BY <1>0, <1>13, <1>15, <1>17, <3>1
    <3> HIDE DEF Bs
    <3> QED BY <1>2, <3>2
  <2>3. Cardinality(Bs) = 1
    <3> HIDE DEF Bs
    <3> QED BY <2>2, FS_Singleton
  <2>4. G = {L + 1}
    <3>1. ASSUME NEW m \in Marks(t), m > m1 PROVE FALSE
      <4>1. m \in Nat /\ m + 2 <= L
        BY MarkBytes
      <4> QED BY <1>0, <1>13, <2>1, <3>1, <4>1
    <3> QED BY <3>1
  <2>5. Given(t) = <<>>
    <3>1. Min(G) = L + 1
      <4>1. G \in SUBSET Nat /\ L + 1 \in G /\ \A g \in G : L + 1 <= g
        <5> HIDE DEF G
        <5> QED BY <1>0, <2>4
      <4> HIDE DEF G
      <4> QED BY <4>1, MinIs
    <3>2. SubSeq(t, L + 1, L + 0) = [i \in 1..0 |-> t[L + i]]
      <4>1. L \in Nat /\ 0 \in Nat /\ L + 0 <= Len(t)
        BY <1>0
      <4> QED BY <4>1, PartIs
    <3>3. L + 0 = (L + 1) - 1 /\ [i \in 1..0 |-> t[L + i]] = <<>>
      BY <1>0
    <3> HIDE DEF G, y
    <3> QED BY <1>14, <2>1, <3>1, <3>2, <3>3
  <2> HIDE DEF part, Bs, y, G, D, C
  <2>6. Split(t, C)[1] = part(1) /\ Len(Split(t, C)) = 1
    BY <1>1, <2>3
  <2> QED BY <1>9, <2>5, <2>6 DEF ExtractKv, C
<1> QED BY <1>16, <1>17

-------------------------------------------------------------------------------
(* The rows of a page.                                                     *)

Bytes == STRING \cup {"insert", "(", ",", "'", ")", ";", "_", LF,
                      "Webpub", "trade", "shop", ""}
ByteText == Seq(Bytes)

LEMMA PageIsText ==
  ASSUME NEW f \in Files
  PROVE  Page[f].url \in ByteText /\ Page[f].body \in ByteText
<1>1. Page[f].url \in Seq(STRING) /\ Page[f].body \in Seq(STRING)
  BY AnalyserAssumption
<1>2. STRING \subseteq Bytes
  BY DEF Bytes
<1> HIDE DEF Bytes
<1>3. Seq(STRING) \subseteq Seq(Bytes)
  BY <1>2, SeqGrows
<1> QED BY <1>1, <1>3 DEF ByteText

\* The texts of a page are texts, without a part of a colon if its body is.
LEMMA PageTextsAre ==
  ASSUME NEW f \in Files
  PROVE  /\ PageTexts[f] \in Seq(ByteText)
         /\ \A n \in 1..Len(PageTexts[f]) :
              /\ PageTexts[f][n] \in ByteText
              /\ f \in OnlyWholeColons => Whole(PageTexts[f][n])
<1> DEFINE body == Page[f].body
           F == [b \in DOMAIN body |-> TextTo(body, b)]
           T == {t \in ByteText : f \in OnlyWholeColons => Whole(t)}
<1>1. body \in ByteText /\ Len(body) \in Nat /\ DOMAIN body = 1..Len(body)
  BY PageIsText, LenProperties DEF ByteText
<1>2. TextEnds(body) \in SUBSET (1..Len(body))
  BY <1>1 DEF TextEnds
<1>3. f \in OnlyWholeColons => Whole(body)
  BY DEF OnlyWholeColons, Whole
<1>4. ASSUME NEW b \in TextEnds(body) PROVE F[b] \in T
  <2>1. TextTo(body, b) \in ByteText /\ (Whole(body) => Whole(TextTo(body, b)))
    BY <1>1, TextsAreWhole DEF ByteText
  <2>2. F[b] = TextTo(body, b)
    BY <1>1, <1>2
  <2> QED BY <1>3, <2>1, <2>2
<1>5. PageTexts[f] = Picked(F, TextEnds(body))
  BY DEF PageTexts, TextsBetweenTags
<1>6. PageTexts[f] \in Seq(T)
  <2> HIDE DEF F, T, body
  <2> QED BY <1>1, <1>2, <1>4, <1>5, PickedType
<1>7. PageTexts[f] \in Seq(ByteText)
  <2>1. T \subseteq ByteText
    OBVIOUS
  <2> HIDE DEF T
  <2> QED BY <1>6, <2>1, SeqGrows
<1>8. ASSUME NEW n \in 1..Len(PageTexts[f]) PROVE PageTexts[f][n] \in T
  <2> HIDE DEF T
  <2> QED BY <1>6, ElementOfSeq
<1> QED BY <1>7, <1>8

\* The row of the n-th text of a page, and the rows of those before it.
RowOf(f, n) ==
  LET texts == PageTexts[f]
  IN Row(PageParts[f], [key   |-> Named(texts[n]),
                        value |-> IF Marks(texts[n + 1]) # {} THEN Given(texts[n])
                                  ELSE texts[n + 1]])
RowPlaces(f, n) == {i \in 1..(Len(PageTexts[f]) - 1) : Marks(PageTexts[f][i]) # {} /\ i < n}
RowsTo(f, n) == Picked([i \in DOMAIN PageTexts[f] |-> RowOf(f, i)], RowPlaces(f, n))
RowSet(f) == {RowOf(f, i) : i \in DOMAIN PageTexts[f]}

LEMMA LenTexts ==
  ASSUME NEW f \in Files
  PROVE  Len(PageTexts[f]) \in Nat /\ DOMAIN PageTexts[f] = 1..Len(PageTexts[f])
BY PageTextsAre, LenProperties

LEMMA RowsToNext ==
  ASSUME NEW f \in Files, NEW n \in 1..(Len(PageTexts[f]) - 1)
  PROVE  RowsTo(f, n + 1) = IF Marks(PageTexts[f][n]) # {}
                            THEN Append(RowsTo(f, n), RowOf(f, n)) ELSE RowsTo(f, n)
<1> DEFINE L == Len(PageTexts[f])
           F == [i \in DOMAIN PageTexts[f] |-> RowOf(f, i)]
<1>1. L \in Nat /\ DOMAIN PageTexts[f] = 1..L /\ n \in Nat /\ n \in 1..L
  BY LenTexts
<1>2. CASE Marks(PageTexts[f][n]) # {}
  <2>1. RowPlaces(f, n + 1) = RowPlaces(f, n) \cup {n}
    BY <1>1, <1>2 DEF RowPlaces
  <2>2. RowPlaces(f, n) \in SUBSET (1..L) /\ \A i \in RowPlaces(f, n) : i < n
    BY <1>1 DEF RowPlaces
  <2>3. F[n] = RowOf(f, n)
    BY <1>1
  <2> HIDE DEF F, L
  <2>4. Picked(F, RowPlaces(f, n) \cup {n}) = Append(Picked(F, RowPlaces(f, n)), F[n])
    BY <1>1, <2>2, PickedGrows
  <2> QED BY <1>2, <2>1, <2>3, <2>4 DEF RowsTo, F
<1>3. CASE Marks(PageTexts[f][n]) = {}
  <2>1. RowPlaces(f, n + 1) = RowPlaces(f, n)
    BY <1>1, <1>3 DEF RowPlaces
  <2> QED BY <1>3, <2>1 DEF RowsTo
<1> QED BY <1>2, <1>3

LEMMA RowsToEnds ==
  ASSUME NEW f \in Files
  PROVE  RowsTo(f, 1) = <<>> /\ RowsTo(f, Len(PageTexts[f])) = RowsOf[f]
<1> DEFINE L == Len(PageTexts[f])
<1>1. L \in Nat
  BY LenTexts
<1>2. RowPlaces(f, 1) = {}
  BY <1>1 DEF RowPlaces
<1>3. RowPlaces(f, L) = {n \in 1..(L - 1) : Marks(PageTexts[f][n]) # {}}
  BY <1>1 DEF RowPlaces
<1> HIDE DEF L
<1>4. RowsOf[f] = Picked([i \in DOMAIN PageTexts[f] |-> RowOf(f, i)], RowPlaces(f, L))
  BY <1>3 DEF RowsOf, RowOf, L
<1> QED BY <1>2, <1>4, PickedNone DEF RowsTo, L

LEMMA RowsType ==
  ASSUME NEW f \in Files, NEW n \in Nat
  PROVE  RowsTo(f, n) \in Seq(RowSet(f))
<1> DEFINE L == Len(PageTexts[f])
           F == [i \in DOMAIN PageTexts[f] |-> RowOf(f, i)]
<1>1. L \in Nat /\ DOMAIN PageTexts[f] = 1..L
  BY LenTexts
<1>2. RowPlaces(f, n) \in SUBSET (1..L)
  BY <1>1 DEF RowPlaces
<1>3. \A i \in RowPlaces(f, n) : F[i] \in RowSet(f)
  BY <1>1, <1>2 DEF RowSet
<1> HIDE DEF F, L
<1> QED BY <1>1, <1>2, <1>3, PickedType DEF RowsTo, F

\* What extract_kv yields for two texts is a row of the page.
LEMMA RowIs ==
  ASSUME NEW f \in Files, f \in OnlyWholeColons, NEW n \in 1..(Len(PageTexts[f]) - 1),
         Marks(PageTexts[f][n]) # {}
  PROVE  Row(PageParts[f], ExtractKv(PageTexts[f][n], PageTexts[f][n + 1])) = RowOf(f, n)
<1> DEFINE t == PageTexts[f][n]
           next == PageTexts[f][n + 1]
<1>1. t \in ByteText /\ Whole(t) /\ next \in ByteText
  <2>1. n \in 1..Len(PageTexts[f]) /\ n + 1 \in 1..Len(PageTexts[f])
    BY LenTexts
  <2> QED BY <2>1, PageTextsAre
<1>2. Has(next, Colon) <=> Marks(next) # {}
  BY <1>1, HasIs DEF ByteText
<1>3. ExtractKv(t, next) = [key   |-> Named(t),
                            value |-> IF Has(next, Colon) THEN Given(t) ELSE next]
  <2> HIDE DEF next
  <2> QED BY <1>1, KvIs DEF ByteText
<1> QED BY <1>2, <1>3 DEF RowOf

-------------------------------------------------------------------------------
(* Copies of the rows.                                                     *)

LEMMA CopiesNext ==
  ASSUME NEW f \in Files, NEW n \in Nat
  PROVE  /\ Copies(f, 0) = <<>>
         /\ Copies(f, n) \in Seq(RowSet(f))
         /\ Copies(f, n + 1) = Copies(f, n) \o RowsOf[f]
<1> DEFINE R == RowsOf[f]
           S == RowSet(f)
           ss(k) == [i \in 1..k |-> R]
<1>1. R \in Seq(S)
  BY LenTexts, RowsToEnds, RowsType
<1>2. ASSUME NEW k \in Nat PROVE ss(k) \in Seq(Seq(S)) /\ Len(ss(k)) = k
  <2> HIDE DEF R, S
  <2> QED BY <1>1
<1>3. PICK g \in [0..(n + 1) -> Seq(S)] :
        g[0] = <<>> /\ \A i \in 1..(n + 1) : g[i] = g[i - 1] \o R
  <2> DEFINE rs == ss(n + 1)
  <2>1. rs \in Seq(Seq(S)) /\ Len(rs) = n + 1
    <3>1. n + 1 \in Nat
      OBVIOUS
    <3> HIDE DEF ss
    <3> QED BY <1>2, <3>1
  <2>2. \A i \in 1..(n + 1) : rs[i] = R
    OBVIOUS
  <2> HIDE DEF ss, S, R, rs
  <2>3. \E g \in [0..Len(rs) -> Seq(S)] :
          g[0] = <<>> /\ \A i \in 1..Len(rs) : g[i] = g[i - 1] \o rs[i]
    BY <2>1, PrefixesExist
  <2> QED BY <2>1, <2>2, <2>3
<1>4. ASSUME NEW k \in Nat, k <= n + 1 PROVE Copies(f, k) = g[k]
  <2> DEFINE h == [i \in 0..k |-> g[i]]
  <2>1. h \in [0..k -> Seq(S)] /\ h[0] = <<>> /\ h[k] = g[k]
    BY <1>3, <1>4
  <2>2. ASSUME NEW i \in 1..k PROVE h[i] = h[i - 1] \o R
    <3>1. i \in 1..(n + 1) /\ i \in 0..k /\ i - 1 \in 0..k
      BY <1>4
    <3>2. h[i] = g[i] /\ h[i - 1] = g[i - 1]
      BY <3>1
    <3> HIDE DEF h, R, S
    <3> QED BY <1>3, <3>1, <3>2
  <2> DEFINE rs == ss(k)
  <2>3. \A i \in 1..k : rs[i] = R
    OBVIOUS
  <2>3a. rs \in Seq(Seq(S)) /\ Len(rs) = k
    <3> HIDE DEF ss, S
    <3> QED BY <1>2
  <2>3b. FlattenSeq(rs) = h[k]
    <3> HIDE DEF rs, ss, S, R, h
    <3>1. h \in [0..Len(rs) -> Seq(S)] /\ \A i \in 1..Len(rs) : h[i] = h[i - 1] \o rs[i]
      BY <2>1, <2>2, <2>3, <2>3a
    <3> QED BY <2>1, <2>3a, <3>1, FlattenIs
  <2>4. FlattenSeq(ss(k)) = h[k]
    <3> HIDE DEF ss, h
    <3> QED BY <2>3b
  <2> HIDE DEF ss, S, R, h
  <2> QED BY <2>1, <2>4 DEF Copies, ss, R
<1>5. Copies(f, 0) = g[0] /\ Copies(f, n) = g[n] /\ Copies(f, n + 1) = g[n + 1]
  BY <1>4
<1>6. g[n + 1] = g[n] \o R /\ g[n] \in Seq(S)
  <2> HIDE DEF R, S
  <2>1. n + 1 \in 1..(n + 1) /\ (n + 1) - 1 = n /\ n \in 0..(n + 1)
    OBVIOUS
  <2> QED BY <1>3, <2>1
<1> QED BY <1>3, <1>5, <1>6

LEMMA PrefixOfConcat ==
  ASSUME NEW S, NEW s \in Seq(S), NEW u \in Seq(S)
  PROVE  IsPrefix(s, s \o u)
<1>1. Len(s) \in Nat /\ Len(u) \in Nat /\ Len(s \o u) = Len(s) + Len(u) /\ s \o u \in Seq(S)
  BY LenProperties, ConcatProperties
<1>2. SubSeq(s \o u, 1, Len(s)) = SubSeq(s, 1, Len(s))
  <2>1. CASE Len(s) = 0
    <3>1. 0 < 1 /\ 0 \in Int /\ 1 \in Int
      OBVIOUS
    <3> QED BY <2>1, <3>1, SubSeqEmpty
  <2>2. CASE Len(s) # 0
    <3>1. 1 \in 1..Len(s) /\ Len(s) \in 1..Len(s)
      BY <1>1, <2>2
    <3> QED BY <3>1, SubSeqOfConcat1
  <2> QED BY <2>1, <2>2
<1> QED BY <1>1, <1>2 DEF IsPrefix

\* One sequence begins with another; a sequence that only grows.
Goes(S, v, longer) == \E u \in Seq(S) : longer = v \o u
Grows(S, g) == \A k \in Nat : g[k] \in Seq(S) /\ Goes(S, g[k], g[k + 1])

\* Sequences joined from the left or from the right.  The equality has a name,
\* as the provers else join what they have joined without end.
Joins(x, y, v) == (x \o y) \o v = x \o (y \o v)

LEMMA Regroup ==
  ASSUME NEW T, NEW x \in Seq(T), NEW y \in Seq(T), NEW v \in Seq(T)
  PROVE  Joins(x, y, v)
BY ConcatAssociative DEF Joins

LEMMA GrowsOn ==
  ASSUME NEW S, NEW g, Grows(S, g), NEW c \in Nat, NEW s \in Nat, c <= s
  PROVE  Goes(S, g[c], g[s])
<1> DEFINE T == {m \in Nat : \E u \in Seq(S) : g[c + m] = g[c] \o u}
<1>0. g[c] \in Seq(S)
  BY DEF Grows
<1>1. 0 \in T
  <2>1. g[c] = g[c] \o <<>> /\ <<>> \in Seq(S)
    BY <1>0, ConcatEmptySeq
  <2>2. c + 0 = c
    OBVIOUS
  <2>3. g[c + 0] = g[c] \o <<>>
    BY <2>1, <2>2
  <2> QED BY <2>1, <2>3
<1>2. ASSUME NEW m \in T PROVE m + 1 \in T
  <2>1. PICK u \in Seq(S) : g[c + m] = g[c] \o u
    OBVIOUS
  <2>2. m \in Nat /\ c + m \in Nat /\ c + (m + 1) = (c + m) + 1
    OBVIOUS
  <2>3. PICK v \in Seq(S) : g[(c + m) + 1] = g[c + m] \o v
    BY <2>2 DEF Grows, Goes
  <2>4. (g[c] \o u) \o v = g[c] \o (u \o v)
    <3>1. PICK p \in Seq(S) : p = g[c]
      BY <1>0
    <3> HIDE DEF T
    <3>0. Joins(p, u, v)
      BY Regroup
    <3>2. (p \o u) \o v = p \o (u \o v)
      BY <3>0 DEF Joins
    <3> QED BY <3>1, <3>2
  <2>5. u \o v \in Seq(S)
    BY ConcatProperties
  <2>6. g[c + (m + 1)] = g[c] \o (u \o v)
    BY <2>1, <2>2, <2>3, <2>4
  <2>7. \E o \in Seq(S) : g[c + (m + 1)] = g[c] \o o
    BY <2>5, <2>6
  <2>8. m + 1 \in Nat
    BY <2>2
  <2> QED BY <2>7, <2>8
<1>3. T = Nat
  <2>1. T \in SUBSET Nat
    OBVIOUS
  <2> HIDE DEF T
  <2> QED BY <1>1, <1>2, <2>1, AllOfNat
<1>4. s - c \in Nat /\ c + (s - c) = s
  OBVIOUS
<1>5. s - c \in T
  <2> HIDE DEF T
  <2> QED BY <1>3, <1>4
<1>6. PICK u \in Seq(S) : g[c + (s - c)] = g[c] \o u
  BY <1>5
<1> QED BY <1>4, <1>6 DEF Goes

LEMMA CopiesGrow ==
  ASSUME NEW f \in Files, NEW c \in Nat, NEW s \in Nat, c <= s
  PROVE  \E u \in Seq(RowSet(f)) : Copies(f, s) = Copies(f, c) \o u
<1> DEFINE g == [k \in Nat |-> Copies(f, k)]
<1>1. g \in [Nat -> Seq(RowSet(f))]
  BY CopiesNext
<1>2. RowsOf[f] \in Seq(RowSet(f))
  BY LenTexts, RowsToEnds, RowsType
<1>3. ASSUME NEW k \in Nat
      PROVE  \E u \in Seq(RowSet(f)) : g[k + 1] = g[k] \o u
  <2>1. g[k + 1] = g[k] \o RowsOf[f]
    <3>1. k + 1 \in Nat
      OBVIOUS
    <3>2. g[k + 1] = Copies(f, k + 1) /\ g[k] = Copies(f, k)
      BY <3>1
    <3>3. Copies(f, k + 1) = Copies(f, k) \o RowsOf[f]
      BY CopiesNext
    <3> HIDE DEF g
    <3> QED BY <3>2, <3>3
  <2> QED BY <1>2, <2>1
<1>4. g[c] = Copies(f, c) /\ g[s] = Copies(f, s)
  OBVIOUS
<1> DEFINE S == RowSet(f)
<1> HIDE DEF g, S
<1>5. Goes(S, g[c], g[s])
  <2>1. Grows(S, g)
    BY <1>1, <1>3 DEF S, Grows, Goes
  <2> QED BY <2>1, GrowsOn
<1> QED BY <1>4, <1>5 DEF S, Goes

LEMMA RowsToGrow ==
  ASSUME NEW f \in Files, NEW n \in 1..Len(PageTexts[f])
  PROVE  \E u \in Seq(RowSet(f)) : RowsOf[f] = RowsTo(f, n) \o u
<1> DEFINE L == Len(PageTexts[f])
           S == RowSet(f)
           g == [k \in Nat |-> IF k < L THEN RowsTo(f, k) ELSE RowsTo(f, L)]
<1>1. L \in Nat /\ n \in Nat /\ n <= L /\ 1 <= n
  BY LenTexts
<1>2. g \in [Nat -> Seq(S)]
  BY <1>1, RowsType
<1>3. ASSUME NEW k \in Nat, 1 <= k
      PROVE  \E u \in Seq(S) : g[k + 1] = g[k] \o u
  <2> HIDE DEF S
  <2>1. CASE k < L /\ Marks(PageTexts[f][k]) # {}
    <3> DEFINE r == RowOf(f, k)
    <3>1. k \in 1..(L - 1) /\ g[k] = RowsTo(f, k) /\ RowsTo(f, k) \in Seq(S)
      BY <1>1, <1>2, <1>3, <2>1
    <3>2. g[k + 1] = RowsTo(f, k + 1)
      <4>1. k + 1 < L \/ k + 1 = L
        BY <1>1, <2>1
      <4> HIDE DEF L
      <4> QED BY <1>1, <4>1
    <3>3. RowsTo(f, k + 1) = Append(RowsTo(f, k), r)
      BY <2>1, <3>1, RowsToNext
    <3>4. r \in S
      <4>1. k \in DOMAIN PageTexts[f]
        BY <1>1, <3>1, LenTexts
      <4> QED BY <4>1 DEF RowSet, S
    <3> HIDE DEF r, g
    <3>5. Append(RowsTo(f, k), r) = RowsTo(f, k) \o <<r>> /\ <<r>> \in Seq(S)
      BY <3>1, <3>4, AppendIsConcat
    <3> QED BY <3>1, <3>2, <3>3, <3>5
  <2>2. CASE ~(k < L /\ Marks(PageTexts[f][k]) # {})
    <3>1. g[k + 1] = g[k]
      <4>1. CASE ~(k < L)
        BY <1>1, <4>1
      <4>2. CASE k < L /\ Marks(PageTexts[f][k]) = {}
        <5>1. RowsTo(f, k + 1) = RowsTo(f, k)
          BY <1>1, <1>3, <4>2, RowsToNext
        <5>2. k + 1 < L \/ k + 1 = L
          BY <1>1, <4>2
        <5> HIDE DEF L
        <5> QED BY <1>1, <4>2, <5>1, <5>2
      <4> QED BY <2>2, <4>1, <4>2
    <3> HIDE DEF g
    <3>2. g[k] = g[k] \o <<>> /\ <<>> \in Seq(S)
      BY <1>2, ConcatEmptySeq
    <3> QED BY <3>1, <3>2
  <2> QED BY <2>1, <2>2
<1> DEFINE h == [k \in Nat |-> g[k + 1]]
<1>4. h \in [Nat -> Seq(S)]
  <2> HIDE DEF S, g
  <2> QED BY <1>2
<1>5. ASSUME NEW k \in Nat PROVE \E u \in Seq(S) : h[k + 1] = h[k] \o u
  <2>1. k + 1 \in Nat /\ 1 <= k + 1
    OBVIOUS
  <2> HIDE DEF g, S
  <2> QED BY <1>3, <2>1
<1>6. h[n - 1] = RowsTo(f, n) /\ h[L - 1] = RowsTo(f, L) /\ n - 1 \in Nat /\ L - 1 \in Nat
      /\ n - 1 <= L - 1
  <2>1. n - 1 \in Nat /\ L - 1 \in Nat /\ (n - 1) + 1 = n /\ (L - 1) + 1 = L /\ n - 1 <= L - 1
    BY <1>1
  <2>2. h[n - 1] = g[n] /\ h[L - 1] = g[L]
    <3> HIDE DEF g
    <3> QED BY <2>1
  <2>3. g[n] = RowsTo(f, n) /\ g[L] = RowsTo(f, L)
    <3>1. n < L \/ n = L
      BY <1>1
    <3> HIDE DEF L
    <3> QED BY <1>1, <3>1
  <2> HIDE DEF h, g
  <2> QED BY <2>1, <2>2, <2>3
<1> HIDE DEF h, g, S
<1>7. Goes(S, h[n - 1], h[L - 1])
  <2>1. Grows(S, h)
    BY <1>4, <1>5 DEF Grows, Goes
  <2> QED BY <1>6, <2>1, GrowsOn
<1> QED BY <1>6, <1>7, RowsToEnds DEF S, Goes

\* Whole copies, and a begun one, are the begin of as many.
LEMMA PagePrefix ==
  ASSUME NEW f \in Files, NEW c \in Nat, NEW s \in Nat
  PROVE  /\ c <= s => IsPrefix(Copies(f, c), Copies(f, s))
         /\ \A n \in 1..Len(PageTexts[f]) :
              c + 1 <= s => IsPrefix(Copies(f, c) \o RowsTo(f, n), Copies(f, s))
<1> DEFINE S == RowSet(f)
<1>1. Copies(f, c) \in Seq(S) /\ Copies(f, c + 1) = Copies(f, c) \o RowsOf[f]
  BY CopiesNext
<1> HIDE DEF S
<1>2. ASSUME c <= s PROVE IsPrefix(Copies(f, c), Copies(f, s))
  <2>1. PICK u \in Seq(S) : Copies(f, s) = Copies(f, c) \o u
    BY <1>2, CopiesGrow DEF S
  <2> QED BY <1>1, <2>1, PrefixOfConcat
<1>3. ASSUME NEW n \in 1..Len(PageTexts[f]), c + 1 <= s
      PROVE  IsPrefix(Copies(f, c) \o RowsTo(f, n), Copies(f, s))
  <2>1. c + 1 \in Nat /\ n \in Nat
    BY LenTexts
  <2>2. PICK u \in Seq(S) : Copies(f, s) = (Copies(f, c) \o RowsOf[f]) \o u
    <3>1. \E u \in Seq(RowSet(f)) : Copies(f, s) = Copies(f, c + 1) \o u
      BY <1>3, <2>1, CopiesGrow
    <3> QED BY <1>1, <3>1 DEF S
  <2>3. PICK v \in Seq(S) : RowsOf[f] = RowsTo(f, n) \o v
    BY RowsToGrow DEF S
  <2>4. RowsTo(f, n) \in Seq(S)
    BY <2>1, RowsType DEF S
  <2> DEFINE A == Copies(f, c)
             B == RowsTo(f, n)
  <2>0. A \in Seq(S) /\ B \in Seq(S)
    BY <1>1, <2>4
  <2> HIDE DEF A, B
  <2>5. A \o B \in Seq(S) /\ v \o u \in Seq(S) /\ B \o v \in Seq(S)
    BY <2>0, ConcatProperties
  <2>9. Joins(A, B, v) /\ Joins(A \o B, v, u)
    BY <2>0, <2>5, Regroup
  <2>6. (A \o (B \o v)) \o u = (A \o B) \o (v \o u)
    BY <2>9 DEF Joins
  <2>7. Copies(f, s) = (A \o (B \o v)) \o u
    BY <2>2, <2>3 DEF A, B
  <2>8. Copies(f, s) = (A \o B) \o (v \o u)
    BY <2>6, <2>7
  <2> QED BY <2>5, <2>8, PrefixOfConcat DEF A, B
<1> QED BY <1>2, <1>3

-------------------------------------------------------------------------------
(* The types of rows.                                                      *)

EnterpriseTypes == {"Webpub", "trade", "shop", ""}
RowType == [id : ByteText, type : EnterpriseTypes, key : ByteText, value : ByteText]

LEMMA LiteralBytes ==
  /\ \A b \in EnterpriseTypes : b \in Bytes
  /\ <<"_">> \in ByteText /\ <<"insert", "(">> \in ByteText /\ <<"'", ",", "'">> \in ByteText
  /\ <<"'", ")", ";">> \in ByteText /\ <<LF>> \in ByteText /\ <<>> \in ByteText
  /\ \A b \in Bytes : <<",", b, ",", "'">> \in ByteText
<1>1. /\ \A b \in EnterpriseTypes : b \in Bytes
      /\ "_" \in Bytes /\ "insert" \in Bytes /\ "(" \in Bytes /\ "'" \in Bytes
      /\ "," \in Bytes /\ ")" \in Bytes /\ ";" \in Bytes /\ LF \in Bytes
  BY DEF Bytes, EnterpriseTypes
<1> HIDE DEF Bytes
<1>2. \A a \in Bytes : <<a>> \in Seq(Bytes)
  OBVIOUS
<1>3. \A a, b \in Bytes : <<a, b>> \in Seq(Bytes)
  OBVIOUS
<1>4. \A a, b, c \in Bytes : <<a, b, c>> \in Seq(Bytes)
  OBVIOUS
<1>5. \A a, b, c, d \in Bytes : <<a, b, c, d>> \in Seq(Bytes)
  OBVIOUS
<1>6. <<>> \in Seq(Bytes)
  OBVIOUS
<1> QED BY <1>1, <1>2, <1>3, <1>4, <1>5, <1>6, Zenon DEF ByteText

LEMMA ConcatText ==
  ASSUME NEW a \in ByteText, NEW b \in ByteText
  PROVE  a \o b \in ByteText
<1> HIDE DEF Bytes
<1> QED BY ConcatProperties DEF ByteText

LEMMA RowTextType ==
  ASSUME NEW row \in RowType
  PROVE  RowText(row) \in ByteText
<1>1. row.id \in ByteText /\ row.type \in Bytes /\ row.key \in ByteText /\ row.value \in ByteText
  BY LiteralBytes DEF RowType
<1> DEFINE a == <<"insert", "(">>
           b == <<",", row.type, ",", "'">>
           c == <<"'", ",", "'">>
           d == <<"'", ")", ";">>
<1>2. a \in ByteText /\ b \in ByteText /\ c \in ByteText /\ d \in ByteText
  BY <1>1, LiteralBytes
<1>3. RowText(row) = a \o row.id \o b \o row.key \o c \o row.value \o d
  BY DEF RowText
<1> HIDE DEF a, b, c, d
<1>4. a \o row.id \in ByteText
  BY <1>1, <1>2, ConcatText
<1>5. a \o row.id \o b \in ByteText
  BY <1>2, <1>4, ConcatText
<1>6. a \o row.id \o b \o row.key \in ByteText
  BY <1>1, <1>5, ConcatText
<1>7. a \o row.id \o b \o row.key \o c \in ByteText
  BY <1>2, <1>6, ConcatText
<1>8. a \o row.id \o b \o row.key \o c \o row.value \in ByteText
  BY <1>1, <1>7, ConcatText
<1> QED BY <1>2, <1>3, <1>8, ConcatText

LEMMA KvFileType ==
  ASSUME kv \in Seq(RowType)
  PROVE  Url(KvFile) \in ByteText /\ Body(KvFile) \in ByteText
<1>1. \A i \in 1..Len(kv) : kv[i] \in RowType
  BY ElementOfSeq
<1>2. \A i \in 1..Len(kv) : RowText(kv[i]) \in ByteText
  BY <1>1, RowTextType
<1>3. Len(kv) \in Nat /\ DOMAIN kv = 1..Len(kv)
  BY LenProperties
<1>4. Url(KvFile) \in ByteText
  <2>1. Url(KvFile) = IF Len(kv) < 2 THEN <<>> ELSE RowText(kv[2])
    BY DEF Url
  <2>2. CASE Len(kv) < 2
    BY <2>1, <2>2, LiteralBytes
  <2>3. CASE ~(Len(kv) < 2)
    <3>1. 2 \in 1..Len(kv)
      BY <1>3, <2>3
    <3> HIDE DEF ByteText
    <3> QED BY <1>2, <2>1, <2>3, <3>1
  <2> QED BY <2>2, <2>3
<1>5. Body(KvFile) \in ByteText
  <2> DEFINE vec == [i \in DOMAIN kv |-> RowText(kv[i])]
  <2>1. vec \in Seq(ByteText) /\ DOMAIN vec = DOMAIN kv
    <3> HIDE DEF RowType
    <3> QED BY <1>2, <1>3
  <2>2. \A i \in DOMAIN kv : vec[i] = RowText(kv[i])
    OBVIOUS
  <2>3. Body(KvFile) = Joined(vec, <<LF>>)
    <3> HIDE DEF vec
    <3>1. [i \in DOMAIN kv |-> RowText(kv[i]) \o <<LF>>] = [i \in DOMAIN vec |-> vec[i] \o <<LF>>]
      BY <2>1, <2>2
    <3> QED BY <3>1 DEF Body, Joined
  <2> HIDE DEF vec, Bytes
  <2> QED BY <2>1, <2>3, LiteralBytes, JoinedIsLaid DEF ByteText
<1> QED BY <1>4, <1>5

LEMMA PartsType ==
  ASSUME kv \in Seq(RowType), NEW f \in Files \cup {KvFile}
  PROVE  /\ Parts(f) \in Seq(ByteText) /\ Body(f) \in ByteText
         /\ f \in Files => f # KvFile /\ Parts(f) = PageParts[f] /\ Body(f) = Page[f].body
<1>1. f \in Files => f # KvFile /\ Url(f) = Page[f].url /\ Body(f) = Page[f].body
  BY AnalyserAssumption DEF Url, Body
<1>2. Url(f) \in ByteText /\ Body(f) \in ByteText
  BY <1>1, PageIsText, KvFileType
<1>3. Parts(f) \in Seq(ByteText)
  <2> HIDE DEF Bytes
  <2> QED BY <1>2, SplitType DEF Parts, ByteText
<1> QED BY <1>1, <1>2, <1>3 DEF Parts, PageParts

LEMMA FirstOfType ==
  ASSUME NEW S, NEW str \in Seq(S), NEW chars
  PROVE  FirstOf(str, chars) \in 0..Len(str)
<1>1. Len(str) \in Nat
  OBVIOUS
<1>2. CASE FirstOf(str, chars) = 0
  BY <1>1, <1>2
<1>3. CASE FirstOf(str, chars) # 0
  BY <1>1, <1>3, FirstIsSome
<1> QED BY <1>2, <1>3

LEMMA RowIsTyped ==
  ASSUME NEW parts \in Seq(ByteText), Len(parts) = 5,
         NEW k \in ByteText, NEW v \in ByteText
  PROVE  /\ Row(parts, [key |-> k, value |-> v]) \in RowType
         /\ Row(parts, [key |-> k, value |-> v]).id = EnterpriseId(parts)
<1>1. EnterpriseType(parts) \in EnterpriseTypes
  BY DEF EnterpriseType, EnterpriseTypes
<1>2. parts[2] \in ByteText /\ parts[3] \in ByteText /\ parts[4] \in ByteText
      /\ parts[5] \in ByteText
  <2> HIDE DEF ByteText
  <2>1. 2 \in 1..Len(parts) /\ 3 \in 1..Len(parts) /\ 4 \in 1..Len(parts) /\ 5 \in 1..Len(parts)
    OBVIOUS
  <2> QED BY <2>1, ElementOfSeq
<1>3. ShopId(parts[5]) \in ByteText
  <2>1. PICK part \in ByteText : part = parts[5]
    BY <1>2
  <2> DEFINE pos1 == FirstOf(part, {"="})
             pos2 == FirstOf(part, {"&"})
             to == IF pos2 > pos1 THEN pos2 - 1 ELSE Len(part)
  <2>2. pos1 \in 0..Len(part) /\ pos2 \in 0..Len(part) /\ Len(part) \in Nat
    <3> HIDE DEF Bytes
    <3> QED BY FirstOfType DEF ByteText
  <2> HIDE DEF pos1, pos2
  <2>3. pos1 + 1 \in Int /\ to \in Int /\ \A i \in (pos1 + 1)..to : i \in 1..Len(part)
    BY <2>2
  <2>4. \A i \in (pos1 + 1)..to : part[i] \in Bytes
    <3> HIDE DEF to, Bytes
    <3> QED BY <2>3, ElementOfSeq DEF ByteText
  <2>5. SubSeq(part, pos1 + 1, to) \in ByteText
    <3> HIDE DEF to, Bytes
    <3> QED BY <2>3, <2>4, SubSeqProperties DEF ByteText
  <2> QED BY <2>1, <2>5 DEF ShopId, pos1, pos2
<1>4. EnterpriseId(parts) \in ByteText
  <2> DEFINE u == <<"_">>
  <2>1. u \in ByteText
    BY LiteralBytes
  <2> HIDE DEF u
  <2>2. parts[2] \o u \o parts[3] \o u \o parts[4] \in ByteText
    <3>1. parts[2] \o u \in ByteText
      BY <1>2, <2>1, ConcatText
    <3>2. parts[2] \o u \o parts[3] \in ByteText
      BY <1>2, <3>1, ConcatText
    <3>3. parts[2] \o u \o parts[3] \o u \in ByteText
      BY <2>1, <3>2, ConcatText
    <3> QED BY <1>2, <3>3, ConcatText
  <2>3. \/ EnterpriseId(parts) = parts[2] \o u \o parts[3] \o u \o parts[4]
        \/ EnterpriseId(parts) = ShopId(parts[5])
        \/ EnterpriseId(parts) = <<>>
    BY DEF EnterpriseId, u
  <2> HIDE DEF ByteText
  <2> QED BY <1>3, <2>2, <2>3, LiteralBytes
<1> HIDE DEF ByteText
<1> QED BY <1>1, <1>4 DEF Row, RowType

LEMMA KvType ==
  ASSUME NEW t \in ByteText, NEW next \in ByteText
  PROVE  \E k, v \in ByteText : ExtractKv(t, next) = [key |-> k, value |-> v]
<1> DEFINE vec == Split(t, ToSet(Colon))
           v == IF ~Has(next, Colon) THEN next ELSE IF Len(vec) > 1 THEN vec[2] ELSE <<>>
<1>1. vec \in Seq(ByteText) /\ Len(vec) > 0 /\ Len(vec) \in Nat
  <2> HIDE DEF Bytes
  <2> QED BY SplitType, LenProperties DEF ByteText
<1> HIDE DEF vec
<1>2. vec[1] \in ByteText /\ (Len(vec) > 1 => vec[2] \in ByteText)
  <2> HIDE DEF ByteText
  <2>1. 1 \in 1..Len(vec) /\ (Len(vec) > 1 => 2 \in 1..Len(vec))
    BY <1>1
  <2> QED BY <1>1, <2>1, ElementOfSeq
<1>3. v \in ByteText
  <2> HIDE DEF ByteText
  <2> QED BY <1>2, LiteralBytes
<1>4. ExtractKv(t, next) = [key |-> vec[1], value |-> v]
  BY DEF ExtractKv, vec
<1> HIDE DEF v
<1> QED BY <1>2, <1>3, <1>4

-------------------------------------------------------------------------------
(* The rows with an id, when one is added.                                 *)

WithId(q, id) == Picked(q, {i \in DOMAIN q : q[i].id = id})

LEMMA RowAdded ==
  ASSUME NEW T, NEW q \in Seq(T), NEW row \in T, NEW id
  PROVE  WithId(Append(q, row), id) = IF row.id = id THEN Append(WithId(q, id), row)
                                      ELSE WithId(q, id)
<1> DEFINE L == Len(q)
           q2 == Append(q, row)
           P == {i \in DOMAIN q : q[i].id = id}
           P2 == {i \in DOMAIN q2 : q2[i].id = id}
<1>1. L \in Nat /\ DOMAIN q = 1..L /\ DOMAIN q2 = 1..(L + 1)
  OBVIOUS
<1>2. q2[L + 1] = row /\ \A i \in 1..L : q2[i] = q[i]
  OBVIOUS
<1>3. P \in SUBSET (1..L) /\ \A i \in P : i < L + 1
  BY <1>1
<1>4. P2 = IF row.id = id THEN P \cup {L + 1} ELSE P
  <2> HIDE DEF q2, L
  <2> QED BY <1>1, <1>2
<1> HIDE DEF q2, L, P
<1>5. Picked(q2, P) = Picked(q, P)
  BY <1>1, <1>2, <1>3, PickedSame
<1>6. Picked(q2, P \cup {L + 1}) = Append(Picked(q2, P), q2[L + 1])
  <2> DEFINE x == L + 1
  <2>1. x \in Nat /\ \A i \in P : i < x
    BY <1>1, <1>3
  <2> HIDE DEF x
  <2>2. Picked(q2, P \cup {x}) = Append(Picked(q2, P), q2[x])
    BY <1>1, <1>3, <2>1, PickedGrows
  <2> QED BY <2>2 DEF x
<1> HIDE DEF P2
<1>7. WithId(q2, id) = Picked(q2, P2) /\ WithId(q, id) = Picked(q, P)
  BY DEF WithId, P2, P
<1> QED BY <1>2, <1>4, <1>5, <1>6, <1>7 DEF q2

\* Once it has five parts, the second row of kv.sql keeps them.
LEMMA KvPartsStay ==
  ASSUME kv \in Seq(RowType), NEW row \in RowType, kv' = Append(kv, row), Wanted(KvFile)
  PROVE  Wanted(KvFile)' /\ Parts(KvFile)' = Parts(KvFile)
<1>1. ~(Len(kv) < 2)
  <2>1. SUFFICES ASSUME Len(kv) < 2 PROVE FALSE
    OBVIOUS
  <2>2. Url(KvFile) = <<>>
    BY <2>1 DEF Url
  <2>3. Parts(KvFile) = Split(<<>>, {"/"})
    BY <2>2 DEF Parts
  <2>4. Len(Parts(KvFile)) = 1
    BY <2>3, SplitNothing
  <2>5. Len(Parts(KvFile)) = 5
    BY Zenon DEF Wanted
  <2> QED BY <2>4, <2>5
<1>2. ~(Len(kv') < 2) /\ kv'[2] = kv[2]
  <2> HIDE DEF RowType
  <2>1. Len(kv) \in Nat /\ Len(kv') = Len(kv) + 1 /\ \A i \in 1..Len(kv) : kv'[i] = kv[i]
    BY AppendProperties
  <2>2. 2 \in 1..Len(kv)
    BY <1>1, <2>1
  <2> QED BY <1>1, <2>1, <2>2
<1>3. Url(KvFile)' = Url(KvFile)
  BY <1>1, <1>2 DEF Url
<1>4. Parts(KvFile)' = Parts(KvFile)
  BY <1>3 DEF Parts
<1> QED BY <1>4 DEF Wanted

\* A page that is told from all others has been all along.
LEMMA DistinctBefore ==
  ASSUME kv \in Seq(RowType), dir' = dir,
         kv' = kv \/ \E row \in RowType : kv' = Append(kv, row),
         NEW f, Distinct(f)'
  PROVE  Distinct(f)
<1>1. /\ f \in Read \cap OnlyWholeColons
      /\ Wanted(KvFile)' => EnterpriseId(Parts(KvFile)') # EnterpriseId(PageParts[f])
      /\ \A g \in (dir \cap Read) \ {f} :
           EnterpriseId(PageParts[g]) # EnterpriseId(PageParts[f])
  BY DEF Distinct
<1>2. Wanted(KvFile) => Wanted(KvFile)' /\ Parts(KvFile)' = Parts(KvFile)
  <2>1. CASE kv' = kv
    BY <2>1 DEF Wanted, Parts, Url
  <2>2. CASE \E row \in RowType : kv' = Append(kv, row)
    BY <2>2, KvPartsStay
  <2> QED BY <2>1, <2>2
<1> QED BY <1>1, <1>2 DEF Distinct

-------------------------------------------------------------------------------
(* The invariant.                                                          *)

\* The text that is looked at, counted in its page.
TextAt(f) == Len(PageTexts[f]) - Len(content_vec) + 1
\* The rows of a page this run has written so far, while it is at it.
PageRows(f) == IF phase = "extract" /\ Head(fnames_evc) = f THEN RowsTo(f, TextAt(f))
               ELSE <<>>
\* Whether this run has not done with a page.
Left(f) == IF f \in ToSet(fnames_evc) THEN 1 ELSE 0

OnceEach(q) == \A i, j \in 1..Len(q) : q[i] = q[j] => i = j

AnalyserTyped ==
  /\ phase \in {"stopped", "page", "extract"}
  /\ dir \in Dirs /\ kv \in Seq(RowType)
  /\ started \in 0..MaxRuns
  /\ died \in BOOLEAN /\ stray \in BOOLEAN
FilesAreListed ==
  /\ fnames_evc \in Seq((dir \ Hidden) \cup {KvFile}) /\ OnceEach(fnames_evc)
  /\ phase = "stopped" => fnames_evc = <<>>
TextsAreOfPage ==
  phase = "extract" =>
    /\ fnames_evc # <<>> /\ Wanted(Head(fnames_evc)) /\ str_vec = Parts(Head(fnames_evc))
    /\ content_vec \in Seq(ByteText) /\ content_vec # <<>>
    /\ Head(fnames_evc) # KvFile /\ ~stray =>
         LET f == Head(fnames_evc)
         IN /\ TextAt(f) \in 1..Len(PageTexts[f])
            /\ content_vec = SubSeq(PageTexts[f], TextAt(f), Len(PageTexts[f]))
RowsFit(f) ==
  \E c \in 0..(started - Left(f)) :
    /\ ~died => c = started - Left(f)
    /\ RowsIn(f) = Copies(f, c) \o PageRows(f)
RowsFitAll == ~stray => \A f \in dir : Distinct(f) => RowsFit(f)

AnalyserInv == AnalyserTyped /\ FilesAreListed /\ TextsAreOfPage /\ RowsFitAll

-------------------------------------------------------------------------------

LEMMA SameFit ==
  ASSUME NEW f, RowsFit(f), started' = started, died' = died,
         Left(f)' = Left(f), RowsIn(f)' = RowsIn(f), PageRows(f)' = PageRows(f)
  PROVE  RowsFit(f)'
BY DEF RowsFit

LEMMA SameRows ==
  ASSUME kv' = kv
  PROVE  /\ \A f : RowsIn(f)' = RowsIn(f)
         /\ \A f : Parts(f)' = Parts(f) /\ (Wanted(f)' <=> Wanted(f))
BY DEF RowsIn, Parts, Wanted, Url

\* The list without its first.
LEMMA TailIs ==
  ASSUME NEW T, NEW q \in Seq(T), q # <<>>, OnceEach(q)
  PROVE  /\ Tail(q) \in Seq(T) /\ OnceEach(Tail(q)) /\ Head(q) \in T
         /\ Head(q) \in ToSet(q) /\ ToSet(Tail(q)) = ToSet(q) \ {Head(q)}
<1>1. /\ Head(q) \in T /\ Tail(q) \in Seq(T) /\ Len(Tail(q)) = Len(q) - 1
      /\ Len(q) \in Nat /\ Len(q) # 0 /\ Head(q) = q[1]
      /\ \A i \in 1..Len(Tail(q)) : Tail(q)[i] = q[i + 1]
  BY HeadTailProperties
<1>2. DOMAIN q = 1..Len(q) /\ DOMAIN Tail(q) = 1..(Len(q) - 1)
  BY <1>1, LenProperties
<1>3. OnceEach(Tail(q))
  <2>1. ASSUME NEW i \in 1..Len(Tail(q)), NEW j \in 1..Len(Tail(q)), Tail(q)[i] = Tail(q)[j]
        PROVE  i = j
    <3>1. i + 1 \in 1..Len(q) /\ j + 1 \in 1..Len(q) /\ q[i + 1] = q[j + 1]
      BY <1>1, <2>1
    <3>2. i + 1 = j + 1
      BY <3>1 DEF OnceEach
    <3> QED BY <3>2
  <2> QED BY <2>1 DEF OnceEach
<1>4. Head(q) \in ToSet(q)
  BY <1>1, <1>2 DEF ToSet
<1>5. ToSet(Tail(q)) = ToSet(q) \ {Head(q)}
  <2>1. ASSUME NEW i \in 1..(Len(q) - 1)
        PROVE  Tail(q)[i] \in ToSet(q) /\ Tail(q)[i] # Head(q)
    <3>1. i + 1 \in 1..Len(q) /\ Tail(q)[i] = q[i + 1] /\ i + 1 # 1 /\ 1 \in 1..Len(q)
      BY <1>1
    <3> QED BY <1>1, <1>2, <3>1 DEF OnceEach, ToSet
  <2>2. ASSUME NEW i \in 1..Len(q), q[i] # Head(q)
        PROVE  q[i] \in ToSet(Tail(q))
    <3>1. i - 1 \in 1..(Len(q) - 1) /\ (i - 1) + 1 = i
      BY <1>1, <2>2
    <3>2. Tail(q)[i - 1] = q[i]
      BY <1>1, <3>1
    <3> QED BY <1>2, <3>1, <3>2 DEF ToSet
  <2> QED BY <1>2, <2>1, <2>2 DEF ToSet
<1> QED BY <1>1, <1>3, <1>4, <1>5

\* All of a finite set, each once.
LEMMA SeqOfSet ==
  ASSUME NEW S, IsFiniteSet(S), NEW q \in SetToSeqs(S)
  PROVE  q \in Seq(S) /\ OnceEach(q) /\ ToSet(q) = S
<1> DEFINE n == Cardinality(S)
<1>1. n \in Nat
  BY FS_CardinalityType
<1>2. q \in [1..n -> S] /\ \A i, j \in 1..n : i # j => q[i] # q[j]
  BY DEF SetToSeqs
<1>3. q \in Seq(S) /\ Len(q) = n
  <2> HIDE DEF n
  <2> QED BY <1>1, <1>2
<1>4. OnceEach(q)
  BY <1>2, <1>3 DEF OnceEach
<1>5. ToSet(q) = S
  <2>1. IsFiniteSet(1..n) /\ Cardinality(1..n) = n
    <3> HIDE DEF n
    <3> QED BY <1>1, FS_Interval
  <2>2. ToSet(q) = {q[i] : i \in 1..n}
    BY <1>2 DEF ToSet
  <2>3. ToSet(q) \subseteq S
    BY <1>2, <2>2
  <2>4. Cardinality(ToSet(q)) = n
    <3>1. q \in Bijection(1..n, ToSet(q))
      BY <1>2, <2>2 DEF Bijection, Injection, Surjection, IsInjective
    <3> HIDE DEF n
    <3>2. ExistsBijection(1..n, ToSet(q))
      BY <3>1 DEF ExistsBijection
    <3>3. IsFiniteSet(ToSet(q))
      BY <2>3, FS_Subset
    <3> QED BY <2>1, <3>2, <3>3, FS_Bijection
  <2> QED BY <2>3, <2>4, FS_Subset
<1> QED BY <1>3, <1>4, <1>5

LEMMA DirFiles ==
  ASSUME dir \in Dirs
  PROVE  dir \subseteq Files /\ KvFile \notin dir
BY AnalyserAssumption

\* A copy with nothing behind it.
LEMMA CopiesOnly ==
  ASSUME NEW f \in Files, NEW c \in Nat
  PROVE  Copies(f, c) \o <<>> = Copies(f, c)
BY CopiesNext, ConcatEmptySeq

LEMMA AnalyserInitInv == AnalyserInit => AnalyserInv
<1> SUFFICES ASSUME AnalyserInit PROVE AnalyserInv
  OBVIOUS
<1>1. /\ phase = "stopped" /\ dir \in Dirs /\ kv = <<>> /\ fnames_evc = <<>>
      /\ started = 0 /\ died = FALSE /\ stray = FALSE
  BY DEF AnalyserInit
<1>2. AnalyserTyped
  <2>1. \A T : kv \in Seq(T)
    BY <1>1
  <2>2. started \in 0..MaxRuns
    BY <1>1, AnalyserAssumption
  <2> HIDE DEF RowType
  <2> QED BY <1>1, <2>1, <2>2 DEF AnalyserTyped
<1>3. FilesAreListed
  <2>1. \A T : fnames_evc \in Seq(T)
    BY <1>1
  <2>2. Len(fnames_evc) = 0
    BY <1>1
  <2>3. OnceEach(fnames_evc)
    BY <2>2 DEF OnceEach
  <2> QED BY <1>1, <2>1, <2>3 DEF FilesAreListed
<1>4. TextsAreOfPage
  BY <1>1 DEF TextsAreOfPage
<1>5. RowsFitAll
  <2> SUFFICES ASSUME NEW f \in dir PROVE RowsFit(f)
    BY DEF RowsFitAll
  <2>1. f \in Files
    BY <1>1, DirFiles
  <2>2. ToSet(fnames_evc) = {}
    BY <1>1 DEF ToSet
  <2>3. Left(f) = 0 /\ PageRows(f) = <<>>
    BY <1>1, <2>2 DEF Left, PageRows
  <2>4. RowsIn(f) = <<>>
    <3>1. {i \in DOMAIN kv : kv[i].id = EnterpriseId(PageParts[f])} = {}
      BY <1>1
    <3> QED BY <3>1, PickedNone DEF RowsIn
  <2>5. Copies(f, 0) \o <<>> = <<>>
    BY <2>1, CopiesOnly, CopiesNext
  <2>6. 0 \in 0..(started - Left(f)) /\ 0 = started - Left(f)
    BY <1>1, <2>3
  <2> QED BY <2>3, <2>4, <2>5, <2>6 DEF RowsFit
<1> QED BY <1>2, <1>3, <1>4, <1>5 DEF AnalyserInv

LEMMA StartKeeps ==
  ASSUME AnalyserInv, Start
  PROVE  AnalyserInv'
<1>1. /\ phase = "stopped" /\ started < MaxRuns /\ started' = started + 1
      /\ fnames_evc' \in SetToSeqs(Listed) /\ phase' = "page"
      /\ dir' = dir /\ kv' = kv /\ died' = died /\ stray' = stray
  BY DEF Start
<1>2. /\ AnalyserTyped /\ dir \in Dirs /\ dir \subseteq Files
      /\ started \in Nat /\ MaxRuns \in Nat
  BY AnalyserAssumption, DirFiles DEF AnalyserInv, AnalyserTyped
<1>3. /\ fnames_evc' \in Seq(Listed) /\ OnceEach(fnames_evc')
      /\ ToSet(fnames_evc') = Listed
  <2>1. IsFiniteSet(Listed)
    <3>1. IsFiniteSet(dir \ Hidden)
      BY <1>2, AnalyserAssumption, FS_Subset
    <3>2. IsFiniteSet({}) /\ IsFiniteSet({KvFile})
      BY FS_EmptySet, FS_Singleton
    <3> QED BY <3>1, <3>2, FS_Union DEF Listed
  <2> QED BY <1>1, <2>1, SeqOfSet
<1>4. AnalyserTyped'
  BY <1>1, <1>2 DEF AnalyserTyped
<1>5. FilesAreListed'
  <2>1. Listed \subseteq (dir \ Hidden) \cup {KvFile}
    BY DEF Listed
  <2>2. fnames_evc' \in Seq((dir \ Hidden) \cup {KvFile})
    BY <1>3, <2>1, SeqGrows
  <2>3. OnceEach(fnames_evc)'
    BY <1>3 DEF OnceEach
  <2> QED BY <1>1, <2>2, <2>3 DEF FilesAreListed
<1>6. TextsAreOfPage'
  BY <1>1 DEF TextsAreOfPage
<1>7. RowsFitAll'
  <2> SUFFICES ASSUME ~stray, NEW f \in dir, Distinct(f)' PROVE RowsFit(f)'
    BY <1>1 DEF RowsFitAll
  <2>1. Distinct(f)
    BY <1>1, <1>2, DistinctBefore DEF AnalyserTyped
  <2>2. PICK c \in 0..(started - Left(f)) :
          (~died => c = started - Left(f)) /\ RowsIn(f) = Copies(f, c) \o PageRows(f)
    BY <2>1 DEF AnalyserInv, RowsFitAll, RowsFit
  <2>3. Left(f) = 0
    <3>1. fnames_evc = <<>>
      BY <1>1 DEF AnalyserInv, FilesAreListed
    <3> QED BY <3>1 DEF Left, ToSet
  <2>4. Left(f)' = 1
    <3>1. f \in Read
      BY <2>1 DEF Distinct
    <3>2. f \in Listed
      BY <3>1 DEF Read, Listed
    <3> QED BY <1>3, <3>2 DEF Left
  <2>5. PageRows(f) = <<>> /\ PageRows(f)' = <<>>
    BY <1>1 DEF PageRows
  <2>6. RowsIn(f)' = RowsIn(f)
    BY <1>1, SameRows
  <2>7. c \in 0..(started' - Left(f)') /\ (~died' => c = started' - Left(f)')
    BY <1>1, <1>2, <2>2, <2>3, <2>4
  <2>8. RowsIn(f)' = Copies(f, c) \o PageRows(f)'
    BY <2>2, <2>5, <2>6
  <2> QED BY <2>7, <2>8 DEF RowsFit
<1> QED BY <1>4, <1>5, <1>6, <1>7 DEF AnalyserInv

LEMMA EndKeeps ==
  ASSUME AnalyserInv, End
  PROVE  AnalyserInv'
<1>1. /\ phase = "page" /\ fnames_evc = <<>> /\ phase' = "stopped"
      /\ dir' = dir /\ kv' = kv /\ fnames_evc' = fnames_evc
      /\ started' = started /\ died' = died /\ stray' = stray
  BY DEF End
<1>2. AnalyserTyped /\ FilesAreListed /\ RowsFitAll
  BY DEF AnalyserInv
<1>3. AnalyserTyped'
  BY <1>1, <1>2 DEF AnalyserTyped
<1>4. FilesAreListed'
  BY <1>1, <1>2 DEF FilesAreListed, OnceEach
<1>5. TextsAreOfPage'
  BY <1>1 DEF TextsAreOfPage
<1>6. RowsFitAll'
  <2> SUFFICES ASSUME ~stray, NEW f \in dir, Distinct(f)' PROVE RowsFit(f)'
    BY <1>1 DEF RowsFitAll
  <2>1. RowsFit(f)
    BY <1>1, <1>2, DistinctBefore DEF AnalyserTyped, RowsFitAll
  <2>2. Left(f)' = Left(f)
    BY <1>1 DEF Left
  <2>3. PageRows(f)' = PageRows(f)
    BY <1>1 DEF PageRows
  <2> QED BY <1>1, <2>1, <2>2, <2>3, SameFit, SameRows
<1> QED BY <1>3, <1>4, <1>5, <1>6 DEF AnalyserInv

\* What the list is without its first.
LEMMA ListGoesOn ==
  ASSUME FilesAreListed, fnames_evc # <<>>, fnames_evc' = Tail(fnames_evc), dir' = dir,
         phase' # "stopped"
  PROVE  /\ FilesAreListed' /\ Head(fnames_evc) \in (dir \ Hidden) \cup {KvFile}
         /\ \A f : IF f = Head(fnames_evc) THEN Left(f) = 1 /\ Left(f)' = 0
                   ELSE Left(f)' = Left(f)
<1> DEFINE T == (dir \ Hidden) \cup {KvFile}
           h == Head(fnames_evc)
<1>1. fnames_evc \in Seq(T) /\ OnceEach(fnames_evc)
  BY DEF FilesAreListed
<1>2. /\ fnames_evc' \in Seq(T) /\ OnceEach(fnames_evc') /\ h \in T
      /\ h \in ToSet(fnames_evc) /\ ToSet(fnames_evc') = ToSet(fnames_evc) \ {h}
  <2> HIDE DEF T
  <2> QED BY <1>1, TailIs
<1>3. OnceEach(fnames_evc)'
  BY <1>2 DEF OnceEach
<1>4. FilesAreListed'
  BY <1>2, <1>3 DEF FilesAreListed
<1>5. ASSUME NEW f
      PROVE  IF f = h THEN Left(f) = 1 /\ Left(f)' = 0 ELSE Left(f)' = Left(f)
  <2>1. /\ Left(f) = IF f \in ToSet(fnames_evc) THEN 1 ELSE 0
        /\ Left(f)' = IF f \in ToSet(fnames_evc') THEN 1 ELSE 0
    BY DEF Left
  <2> HIDE DEF h
  <2> QED BY <1>2, <2>1
<1> QED BY <1>2, <1>4, <1>5

LEMMA SkipPageKeeps ==
  ASSUME AnalyserInv, SkipPage
  PROVE  AnalyserInv'
<1>1. /\ phase = "page" /\ fnames_evc # <<>> /\ ~Wanted(Head(fnames_evc))
      /\ fnames_evc' = Tail(fnames_evc)
      /\ phase' = phase /\ dir' = dir /\ kv' = kv
      /\ started' = started /\ died' = died /\ stray' = stray
  BY DEF SkipPage
<1>2. AnalyserTyped /\ FilesAreListed /\ RowsFitAll
  BY DEF AnalyserInv
<1>3. AnalyserTyped'
  BY <1>1, <1>2 DEF AnalyserTyped
<1>4. FilesAreListed'
  BY <1>1, <1>2, ListGoesOn
<1>5. TextsAreOfPage'
  BY <1>1 DEF TextsAreOfPage
<1>6. RowsFitAll'
  <2> SUFFICES ASSUME ~stray, NEW f \in dir, Distinct(f)' PROVE RowsFit(f)'
    BY <1>1 DEF RowsFitAll
  <2>1. Distinct(f) /\ RowsFit(f)
    BY <1>1, <1>2, DistinctBefore DEF AnalyserTyped, RowsFitAll
  <2>2. f # Head(fnames_evc)
    <3>1. f \in Read
      BY <2>1 DEF Distinct
    <3>2. Parts(f) = PageParts[f]
      BY <1>2, <3>1, PartsType DEF AnalyserTyped, Read
    <3> QED BY <1>1, <3>1, <3>2 DEF Wanted, Read
  <2>3. Left(f)' = Left(f)
    BY <1>1, <1>2, <2>2, ListGoesOn
  <2>4. PageRows(f)' = PageRows(f)
    BY <1>1 DEF PageRows
  <2> QED BY <1>1, <2>1, <2>3, <2>4, SameFit, SameRows
<1> QED BY <1>3, <1>4, <1>5, <1>6 DEF AnalyserInv

\* The texts of a page that is opened.
LEMMA OpenedTexts ==
  ASSUME kv \in Seq(RowType), NEW f \in Files \cup {KvFile}, NEW tail \in Tails,
         NEW all, all = Body(f) \o tail, NEW tag, tag = FirstOf(all, {"<"}), ~(tag < 2),
         NEW texts, texts = ExtractStrFromHtmltag(SubSeq(all, tag - 1, Len(all)))
  PROVE  /\ texts \in Seq(ByteText)
         /\ f \in Files /\ FirstOf(tail, {"<"}) = 0 => texts = PageTexts[f]
<1>1. Body(f) \in ByteText /\ tail \in ByteText
  <2>1. tail \in Seq(STRING)
    BY AnalyserAssumption
  <2>2. STRING \subseteq Bytes
    BY DEF Bytes
  <2> HIDE DEF Bytes
  <2>3. tail \in Seq(Bytes)
    BY <2>1, <2>2, SeqGrows
  <2> QED BY <2>3, PartsType DEF ByteText
<1>2. all \in ByteText
  BY <1>1, ConcatText
<1>3. tag \in Nat /\ tag >= 2 /\ tag <= Len(all) /\ Len(all) \in Nat
  <2>1. all \in Seq(Bytes)
    BY <1>2 DEF ByteText
  <2> HIDE DEF Bytes
  <2>2. FirstOf(all, {"<"}) \in 0..Len(all)
    BY <2>1, FirstOfType
  <2>3. Len(all) \in Nat
    BY <2>1, LenProperties
  <2> QED BY <2>2, <2>3
<1>4. SubSeq(all, tag - 1, Len(all)) \in ByteText
  <2>1. \A i \in (tag - 1)..Len(all) : i \in 1..Len(all)
    BY <1>3
  <2> HIDE DEF Bytes
  <2>2. \A i \in (tag - 1)..Len(all) : all[i] \in Bytes
    BY <1>2, <2>1, ElementOfSeq DEF ByteText
  <2>3. tag - 1 \in Int /\ Len(all) \in Int
    BY <1>3
  <2> QED BY <2>2, <2>3, SubSeqProperties DEF ByteText
<1>5. texts \in Seq(ByteText)
  <2> HIDE DEF Bytes
  <2> QED BY <1>4, TextsType DEF ByteText
<1>6. ASSUME f \in Files, FirstOf(tail, {"<"}) = 0 PROVE texts = PageTexts[f]
  <2>1. Body(f) = Page[f].body
    BY <1>6, PartsType
  <2> DEFINE d == tag - 2
             body == Page[f].body
  <2>2. d \in Nat /\ tag = d + 2 /\ tag - 1 = d + 1
    BY <1>3
  <2> HIDE DEF Bytes, d
  <2>3. FirstOf(body \o tail, {"<"}) = d + 2 /\ body \in Seq(Bytes) /\ tail \in Seq(Bytes)
    BY <1>1, <2>1, <2>2 DEF ByteText
  <2>4. ExtractStrFromHtmltag(SubSeq(body \o tail, d + 1, Len(body \o tail)))
          = TextsBetweenTags(body)
    <3> HIDE DEF body
    <3> QED BY <1>6, <2>2, <2>3, TextsAreFound
  <2>5. PageTexts[f] = TextsBetweenTags(body)
    BY <1>6 DEF PageTexts
  <2> QED BY <2>1, <2>2, <2>4, <2>5
<1> QED BY <1>5, <1>6

LEMMA OpenPageKeeps ==
  ASSUME AnalyserInv, OpenPage
  PROVE  AnalyserInv'
<1>0. PICK f : f = Head(fnames_evc)
  OBVIOUS
<1>1. phase = "page" /\ fnames_evc # <<>> /\ Wanted(f)
  BY <1>0 DEF OpenPage
<1>2. AnalyserTyped /\ FilesAreListed /\ RowsFitAll /\ started \in Nat
  BY AnalyserAssumption DEF AnalyserInv, AnalyserTyped
<1>3. f \in (dir \ Hidden) \cup {KvFile} /\ dir \subseteq Files
  <2> DEFINE T == (dir \ Hidden) \cup {KvFile}
  <2>1. fnames_evc \in Seq(T)
    BY <1>2 DEF FilesAreListed
  <2> HIDE DEF T
  <2>2. Head(fnames_evc) \in T
    BY <1>1, <2>1, HeadTailProperties
  <2> QED BY <1>0, <1>2, <2>2, DirFiles DEF T, AnalyserTyped
<1>4. PICK tail \in Tails : ReadPage(f, tail)
  BY <1>0 DEF OpenPage
<1> DEFINE all == Body(f) \o tail
           tag == FirstOf(all, {"<"})
           texts == ExtractStrFromHtmltag(SubSeq(all, tag - 1, Len(all)))
<1>5. /\ stray' = (stray \/ FirstOf(tail, {"<"}) # 0)
      /\ IF tag < 2 \/ texts = <<>> THEN Dies
         ELSE /\ str_vec' = Parts(f) /\ content_vec' = texts /\ phase' = "extract"
              /\ UNCHANGED <<dir, kv, fnames_evc, started, died>>
  BY <1>4 DEF ReadPage
<1>6. stray' \in BOOLEAN /\ (~stray' => ~stray /\ FirstOf(tail, {"<"}) = 0)
  BY <1>2, <1>5 DEF AnalyserTyped
<1>7. CASE tag < 2 \/ texts = <<>>
  <2> HIDE DEF tag, texts
  <2>1. /\ phase' = "stopped" /\ died' = TRUE /\ fnames_evc' = <<>>
        /\ dir' = dir /\ kv' = kv /\ started' = started
    BY <1>5, <1>7 DEF Dies
  <2>2. AnalyserTyped'
    BY <1>2, <1>6, <2>1 DEF AnalyserTyped
  <2>3. FilesAreListed'
    <3>1. \A T : fnames_evc' \in Seq(T)
      BY <2>1
    <3>2. Len(fnames_evc') = 0
      BY <2>1
    <3>3. OnceEach(fnames_evc)'
      BY <3>2 DEF OnceEach
    <3> QED BY <2>1, <3>1, <3>3 DEF FilesAreListed
  <2>4. TextsAreOfPage'
    BY <2>1 DEF TextsAreOfPage
  <2>5. RowsFitAll'
    <3> SUFFICES ASSUME ~stray', NEW g \in dir, Distinct(g)' PROVE RowsFit(g)'
      BY <2>1 DEF RowsFitAll
    <3>1. RowsFit(g)
      BY <1>2, <1>6, <2>1, DistinctBefore DEF AnalyserTyped, RowsFitAll
    <3>2. PICK c \in 0..(started - Left(g)) :
            (~died => c = started - Left(g)) /\ RowsIn(g) = Copies(g, c) \o PageRows(g)
      BY <3>1 DEF RowsFit
    <3>3. Left(g) \in {0, 1} /\ Left(g)' = 0
      BY <2>1 DEF Left, ToSet
    <3>4. PageRows(g) = <<>> /\ PageRows(g)' = <<>>
      BY <1>1, <2>1 DEF PageRows
    <3>5. c \in 0..(started' - Left(g)')
      BY <1>2, <2>1, <3>2, <3>3
    <3>6. RowsIn(g)' = RowsIn(g)
      BY <2>1, SameRows
    <3>7. RowsIn(g)' = Copies(g, c) \o PageRows(g)'
      BY <3>2, <3>4, <3>6
    <3> QED BY <2>1, <3>5, <3>7 DEF RowsFit
  <2> QED BY <2>2, <2>3, <2>4, <2>5 DEF AnalyserInv
<1>8. CASE ~(tag < 2 \/ texts = <<>>)
  <2>1. texts \in Seq(ByteText) /\ (f \in Files /\ FirstOf(tail, {"<"}) = 0 => texts = PageTexts[f])
    BY <1>2, <1>3, <1>8, OpenedTexts, ZenonT(60) DEF AnalyserTyped
  <2> HIDE DEF tag, texts
  <2>2. /\ str_vec' = Parts(f) /\ content_vec' = texts /\ phase' = "extract"
        /\ dir' = dir /\ kv' = kv /\ fnames_evc' = fnames_evc
        /\ started' = started /\ died' = died
    BY <1>5, <1>8
  <2>3. AnalyserTyped'
    BY <1>2, <1>6, <2>2 DEF AnalyserTyped
  <2>4. FilesAreListed'
    BY <1>1, <1>2, <2>2 DEF FilesAreListed, OnceEach
  <2>5. Head(fnames_evc') = f
    BY <1>0, <2>2
  <2>6. ASSUME f # KvFile, ~stray'
        PROVE  /\ TextAt(f)' = 1 /\ 1 \in 1..Len(PageTexts[f])
               /\ content_vec' = SubSeq(PageTexts[f], 1, Len(PageTexts[f]))
    <3>1. f \in Files
      BY <1>3, <2>6
    <3>2. content_vec' = PageTexts[f] /\ PageTexts[f] # <<>>
      BY <1>6, <1>8, <2>1, <2>2, <2>6, <3>1
    <3> HIDE DEF ByteText
    <3>3. /\ PageTexts[f] \in Seq(ByteText) /\ Len(PageTexts[f]) \in Nat
          /\ Len(PageTexts[f]) # 0
      BY <3>1, <3>2, PageTextsAre, LenTexts, EmptySeq
    <3>4. TextAt(f)' = Len(PageTexts[f]) - Len(content_vec') + 1
      BY DEF TextAt
    <3>5. SubSeq(PageTexts[f], 1, Len(PageTexts[f])) = PageTexts[f]
      BY <3>3, SubSeqFull
    <3> QED BY <3>2, <3>3, <3>4, <3>5
  <2>7. TextsAreOfPage'
    <3>1. Wanted(f)' /\ Parts(f)' = Parts(f)
      <4>1. \A g : Parts(g)' = Parts(g) /\ (Wanted(g)' <=> Wanted(g))
        BY <2>2, SameRows
      <4> QED BY <1>1, <4>1
    <3>3. fnames_evc' # <<>> /\ content_vec' \in Seq(ByteText) /\ content_vec' # <<>>
      BY <1>1, <1>8, <2>1, <2>2
    <3>4. Wanted(Head(fnames_evc))' /\ str_vec' = Parts(Head(fnames_evc))'
      <4>1. \A g : g = f => (Wanted(g)' <=> Wanted(f)') /\ Parts(g)' = Parts(f)'
        OBVIOUS
      <4> QED BY <2>2, <2>5, <3>1, <4>1 DEF Wanted, Parts, Url
    <3>5. Head(fnames_evc)' # KvFile /\ ~stray' =>
            /\ TextAt(Head(fnames_evc))' \in 1..Len(PageTexts[Head(fnames_evc)'])
            /\ content_vec' = SubSeq(PageTexts[Head(fnames_evc)'], TextAt(Head(fnames_evc))',
                                     Len(PageTexts[Head(fnames_evc)']))
      BY <2>5, <2>6 DEF TextAt
    <3> QED BY <3>3, <3>4, <3>5 DEF TextsAreOfPage
  <2>8. RowsFitAll'
    <3> SUFFICES ASSUME ~stray', NEW g \in dir, Distinct(g)' PROVE RowsFit(g)'
      BY <2>2 DEF RowsFitAll
    <3>1. RowsFit(g)
      BY <1>2, <1>6, <2>2, DistinctBefore DEF AnalyserTyped, RowsFitAll
    <3>2. Left(g)' = Left(g)
      BY <2>2 DEF Left
    <3>3. PageRows(g)' = PageRows(g)
      <4>1. PageRows(g) = <<>>
        BY <1>1 DEF PageRows
      <4>2. CASE g # f
        BY <2>5, <4>1, <4>2 DEF PageRows
      <4>3. CASE g = f
        <5>1. g \in Files /\ g # KvFile
          BY <1>2, DirFiles DEF AnalyserTyped
        <5>2. TextAt(g)' = 1
          BY <2>6, <4>3, <5>1 DEF TextAt
        <5>3. PageRows(g)' = RowsTo(g, TextAt(g)')
          BY <2>2, <2>5, <4>3 DEF PageRows, TextAt
        <5> QED BY <4>1, <5>1, <5>2, <5>3, RowsToEnds
      <4> QED BY <4>2, <4>3
    <3> QED BY <2>2, <3>1, <3>2, <3>3, SameFit, SameRows
  <2> QED BY <2>3, <2>4, <2>7, <2>8 DEF AnalyserInv
<1> QED BY <1>7, <1>8

\* The page that is read, its texts and the text that is looked at.
LEMMA PresentText ==
  ASSUME AnalyserInv, phase = "extract"
  PROVE  \E f \in (dir \ Hidden) \cup {KvFile} :
           /\ f = Head(fnames_evc) /\ fnames_evc # <<>> /\ Wanted(f)
           /\ str_vec = Parts(f) /\ Len(str_vec) = 5 /\ str_vec \in Seq(ByteText)
           /\ content_vec \in Seq(ByteText) /\ content_vec # <<>> /\ Len(content_vec) \in Nat
           /\ f # KvFile => /\ f \in Files /\ str_vec = PageParts[f]
                            /\ Len(PageTexts[f]) \in Nat
           /\ f # KvFile /\ ~stray =>
                /\ TextAt(f) \in 1..Len(PageTexts[f])
                /\ content_vec = SubSeq(PageTexts[f], TextAt(f), Len(PageTexts[f]))
                /\ content_vec[1] = PageTexts[f][TextAt(f)]
                /\ Tail(content_vec) = SubSeq(PageTexts[f], TextAt(f) + 1, Len(PageTexts[f]))
                /\ Len(content_vec) > 1 =>
                     /\ TextAt(f) \in 1..(Len(PageTexts[f]) - 1)
                     /\ content_vec[2] = PageTexts[f][TextAt(f) + 1]
                /\ Len(content_vec) <= 1 => TextAt(f) = Len(PageTexts[f])
<1>0. PICK f : f = Head(fnames_evc)
  OBVIOUS
<1>1. /\ AnalyserTyped /\ FilesAreListed /\ TextsAreOfPage
      /\ kv \in Seq(RowType) /\ dir \in Dirs /\ dir \subseteq Files
  BY DirFiles DEF AnalyserInv, AnalyserTyped
<1>2. /\ fnames_evc # <<>> /\ Wanted(f) /\ str_vec = Parts(f)
      /\ content_vec \in Seq(ByteText) /\ content_vec # <<>>
      /\ f # KvFile /\ ~stray =>
           /\ TextAt(f) \in 1..Len(PageTexts[f])
           /\ content_vec = SubSeq(PageTexts[f], TextAt(f), Len(PageTexts[f]))
  BY <1>0, <1>1 DEF TextsAreOfPage
<1>3. f \in (dir \ Hidden) \cup {KvFile}
  <2> DEFINE T == (dir \ Hidden) \cup {KvFile}
  <2>1. fnames_evc \in Seq(T)
    BY <1>1 DEF FilesAreListed
  <2> HIDE DEF T
  <2>2. Head(fnames_evc) \in T
    BY <1>2, <2>1, HeadTailProperties
  <2> QED BY <1>0, <2>2 DEF T
<1>4. Len(str_vec) = 5
  BY <1>2 DEF Wanted
<1>5. /\ str_vec \in Seq(ByteText)
      /\ f # KvFile => f \in Files /\ str_vec = PageParts[f]
  BY <1>1, <1>2, <1>3, PartsType
<1>6. Len(content_vec) \in Nat /\ Len(content_vec) # 0
  BY <1>2, EmptySeq
<1>7. f # KvFile => Len(PageTexts[f]) \in Nat
  BY <1>5, LenTexts
<1>8. ASSUME f # KvFile, ~stray
      PROVE  /\ content_vec[1] = PageTexts[f][TextAt(f)]
             /\ Tail(content_vec) = SubSeq(PageTexts[f], TextAt(f) + 1, Len(PageTexts[f]))
             /\ Len(content_vec) > 1 =>
                  /\ TextAt(f) \in 1..(Len(PageTexts[f]) - 1)
                  /\ content_vec[2] = PageTexts[f][TextAt(f) + 1]
             /\ Len(content_vec) <= 1 => TextAt(f) = Len(PageTexts[f])
  <2> DEFINE n == TextAt(f)
             L == Len(PageTexts[f])
             P == PageTexts[f]
  <2>1. /\ P \in Seq(ByteText) /\ L \in Nat /\ n \in 1..L /\ L \in n..L /\ n \in Nat
        /\ content_vec = SubSeq(P, n, L)
    BY <1>2, <1>5, <1>8, PageTextsAre, LenTexts
  <2>2. n = L - Len(content_vec) + 1
    BY DEF TextAt
  <2>3. L = Len(P)
    OBVIOUS
  <2> HIDE DEF n, L, P, ByteText
  <2>4. Head(content_vec) = P[n] /\ Tail(content_vec) = SubSeq(P, n + 1, L)
    BY <2>1, <2>3, HeadTailOfSubSeq
  <2>5. \A i \in 1..(L - n + 1) : content_vec[i] = P[n + i - 1]
    <3>1. \A i \in n..L : P[i] \in ByteText
      BY <2>1, <2>3, ElementOfSeq
    <3> QED BY <2>1, <3>1, SubSeqProperties
  <2>6. Len(content_vec) > 1 => n \in 1..(L - 1) /\ 2 \in 1..(L - n + 1) /\ n + 2 - 1 = n + 1
    BY <1>6, <2>1, <2>2
  <2>7. 1 \in 1..(L - n + 1) /\ n + 1 - 1 = n
    BY <2>1
  <2>8. content_vec[1] = P[n] /\ (Len(content_vec) > 1 => content_vec[2] = P[n + 1])
    BY <2>5, <2>6, <2>7
  <2>9. Len(content_vec) <= 1 => n = L
    BY <1>6, <2>1, <2>2
  <2> QED BY <2>4, <2>6, <2>8, <2>9 DEF n, L, P
<1> QED BY <1>0, <1>2, <1>3, <1>4, <1>5, <1>6, <1>7, <1>8

\* A step from one text to the next of the same page.
LEMMA NextText ==
  ASSUME AnalyserInv, phase = "extract", Len(content_vec) > 1,
         content_vec' = Tail(content_vec), phase' = phase, dir' = dir,
         fnames_evc' = fnames_evc, str_vec' = str_vec, stray' = stray,
         kv' = kv \/ \E row \in RowType : kv' = Append(kv, row)
  PROVE  /\ FilesAreListed' /\ TextsAreOfPage'
         /\ \A f \in Files : TextAt(f)' = TextAt(f) + 1
<1>1. PICK f \in (dir \ Hidden) \cup {KvFile} :
           /\ f = Head(fnames_evc) /\ fnames_evc # <<>> /\ Wanted(f)
           /\ str_vec = Parts(f) /\ Len(str_vec) = 5
           /\ content_vec \in Seq(ByteText) /\ content_vec # <<>> /\ Len(content_vec) \in Nat
           /\ f # KvFile => f \in Files /\ Len(PageTexts[f]) \in Nat
           /\ f # KvFile /\ ~stray =>
                /\ TextAt(f) \in 1..(Len(PageTexts[f]) - 1)
                /\ Tail(content_vec) = SubSeq(PageTexts[f], TextAt(f) + 1, Len(PageTexts[f]))
  BY PresentText
<1>2. kv \in Seq(RowType)
  BY DEF AnalyserInv, AnalyserTyped
<1>3. FilesAreListed'
  BY DEF AnalyserInv, FilesAreListed, OnceEach
<1>4. /\ content_vec' \in Seq(ByteText) /\ content_vec' # <<>>
      /\ Len(content_vec') = Len(content_vec) - 1
  <2> HIDE DEF ByteText
  <2>1. content_vec' \in Seq(ByteText) /\ Len(content_vec') = Len(content_vec) - 1
    BY <1>1, HeadTailProperties
  <2>2. ASSUME content_vec' = <<>> PROVE FALSE
    <3>1. Len(content_vec') = 0
      BY <2>2
    <3>2. Len(content_vec) - 1 = 0 /\ Len(content_vec) \in Nat
      BY <1>1, <2>1, <3>1
    <3>3. \A l \in Nat : l > 1 => l - 1 # 0
      OBVIOUS
    <3> QED BY <3>2, <3>3
  <2> QED BY <2>1, <2>2
<1>5. ASSUME NEW g PROVE TextAt(g)' = Len(PageTexts[g]) - Len(content_vec') + 1
  BY DEF TextAt
<1>6. ASSUME NEW g, Len(PageTexts[g]) \in Nat PROVE TextAt(g)' = TextAt(g) + 1
  BY <1>1, <1>4, <1>5, <1>6 DEF TextAt
<1>7. Wanted(f)' /\ Parts(f)' = Parts(f)
  <2>1. CASE f = KvFile
    <3>1. CASE kv' = kv
      BY <1>1, <3>1, SameRows
    <3>2. CASE \E row \in RowType : kv' = Append(kv, row)
      <4>1. Wanted(KvFile)' /\ Parts(KvFile)' = Parts(KvFile)
        BY <1>1, <1>2, <2>1, <3>2, KvPartsStay
      <4> QED BY <2>1, <4>1 DEF Wanted, Parts, Url
    <3> QED BY <3>1, <3>2
  <2>2. CASE f # KvFile
    BY <1>1, <2>2 DEF Wanted, Parts, Url
  <2> QED BY <2>1, <2>2
<1>8. Wanted(Head(fnames_evc))' /\ str_vec' = Parts(Head(fnames_evc))'
  <2>1. Head(fnames_evc') = f
    BY <1>1
  <2> QED BY <1>1, <1>7, <2>1 DEF Wanted, Parts, Url
<1>9. ASSUME f # KvFile, ~stray
      PROVE  /\ TextAt(f)' \in 1..Len(PageTexts[f])
             /\ content_vec' = SubSeq(PageTexts[f], TextAt(f)', Len(PageTexts[f]))
  <2>1. TextAt(f)' = TextAt(f) + 1
    BY <1>1, <1>6, <1>9
  <2>2. TextAt(f) + 1 \in 1..Len(PageTexts[f])
    BY <1>1, <1>9
  <2> QED BY <1>1, <1>9, <2>1, <2>2
<1>10. TextsAreOfPage'
  <2>1. Head(fnames_evc') = f
    BY <1>1
  <2>2. Head(fnames_evc)' # KvFile /\ ~stray' =>
            /\ TextAt(Head(fnames_evc))' \in 1..Len(PageTexts[Head(fnames_evc)'])
            /\ content_vec' = SubSeq(PageTexts[Head(fnames_evc)'], TextAt(Head(fnames_evc))',
                                     Len(PageTexts[Head(fnames_evc)']))
    BY <1>9, <2>1 DEF TextAt
  <2>3. fnames_evc' # <<>>
    BY <1>1
  <2> QED BY <1>4, <1>8, <2>2, <2>3 DEF TextsAreOfPage
<1> QED BY <1>3, <1>6, <1>10, LenTexts

LEMMA SkipTextKeeps ==
  ASSUME AnalyserInv, SkipText
  PROVE  AnalyserInv'
<1>1. /\ phase = "extract" /\ Len(content_vec) > 1 /\ ~Has(Head(content_vec), Colon)
      /\ content_vec' = Tail(content_vec)
      /\ phase' = phase /\ dir' = dir /\ kv' = kv /\ fnames_evc' = fnames_evc
      /\ str_vec' = str_vec /\ started' = started /\ died' = died /\ stray' = stray
  BY DEF SkipText
<1>2. AnalyserTyped /\ RowsFitAll /\ dir \subseteq Files
  BY DirFiles DEF AnalyserInv, AnalyserTyped
<1>3. AnalyserTyped'
  BY <1>1, <1>2 DEF AnalyserTyped
<1>4. FilesAreListed' /\ TextsAreOfPage' /\ \A g \in Files : TextAt(g)' = TextAt(g) + 1
  BY <1>1, NextText
<1>5. RowsFitAll'
  <2> SUFFICES ASSUME ~stray, NEW g \in dir, Distinct(g)' PROVE RowsFit(g)'
    BY <1>1 DEF RowsFitAll
  <2>1. RowsFit(g)
    BY <1>1, <1>2, DistinctBefore DEF AnalyserTyped, RowsFitAll
  <2>2. Left(g)' = Left(g)
    BY <1>1 DEF Left
  <2>3. PageRows(g)' = PageRows(g)
    <3>1. CASE g # Head(fnames_evc)
      BY <1>1, <3>1 DEF PageRows
    <3>2. CASE g = Head(fnames_evc)
      <4>1. g \in Files /\ g # KvFile
        BY <1>2, DirFiles DEF AnalyserTyped
      <4>2. /\ TextAt(g) \in 1..(Len(PageTexts[g]) - 1)
            /\ Head(content_vec) = PageTexts[g][TextAt(g)]
            /\ Head(content_vec) \in ByteText
        <5> HIDE DEF ByteText
        <5>1. /\ content_vec \in Seq(ByteText) /\ content_vec # <<>>
              /\ TextAt(g) \in 1..(Len(PageTexts[g]) - 1)
              /\ content_vec[1] = PageTexts[g][TextAt(g)]
          BY <1>1, <3>2, <4>1, PresentText
        <5>2. Head(content_vec) \in ByteText /\ Head(content_vec) = content_vec[1]
          BY <5>1, HeadTailProperties
        <5> QED BY <5>1, <5>2
      <4>3. Marks(PageTexts[g][TextAt(g)]) = {}
        <5> HIDE DEF Bytes
        <5> QED BY <1>1, <4>2, HasIs DEF ByteText
      <4>4. RowsTo(g, TextAt(g) + 1) = RowsTo(g, TextAt(g))
        BY <4>1, <4>2, <4>3, RowsToNext
      <4>5. PageRows(g) = RowsTo(g, TextAt(g)) /\ PageRows(g)' = RowsTo(g, TextAt(g)')
        BY <1>1, <3>2 DEF PageRows, TextAt
      <4> QED BY <1>4, <4>1, <4>4, <4>5
    <3> QED BY <3>1, <3>2
  <2> QED BY <1>1, <2>1, <2>2, <2>3, SameFit, SameRows
<1> QED BY <1>3, <1>4, <1>5 DEF AnalyserInv

LEMMA WriteRowKeeps ==
  ASSUME AnalyserInv, WriteRow
  PROVE  AnalyserInv'
<1> DEFINE row == Row(str_vec, ExtractKv(content_vec[1], content_vec[2]))
<1>1. /\ phase = "extract" /\ Len(content_vec) > 1 /\ Has(Head(content_vec), Colon)
      /\ kv' = Append(kv, row)
      /\ content_vec' = Tail(content_vec)
      /\ phase' = phase /\ dir' = dir /\ fnames_evc' = fnames_evc
      /\ str_vec' = str_vec /\ started' = started /\ died' = died /\ stray' = stray
  BY DEF WriteRow
<1>2. /\ AnalyserTyped /\ RowsFitAll /\ dir \subseteq Files /\ KvFile \notin dir
      /\ kv \in Seq(RowType)
  BY DirFiles DEF AnalyserInv, AnalyserTyped
<1>3. PICK f \in (dir \ Hidden) \cup {KvFile} :
           /\ f = Head(fnames_evc) /\ Wanted(f) /\ str_vec = Parts(f)
           /\ Len(str_vec) = 5 /\ str_vec \in Seq(ByteText)
           /\ content_vec \in Seq(ByteText) /\ content_vec # <<>> /\ Len(content_vec) \in Nat
           /\ f # KvFile => f \in Files /\ str_vec = PageParts[f]
           /\ f # KvFile /\ ~stray =>
                /\ TextAt(f) \in 1..(Len(PageTexts[f]) - 1)
                /\ content_vec[1] = PageTexts[f][TextAt(f)]
                /\ content_vec[2] = PageTexts[f][TextAt(f) + 1]
  BY <1>1, PresentText
<1>4. /\ content_vec[1] \in ByteText /\ content_vec[2] \in ByteText
      /\ Head(content_vec) = content_vec[1]
  <2> HIDE DEF ByteText
  <2>1. 1 \in 1..Len(content_vec) /\ 2 \in 1..Len(content_vec)
    BY <1>1, <1>3
  <2> QED BY <1>3, <2>1, ElementOfSeq
<1>5. PICK k \in ByteText, v \in ByteText :
        ExtractKv(content_vec[1], content_vec[2]) = [key |-> k, value |-> v]
  BY <1>4, KvType
<1>6. row \in RowType /\ row.id = EnterpriseId(str_vec)
  <2> HIDE DEF ByteText, RowType
  <2>1. /\ Row(str_vec, [key |-> k, value |-> v]) \in RowType
        /\ Row(str_vec, [key |-> k, value |-> v]).id = EnterpriseId(str_vec)
    BY <1>3, RowIsTyped
  <2> QED BY <1>5, <2>1
<1> HIDE DEF row
<1>7. AnalyserTyped'
  <2> HIDE DEF RowType
  <2>1. kv' \in Seq(RowType)
    BY <1>1, <1>2, <1>6, AppendProperties
  <2> QED BY <1>1, <1>2, <2>1 DEF AnalyserTyped
<1>8. FilesAreListed' /\ TextsAreOfPage' /\ \A g \in Files : TextAt(g)' = TextAt(g) + 1
  BY <1>1, <1>6, NextText
<1>9. RowsFitAll'
  <2> SUFFICES ASSUME ~stray, NEW g \in dir, Distinct(g)' PROVE RowsFit(g)'
    BY <1>1 DEF RowsFitAll
  <2>1. Distinct(g) /\ RowsFit(g) /\ g \in Files /\ g # KvFile
    BY <1>1, <1>2, <1>6, DistinctBefore DEF RowsFitAll
  <2>2. Left(g)' = Left(g)
    BY <1>1 DEF Left
  <2> DEFINE id == EnterpriseId(PageParts[g])
  <2>3. RowsIn(g)' = IF row.id = id THEN Append(RowsIn(g), row) ELSE RowsIn(g)
    <3> HIDE DEF id
    <3>1. WithId(Append(kv, row), id)
            = IF row.id = id THEN Append(WithId(kv, id), row) ELSE WithId(kv, id)
      <4> HIDE DEF RowType
      <4> QED BY <1>2, <1>6, RowAdded
    <3>2. WithId(kv, id) = RowsIn(g) /\ WithId(kv', id) = RowsIn(g)'
      BY DEF WithId, RowsIn, id
    <3> QED BY <1>1, <3>1, <3>2
  <2>4. CASE g # f
    <3>1. row.id # id
      <4>1. CASE f = KvFile
        BY <1>3, <1>6, <2>1, <4>1 DEF Distinct
      <4>2. CASE f # KvFile
        <5>1. f \in (dir \cap Read) \ {g}
          BY <1>3, <2>4, <4>2 DEF Read
        <5> QED BY <1>3, <1>6, <2>1, <4>2, <5>1 DEF Distinct
      <4> QED BY <4>1, <4>2
    <3>2. PageRows(g)' = PageRows(g)
      BY <1>1, <1>3, <2>4 DEF PageRows
    <3> QED BY <1>1, <2>1, <2>2, <2>3, <3>1, <3>2, SameFit
  <2>5. CASE g = f
    <3>1. PICK c \in 0..(started - Left(g)) :
            (~died => c = started - Left(g)) /\ RowsIn(g) = Copies(g, c) \o PageRows(g)
      BY <2>1 DEF RowsFit
    <3>2. /\ TextAt(g) \in 1..(Len(PageTexts[g]) - 1)
          /\ content_vec[1] = PageTexts[g][TextAt(g)]
          /\ content_vec[2] = PageTexts[g][TextAt(g) + 1]
          /\ str_vec = PageParts[g]
      BY <1>3, <2>1, <2>5
    <3>3. Marks(PageTexts[g][TextAt(g)]) # {}
      <4> HIDE DEF Bytes
      <4> QED BY <1>1, <1>4, <3>2, HasIs DEF ByteText
    <3>4. row = RowOf(g, TextAt(g))
      <4>1. g \in OnlyWholeColons
        BY <2>1 DEF Distinct
      <4> QED BY <2>1, <3>2, <3>3, <4>1, RowIs DEF row
    <3>5. RowsTo(g, TextAt(g) + 1) = Append(RowsTo(g, TextAt(g)), row)
      BY <2>1, <3>2, <3>3, <3>4, RowsToNext
    <3>6. PageRows(g) = RowsTo(g, TextAt(g)) /\ PageRows(g)' = RowsTo(g, TextAt(g) + 1)
      <4>1. TextAt(g)' = TextAt(g) + 1
        BY <1>8, <2>1
      <4>2. PageRows(g)' = RowsTo(g, TextAt(g)')
        BY <1>1, <1>3, <2>5 DEF PageRows, TextAt
      <4>3. PageRows(g) = RowsTo(g, TextAt(g))
        BY <1>1, <1>3, <2>5 DEF PageRows
      <4> QED BY <4>1, <4>2, <4>3
    <3>7. RowsIn(g)' = Append(RowsIn(g), row)
      BY <1>6, <2>3, <3>2
    <3>8. Append(RowsIn(g), row) = Copies(g, c) \o PageRows(g)'
      <4> DEFINE A == Copies(g, c)
                 B == RowsTo(g, TextAt(g))
                 S == RowSet(g)
      <4>1. A \in Seq(S) /\ B \in Seq(S) /\ row \in S
        <5>1. c \in Nat
          BY <3>1
        <5>2. TextAt(g) \in Nat /\ TextAt(g) \in DOMAIN PageTexts[g]
          BY <2>1, <3>2, LenTexts
        <5> QED BY <2>1, <3>4, <5>1, <5>2, CopiesNext, RowsType DEF RowSet
      <4> HIDE DEF A, B, S
      <4>2. Append(A \o B, row) = (A \o B) \o <<row>>
        BY <4>1, ConcatProperties, AppendIsConcat
      <4>3. <<row>> \in Seq(S) /\ Append(B, row) = B \o <<row>>
        BY <4>1, AppendIsConcat
      <4>9. Joins(A, B, <<row>>)
        BY <4>1, <4>3, Regroup
      <4>4. (A \o B) \o <<row>> = A \o (B \o <<row>>)
        BY <4>9 DEF Joins
      <4>5. RowsIn(g) = A \o B
        BY <3>1, <3>6 DEF A, B
      <4>6. PageRows(g)' = Append(B, row)
        BY <3>5, <3>6 DEF B
      <4> QED BY <4>2, <4>3, <4>4, <4>5, <4>6 DEF A
    <3> QED BY <1>1, <2>2, <3>1, <3>7, <3>8 DEF RowsFit
  <2> QED BY <2>4, <2>5
<1> QED BY <1>7, <1>8, <1>9 DEF AnalyserInv

LEMMA PageDoneKeeps ==
  ASSUME AnalyserInv, PageDone
  PROVE  AnalyserInv'
<1>1. /\ phase = "extract" /\ Len(content_vec) <= 1
      /\ fnames_evc' = Tail(fnames_evc) /\ phase' = "page"
      /\ dir' = dir /\ kv' = kv /\ started' = started /\ died' = died /\ stray' = stray
  BY DEF PageDone
<1>2. /\ AnalyserTyped /\ FilesAreListed /\ RowsFitAll /\ dir \subseteq Files
      /\ KvFile \notin dir /\ started \in Nat
  BY DirFiles, AnalyserAssumption DEF AnalyserInv, AnalyserTyped
<1>3. fnames_evc # <<>>
  BY <1>1 DEF AnalyserInv, TextsAreOfPage
<1>4. AnalyserTyped'
  BY <1>1, <1>2 DEF AnalyserTyped
<1>5. /\ FilesAreListed'
      /\ \A g : IF g = Head(fnames_evc) THEN Left(g) = 1 /\ Left(g)' = 0
                ELSE Left(g)' = Left(g)
  BY <1>1, <1>2, <1>3, ListGoesOn
<1>6. TextsAreOfPage'
  BY <1>1 DEF TextsAreOfPage
<1>7. RowsFitAll'
  <2> SUFFICES ASSUME ~stray, NEW g \in dir, Distinct(g)' PROVE RowsFit(g)'
    BY <1>1 DEF RowsFitAll
  <2>1. RowsFit(g) /\ g \in Files /\ g # KvFile
    BY <1>1, <1>2, DistinctBefore DEF AnalyserTyped, RowsFitAll
  <2>2. PageRows(g)' = <<>> /\ RowsIn(g)' = RowsIn(g)
    BY <1>1, SameRows DEF PageRows
  <2>3. CASE g # Head(fnames_evc)
    <3>1. PageRows(g)' = PageRows(g) /\ Left(g)' = Left(g)
      BY <1>5, <2>2, <2>3 DEF PageRows
    <3> QED BY <1>1, <2>1, <2>2, <3>1, SameFit
  <2>4. CASE g = Head(fnames_evc)
    <3>1. PICK c \in 0..(started - Left(g)) :
            (~died => c = started - Left(g)) /\ RowsIn(g) = Copies(g, c) \o PageRows(g)
      BY <2>1 DEF RowsFit
    <3>2. Left(g) = 1 /\ Left(g)' = 0
      BY <1>5, <2>4
    <3>3. PageRows(g) = RowsOf[g]
      <4>1. TextAt(g) = Len(PageTexts[g])
        BY <1>1, <2>1, <2>4, PresentText
      <4>2. PageRows(g) = RowsTo(g, TextAt(g))
        BY <1>1, <2>4 DEF PageRows
      <4> QED BY <2>1, <4>1, <4>2, RowsToEnds
    <3>4. RowsIn(g)' = Copies(g, c + 1) \o PageRows(g)'
      <4>1. c \in Nat /\ c + 1 \in Nat
        BY <3>1
      <4>2. Copies(g, c + 1) = Copies(g, c) \o RowsOf[g]
        BY <2>1, <4>1, CopiesNext
      <4>3. Copies(g, c + 1) \o <<>> = Copies(g, c + 1)
        BY <2>1, <4>1, CopiesOnly
      <4> QED BY <2>2, <3>1, <3>3, <4>2, <4>3
    <3>5. c + 1 \in 0..(started' - Left(g)') /\ (~died' => c + 1 = started' - Left(g)')
      BY <1>1, <1>2, <3>1, <3>2
    <3> QED BY <3>4, <3>5 DEF RowsFit
  <2> QED BY <2>3, <2>4
<1> QED BY <1>4, <1>5, <1>6, <1>7 DEF AnalyserInv

LEMMA AnalyserStutters ==
  ASSUME AnalyserInv, UNCHANGED analyserVars
  PROVE  AnalyserInv'
<1>1. /\ phase' = phase /\ dir' = dir /\ kv' = kv /\ fnames_evc' = fnames_evc
      /\ str_vec' = str_vec /\ content_vec' = content_vec
      /\ started' = started /\ died' = died /\ stray' = stray
  BY DEF analyserVars
<1>2. AnalyserTyped' /\ FilesAreListed'
  BY <1>1 DEF AnalyserInv, AnalyserTyped, FilesAreListed, OnceEach
<1>3. TextsAreOfPage'
  BY <1>1 DEF AnalyserInv, TextsAreOfPage, TextAt, Wanted, Parts, Url
<1>4. RowsFitAll'
  <2> SUFFICES ASSUME ~stray, NEW g \in dir, Distinct(g)' PROVE RowsFit(g)'
    BY <1>1 DEF RowsFitAll
  <2>1. RowsFit(g)
    BY <1>1, DistinctBefore DEF AnalyserInv, AnalyserTyped, RowsFitAll
  <2>2. Left(g)' = Left(g) /\ PageRows(g)' = PageRows(g)
    BY <1>1 DEF Left, PageRows, TextAt
  <2> QED BY <1>1, <2>1, <2>2, SameFit, SameRows
<1> QED BY <1>2, <1>3, <1>4 DEF AnalyserInv

LEMMA AnalyserInvariance == AnalyserSpec => []AnalyserInv
<1>1. ASSUME AnalyserInv, [AnalyserNext]_analyserVars
      PROVE  AnalyserInv'
  <2>1. CASE Start
    BY <1>1, <2>1, StartKeeps
  <2>2. CASE End
    BY <1>1, <2>2, EndKeeps
  <2>3. CASE SkipPage
    BY <1>1, <2>3, SkipPageKeeps
  <2>4. CASE OpenPage
    BY <1>1, <2>4, OpenPageKeeps
  <2>5. CASE SkipText
    BY <1>1, <2>5, SkipTextKeeps
  <2>6. CASE WriteRow
    BY <1>1, <2>6, WriteRowKeeps
  <2>7. CASE PageDone
    BY <1>1, <2>7, PageDoneKeeps
  <2>8. CASE UNCHANGED analyserVars
    BY <1>1, <2>8, AnalyserStutters
  <2> QED BY <1>1, <2>1, <2>2, <2>3, <2>4, <2>5, <2>6, <2>7, <2>8 DEF AnalyserNext
<1> QED BY <1>1, AnalyserInitInv, PTL DEF AnalyserSpec

\* The types of the state (AnalyserTypeOK): the rows of kv.sql have one of the
\* four types, what is listed is a page that is not hidden or kv.sql, and the
\* page that is read has five parts and a text left (just_work).
THEOREM AnalyserTypeCorrect == AnalyserSpec => []AnalyserTypeOK
<1>1. ASSUME AnalyserInv PROVE AnalyserTypeOK
  <2>1. /\ AnalyserTyped /\ FilesAreListed /\ kv \in Seq(RowType)
    BY <1>1 DEF AnalyserInv, AnalyserTyped
  <2>2. \A i \in DOMAIN kv : kv[i].type \in {"Webpub", "trade", "shop", ""}
    <3>1. \A i \in 1..Len(kv) : kv[i] \in RowType
      BY <2>1, ElementOfSeq
    <3>2. DOMAIN kv = 1..Len(kv)
      BY <2>1, LenProperties
    <3> QED BY <3>1, <3>2 DEF RowType, EnterpriseTypes
  <2>3. ToSet(fnames_evc) \subseteq (dir \ Hidden) \cup {KvFile}
    <3> DEFINE T == (dir \ Hidden) \cup {KvFile}
    <3>1. fnames_evc \in Seq(T)
      BY <2>1 DEF FilesAreListed
    <3> HIDE DEF T
    <3>2. ToSet(fnames_evc) \subseteq T
      BY <3>1 DEF ToSet
    <3> QED BY <3>2 DEF T
  <2>4. phase = "extract" => Len(str_vec) = 5 /\ content_vec # <<>>
    BY <1>1, PresentText
  <2> QED BY <2>1, <2>2, <2>3, <2>4 DEF AnalyserTypeOK, AnalyserTyped
<1> QED BY <1>1, AnalyserInvariance, PTL

\* In kv.sql the rows with the id of a page that is told by its id are whole
\* copies of its rows, and a begun one at most (RowsAreThePages): for any
\* number of runs, of pages and of texts in them, and though kv.sql is read.
THEOREM RowsStayThePages == AnalyserSpec => []RowsAreThePages
<1>1. ASSUME AnalyserInv PROVE RowsAreThePages
  <2> SUFFICES ASSUME ~stray, NEW f \in dir, Distinct(f)
               PROVE  IsPrefix(RowsIn(f), Copies(f, started))
    BY DEF RowsAreThePages
  <2>1. f \in Files /\ f # KvFile /\ started \in Nat
    BY <1>1, DirFiles, AnalyserAssumption DEF AnalyserInv, AnalyserTyped
  <2>2. PICK c \in 0..(started - Left(f)) : RowsIn(f) = Copies(f, c) \o PageRows(f)
    BY <1>1 DEF AnalyserInv, RowsFitAll, RowsFit
  <2>3. CASE phase = "extract" /\ Head(fnames_evc) = f
    <3>1. TextAt(f) \in 1..Len(PageTexts[f]) /\ fnames_evc # <<>>
      BY <1>1, <2>1, <2>3, PresentText
    <3>2. Left(f) = 1
      <4> DEFINE T == (dir \ Hidden) \cup {KvFile}
      <4>1. fnames_evc \in Seq(T) /\ OnceEach(fnames_evc)
        BY <1>1 DEF AnalyserInv, FilesAreListed
      <4> HIDE DEF T
      <4>2. f \in ToSet(fnames_evc)
        BY <2>3, <3>1, <4>1, TailIs
      <4> QED BY <4>2 DEF Left
    <3>3. c \in Nat /\ c + 1 <= started
      BY <2>1, <2>2, <3>2
    <3>4. PageRows(f) = RowsTo(f, TextAt(f))
      BY <2>3 DEF PageRows
    <3> QED BY <2>1, <2>2, <3>1, <3>3, <3>4, PagePrefix
  <2>4. CASE ~(phase = "extract" /\ Head(fnames_evc) = f)
    <3>1. c \in Nat /\ c <= started
      <4>1. Left(f) \in {0, 1}
        BY DEF Left
      <4> QED BY <2>1, <2>2, <4>1
    <3>2. RowsIn(f) = Copies(f, c)
      BY <2>1, <2>2, <2>4, <3>1, CopiesOnly DEF PageRows
    <3> QED BY <2>1, <3>1, <3>2, PagePrefix
  <2> QED BY <2>3, <2>4
<1> QED BY <1>1, AnalyserInvariance, PTL

\* When no run has died, each has added the rows of every such page exactly
\* once (EveryPageOncePerRun), in whatever order the directory gives them.
THEOREM RunsAddEveryPage == AnalyserSpec => []EveryPageOncePerRun
<1>1. ASSUME AnalyserInv PROVE EveryPageOncePerRun
  <2> SUFFICES ASSUME phase = "stopped", ~died, ~stray, NEW f \in dir, Distinct(f)
               PROVE  RowsIn(f) = Copies(f, started)
    BY DEF EveryPageOncePerRun
  <2>1. f \in Files /\ started \in Nat
    BY <1>1, DirFiles, AnalyserAssumption DEF AnalyserInv, AnalyserTyped
  <2>2. RowsIn(f) = Copies(f, started - Left(f)) \o PageRows(f)
    BY <1>1 DEF AnalyserInv, RowsFitAll, RowsFit
  <2>3. Left(f) = 0 /\ PageRows(f) = <<>>
    <3>1. fnames_evc = <<>>
      BY <1>1 DEF AnalyserInv, FilesAreListed
    <3> QED BY <3>1 DEF Left, ToSet, PageRows
  <2>4. started - 0 = started
    BY <2>1
  <2> QED BY <2>1, <2>2, <2>3, <2>4, CopiesOnly
<1> QED BY <1>1, AnalyserInvariance, PTL

===============================================================================
