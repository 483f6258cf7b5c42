----------------------------- MODULE Table_proofs -----------------------------
(***************************************************************************)
(* The terminal table, for every number of columns, kinds of notes, widths *)
(* and heights: the number of rows computed from the counters is the       *)
(* number of rows there are, the window is full, it stands still, and the  *)
(* history printed at the end has every row of it that tells something.    *)
(*                                                                         *)
(* The rows of the table are all different, so a sequence of them is as    *)
(* long as the set of its rows is large, and that set is a disjoint union: *)
(* the ticks, the details of each column, the note rows, the continuations *)
(* of the notes of each length.  Every counter is the size of one of them. *)
(* The history is such a sequence too, of those that tell something.       *)
(***************************************************************************)
EXTENDS Table, PingColumn_proofs, SequenceTheorems, WellFoundedInduction

-----------------------------------------------------------------------------
(* Numbers *)

\* A set of natural numbers that is not empty has a least element.
LEMMA LeastOf ==
  ASSUME NEW T, T \subseteq Nat, T # {}
  PROVE  \E t \in T : \A u \in T : t <= u
<1>1. PICK t \in T : \A u \in T : <<u, t>> \notin OpToRel(<, Nat)
  BY NatLessThanWellFounded, WFMin
<1>2. ASSUME NEW u \in T PROVE t <= u
  <2>1. <<u, t>> \notin OpToRel(<, Nat) /\ <<u, t>> \in Nat \X Nat
    BY <1>1
  <2> QED BY <2>1 DEF OpToRel
<1> QED BY <1>2

LEMMA MaxOf ==
  ASSUME NEW n \in Nat, NEW S, S \subseteq 0 .. n, S # {}
  PROVE  Max(S) \in S /\ \A y \in S : Max(S) >= y
<1> DEFINE T == {t \in Nat : n - t \in S}
<1>1. T # {}
  <2>1. PICK x \in S : TRUE
    OBVIOUS
  <2>2. n - x \in Nat /\ n - (n - x) = x
    BY <2>1
  <2> QED BY <2>1, <2>2
<1>2. PICK t \in T : \A u \in T : t <= u
  BY <1>1, LeastOf
<1>3. n - t \in S /\ t \in Nat
  BY <1>2
<1>4. ASSUME NEW y \in S PROVE n - t >= y
  <2>1. y \in Int /\ n - y \in Nat /\ n - (n - y) = y
    OBVIOUS
  <2>2. n - y \in T
    BY <2>1
  <2> QED BY <1>2, <1>3, <2>1, <2>2
<1> HIDE DEF T
<1> QED BY <1>3, <1>4 DEF Max

LEMMA MaxOfTwo ==
  ASSUME NEW a \in Int, NEW b \in Int
  PROVE  Max({a, b}) = IF a >= b THEN a ELSE b
BY DEF Max

LEMMA MinOfTwo ==
  ASSUME NEW a \in Int, NEW b \in Int
  PROVE  Min({a, b}) = IF a <= b THEN a ELSE b
BY DEF Min

-----------------------------------------------------------------------------
(* Sets and their sizes *)

\* A sequence without repetitions is as long as the set of its elements.
LEMMA LenIsCardinality ==
  ASSUME NEW T, NEW q \in Seq(T), IsInjective(q)
  PROVE  IsFiniteSet(Range(q)) /\ Cardinality(Range(q)) = Len(q)
<1> DEFINE D == 1 .. Len(q)
<1>1. q \in [D -> Range(q)] /\ Len(q) \in Nat /\ DOMAIN q = D
  BY DEF Range
<1>2. q \in Bijection(D, Range(q))
  BY <1>1 DEF Bijection, Injection, Surjection, IsInjective, Range
<1>3. ExistsBijection(D, Range(q))
  BY <1>2 DEF ExistsBijection
<1> QED BY <1>1, <1>3, FS_CountingElements, FS_NatBijection

LEMMA DisjointSize ==
  ASSUME NEW S, NEW T, IsFiniteSet(S), IsFiniteSet(T), S \cap T = {}
  PROVE  /\ IsFiniteSet(S \cup T)
         /\ Cardinality(S \cup T) = Cardinality(S) + Cardinality(T)
<1>1. Cardinality(S) \in Nat /\ Cardinality(T) \in Nat
  BY FS_CardinalityType
<1>2. Cardinality({}) = 0
  BY FS_EmptySet
<1>3. Cardinality(S \cup T) = Cardinality(S) + Cardinality(T) - Cardinality({})
  BY FS_Union
<1> QED BY <1>1, <1>2, <1>3, FS_Union

\* Marking the elements of a set does not change its size.
Marked(S, tag, h) == {<<s, tag, h>> : s \in S}

LEMMA MarkedSize ==
  ASSUME NEW S, IsFiniteSet(S), NEW tag, NEW h
  PROVE  IsFiniteSet(Marked(S, tag, h)) /\ Cardinality(Marked(S, tag, h)) = Cardinality(S)
<1> DEFINE f == [s \in S |-> <<s, tag, h>>]
<1>1. f \in Bijection(S, Marked(S, tag, h))
  BY DEF Marked, Bijection, Injection, Surjection, IsInjective
<1>2. ExistsBijection(S, Marked(S, tag, h))
  BY <1>1 DEF ExistsBijection
<1> QED BY <1>2, FS_Bijection

\* The equation the community modules define a sum by: an element is taken
\* off the set until nothing is left.
Picked(s) == CHOOSE x \in s : TRUE

Summing(f, E, g) ==
  g = [s \in SUBSET E |-> IF s = {} THEN 0 ELSE f[Picked(s)] + g[s \ {Picked(s)}]]

LEMMA SumIsSumming ==
  ASSUME NEW f, NEW E
  PROVE  SumFunctionOnSet(f, E) = (CHOOSE g : Summing(f, E, g))[E]
BY DEF SumFunctionOnSet, FoldFunctionOnSet, MapThenFoldSet, Summing, Picked

\* Elements of a finite set are taken off one by one: two functions that obey
\* the equation are equal.
LEMMA SummingUnique ==
  ASSUME NEW f, NEW E, IsFiniteSet(E), NEW g, NEW k,
         Summing(f, E, g), Summing(f, E, k)
  PROVE  \A s \in SUBSET E : g[s] = k[s]
<1> DEFINE Bad == {n \in Nat : \E s \in SUBSET E : Cardinality(s) = n /\ g[s] # k[s]}
<1>1. SUFFICES ASSUME NEW s \in SUBSET E, g[s] # k[s] PROVE FALSE
  OBVIOUS
<1>2. Bad # {}
  <2>1. IsFiniteSet(s)
    BY FS_Subset
  <2> QED BY <1>1, <2>1, FS_CardinalityType
<1>3. PICK n \in Bad : \A m \in Bad : n <= m
  BY <1>2, LeastOf
<1>4. PICK t \in SUBSET E : Cardinality(t) = n /\ g[t] # k[t]
  BY <1>3
<1>5. t # {}
  BY <1>4 DEF Summing
<1>6. Picked(t) \in t
  BY <1>5 DEF Picked
<1>7. Cardinality(t \ {Picked(t)}) = n - 1 /\ n - 1 \in Nat /\ n \in Nat
  <2>1. IsFiniteSet(t) /\ IsFiniteSet(t \ {Picked(t)})
    BY FS_Subset
  <2> QED BY <1>4, <1>6, <2>1, FS_RemoveElement, FS_CardinalityType
<1>8. g[t \ {Picked(t)}] = k[t \ {Picked(t)}]
  BY <1>3, <1>7
<1>9. g[t] = f[Picked(t)] + g[t \ {Picked(t)}] /\ k[t] = f[Picked(t)] + k[t \ {Picked(t)}]
  BY <1>5 DEF Summing
<1> QED BY <1>4, <1>8, <1>9

\* The sum of the sizes of disjoint sets is the size of their union.
LEMMA SumOfSizes ==
  ASSUME NEW E, IsFiniteSet(E), NEW f, NEW F,
         \A d \in E : IsFiniteSet(F[d]) /\ f[d] = Cardinality(F[d]),
         \A d, e \in E : d # e => F[d] \cap F[e] = {}
  PROVE  LET U == UNION {F[d] : d \in E}
         IN  IsFiniteSet(U) /\ SumFunctionOnSet(f, E) = Cardinality(U)
<1> DEFINE U(s) == UNION {F[d] : d \in s}
           g == [s \in SUBSET E |-> Cardinality(U(s))]
<1>1. ASSUME NEW s \in SUBSET E PROVE IsFiniteSet(U(s))
  <2>1. IsFiniteSet(s)
    BY FS_Subset
  <2> DEFINE W == {F[d] : d \in s}
             w == [d \in s |-> F[d]]
  <2>2. IsFiniteSet(W)
    <3>1. w \in Surjection(s, W)
      BY DEF Surjection
    <3> QED BY <2>1, <3>1, FS_Surjection
  <2>3. \A T \in W : IsFiniteSet(T)
    OBVIOUS
  <2> HIDE DEF W
  <2>4. IsFiniteSet(UNION W)
    BY <2>2, <2>3, FS_UNION
  <2> QED BY <2>4 DEF W
<1>2. ASSUME NEW s \in SUBSET E
      PROVE  g[s] = IF s = {} THEN 0 ELSE f[Picked(s)] + g[s \ {Picked(s)}]
  <2>1. CASE s = {}
    <3>1. U(s) = {}
      BY <2>1
    <3> HIDE DEF U
    <3> QED BY <2>1, <3>1, FS_EmptySet
  <2>2. CASE s # {}
    <3> DEFINE x == Picked(s)
               r == s \ {x}
    <3>1. x \in s /\ r \in SUBSET E /\ x \in E /\ r = s \ {x}
      BY <2>2 DEF Picked
    <3>2. U(s) = F[x] \cup U(r)
      BY <3>1
    <3>3. F[x] \cap U(r) = {}
      BY <3>1
    <3>4. IsFiniteSet(F[x]) /\ IsFiniteSet(U(r))
      BY <1>1, <3>1
    <3>5. f[x] = Cardinality(F[x]) /\ f[x] \in Nat /\ Cardinality(U(r)) \in Nat
      BY <3>1, <3>4, FS_CardinalityType
    <3> HIDE DEF U, x, r
    <3>6. Cardinality(U(s)) = f[x] + Cardinality(U(r))
      <4>1. Cardinality(F[x] \cup U(r)) = Cardinality(F[x]) + Cardinality(U(r))
        BY <3>3, <3>4, DisjointSize
      <4> QED BY <3>2, <3>5, <4>1
    <3>7. g[s] = Cardinality(U(s)) /\ g[r] = Cardinality(U(r))
      BY <3>1
    <3> HIDE DEF g
    <3>8. g[s] = f[x] + g[r]
      BY <3>6, <3>7
    <3> QED BY <2>2, <3>8 DEF x, r
  <2> QED BY <2>1, <2>2
<1> HIDE DEF U
<1>3. Summing(f, E, g)
  BY <1>2 DEF Summing
<1> HIDE DEF g
<1>4. Summing(f, E, CHOOSE k : Summing(f, E, k))
  BY <1>3
<1>5. (CHOOSE k : Summing(f, E, k))[E] = g[E]
  BY <1>3, <1>4, SummingUnique
<1>6. g[E] = Cardinality(U(E)) /\ IsFiniteSet(U(E))
  BY <1>1 DEF g
<1> QED BY <1>5, <1>6, SumIsSumming DEF U

-----------------------------------------------------------------------------
(* Sequences put one after the other *)

\* Two sequences of different elements without repetitions.
LEMMA RangeConcat ==
  ASSUME NEW T, NEW a \in Seq(T), NEW b \in Seq(T), IsInjective(a), IsInjective(b),
         Range(a) \cap Range(b) = {}
  PROVE  /\ a \o b \in Seq(T) /\ IsInjective(a \o b)
         /\ Range(a \o b) = Range(a) \cup Range(b)
<1> DEFINE n == Len(a)
           m == Len(b)
           c == a \o b
<1>1. /\ n \in Nat /\ m \in Nat /\ DOMAIN a = 1 .. n /\ DOMAIN b = 1 .. m
      /\ c \in Seq(T) /\ DOMAIN c = 1 .. (n + m)
  OBVIOUS
<1>2. \A i \in 1 .. n : c[i] = a[i] /\ c[i] \in Range(a)
  BY <1>1 DEF Range
<1>3. ASSUME NEW i \in (n + 1) .. (n + m)
      PROVE  c[i] = b[i - n] /\ i - n \in 1 .. m /\ c[i] \in Range(b)
  <2>1. c[i] = b[i - n] /\ i - n \in 1 .. m
    BY <1>1
  <2> QED BY <1>1, <2>1 DEF Range
<1>4. \A j \in 1 .. m : c[n + j] = b[j] /\ n + j \in 1 .. (n + m)
  BY <1>1
<1> HIDE DEF n, m, c
<1>5. Range(c) = Range(a) \cup Range(b)
  <2>1. Range(c) \subseteq Range(a) \cup Range(b)
    <3>1. \A i \in 1 .. (n + m) : i \in 1 .. n \/ i \in (n + 1) .. (n + m)
      BY <1>1
    <3> QED BY <1>1, <1>2, <1>3, <3>1 DEF Range
  <2>2. Range(a) \subseteq Range(c)
    <3>1. 1 .. n \subseteq 1 .. (n + m)
      BY <1>1
    <3> QED BY <1>1, <1>2, <3>1 DEF Range
  <2>3. Range(b) \subseteq Range(c)
    BY <1>1, <1>4 DEF Range
  <2> QED BY <2>1, <2>2, <2>3
<1>6. IsInjective(c)
  <2>1. SUFFICES ASSUME NEW i \in 1 .. (n + m), NEW j \in 1 .. (n + m), c[i] = c[j]
                 PROVE  i = j
    BY <1>1 DEF IsInjective
  <2>2. CASE i \in 1 .. n /\ j \in 1 .. n
    BY <1>1, <1>2, <2>1, <2>2 DEF IsInjective
  <2>3. CASE i \in (n + 1) .. (n + m) /\ j \in (n + 1) .. (n + m)
    <3>1. i - n = j - n
      BY <1>1, <1>3, <2>1, <2>3 DEF IsInjective
    <3> QED BY <1>1, <3>1
  <2>4. CASE i \in 1 .. n /\ j \in (n + 1) .. (n + m)
    BY <1>2, <1>3, <2>1, <2>4
  <2>5. CASE i \in (n + 1) .. (n + m) /\ j \in 1 .. n
    BY <1>2, <1>3, <2>1, <2>5
  <2> QED BY <1>1, <2>2, <2>3, <2>4, <2>5
<1> QED BY <1>1, <1>5, <1>6 DEF c

\* What FlattenSeq computes, one sequence after the other.
Flattening(s, g) ==
  g = [i \in 1 .. Len(s) |-> IF i = 1 THEN s[i] ELSE g[i - 1] \o s[i]]

LEMMA FlattenIsFlattening ==
  ASSUME NEW s, Len(s) # 0
  PROVE  FlattenSeq(s) = (CHOOSE g : Flattening(s, g))[Len(s)]
BY DEF FlattenSeq, Flattening

LEMMA FlatteningExists ==
  ASSUME NEW n \in Nat \ {0}, NEW s, Len(s) = n
  PROVE  \E g : Flattening(s, g)
<1> DEFINE Upto(m, g) == g = [i \in 1 .. m |-> IF i = 1 THEN s[i] ELSE g[i - 1] \o s[i]]
           Bad == {m \in Nat \ {0} : ~ \E g : Upto(m, g)}
<1> HIDE DEF Upto
<1>1. CASE Bad = {}
  BY <1>1 DEF Flattening, Upto
<1>2. CASE Bad # {}
  <2>1. PICK m \in Bad : \A k \in Bad : m <= k
    BY <1>2, LeastOf
  <2>2. CASE m = 1
    <3> DEFINE h == [i \in 1 .. 1 |-> s[1]]
    <3>1. Upto(1, h)
      BY DEF Upto
    <3> QED BY <2>1, <2>2, <3>1
  <2>3. CASE m # 1
    <3>1. m - 1 \in Nat \ {0} /\ m - 1 \notin Bad
      BY <2>1, <2>3
    <3>2. PICK g : Upto(m - 1, g)
      BY <3>1
    <3> DEFINE h == [i \in 1 .. m |-> IF i = m THEN g[m - 1] \o s[m] ELSE g[i]]
    <3>3. ASSUME NEW i \in 1 .. m
          PROVE  h[i] = IF i = 1 THEN s[i] ELSE h[i - 1] \o s[i]
      <4>1. CASE i = m
        <5>1. m - 1 \in 1 .. m /\ m - 1 # m /\ h[m - 1] = g[m - 1]
          BY <3>1
        <5>2. m \in 1 .. m /\ h[m] = g[m - 1] \o s[m]
          <6>1. m \in 1 .. m
            BY <3>1
          <6> QED BY <6>1
        <5> QED BY <2>3, <4>1, <5>1, <5>2
      <4>2. CASE i # m
        <5>1. i \in 1 .. (m - 1) /\ h[i] = g[i]
          BY <3>1, <4>2
        <5>2. g[i] = IF i = 1 THEN s[i] ELSE g[i - 1] \o s[i]
          BY <3>2, <5>1 DEF Upto
        <5>3. i # 1 => h[i - 1] = g[i - 1]
          <6>1. i # 1 => i - 1 \in 1 .. m /\ i - 1 # m
            BY <3>1, <5>1
          <6> QED BY <6>1
        <5> QED BY <5>1, <5>2, <5>3
      <4> QED BY <4>1, <4>2
    <3> HIDE DEF h
    <3>4. Upto(m, h)
      <4>1. h = [i \in 1 .. m |-> IF i = 1 THEN s[i] ELSE h[i - 1] \o s[i]]
        <5>1. h = [i \in 1 .. m |-> h[i]]
          BY DEF h
        <5> QED BY <3>3, <5>1
      <4> QED BY <4>1 DEF Upto
    <3> QED BY <2>1, <3>4
  <2> QED BY <2>2, <2>3
<1> QED BY <1>1, <1>2

\* What holds of the first sequence, and is kept by putting the next one after
\* those before it, holds of all of them together.
LEMMA FlattenKeeps ==
  ASSUME NEW n \in Nat \ {0}, NEW s, Len(s) = n, NEW G, s[1] \in G[1],
         \A m \in 2 .. n : \A q \in G[m - 1] : q \o s[m] \in G[m]
  PROVE  FlattenSeq(s) \in G[n]
<1> DEFINE g == CHOOSE k : Flattening(s, k)
           Bad == {m \in 1 .. n : g[m] \notin G[m]}
<1>1. Flattening(s, g)
  BY FlatteningExists
<1>2. FlattenSeq(s) = g[n]
  BY FlattenIsFlattening
<1> HIDE DEF g
<1>3. \A i \in 1 .. n : g[i] = IF i = 1 THEN s[i] ELSE g[i - 1] \o s[i]
  BY <1>1 DEF Flattening
<1>4. ASSUME Bad # {} PROVE FALSE
  <2>1. Bad \subseteq Nat
    OBVIOUS
  <2>2. PICK m \in Bad : \A k \in Bad : m <= k
    BY <1>4, <2>1, LeastOf
  <2>3. m \in 1 .. n /\ g[m] \notin G[m]
    OBVIOUS
  <2>4. m # 1
    BY <1>3, <2>3
  <2>5. m \in 2 .. n /\ m - 1 \in 1 .. n /\ ~(m <= m - 1)
    BY <2>3, <2>4
  <2>6. g[m - 1] \in G[m - 1]
    BY <2>2, <2>5
  <2> HIDE DEF Bad
  <2>7. g[m] = g[m - 1] \o s[m]
    BY <1>3, <2>3, <2>4
  <2> QED BY <2>3, <2>5, <2>6, <2>7
<1>5. n \in 1 .. n
  OBVIOUS
<1> QED BY <1>2, <1>4, <1>5

\* Sequences without repetitions that share no element, put one after the
\* other: no repetitions either, and the elements are those of all of them.
LEMMA FlattenRows ==
  ASSUME NEW T, NEW n \in Nat, NEW s \in [1 .. n -> Seq(T)],
         \A i \in 1 .. n : IsInjective(s[i]),
         \A i, j \in 1 .. n : i # j => Range(s[i]) \cap Range(s[j]) = {}
  PROVE  /\ FlattenSeq(s) \in Seq(T) /\ IsInjective(FlattenSeq(s))
         /\ Range(FlattenSeq(s)) = UNION {Range(s[i]) : i \in 1 .. n}
<1>1. Len(s) = n /\ s \in Seq(Seq(T))
  <2>1. s \in Seq(Seq(T)) /\ DOMAIN s = 1 .. n
    OBVIOUS
  <2> QED BY <2>1
<1>2. CASE n = 0
  <2>1. FlattenSeq(s) = s
    BY <1>1, <1>2 DEF FlattenSeq
  <2>2. s = << >> /\ 1 .. n = {}
    BY <1>1, <1>2
  <2>3. << >> \in Seq(T) /\ DOMAIN << >> = {}
    OBVIOUS
  <2>4. IsInjective(<< >>) /\ Range(<< >>) = {}
    BY <2>3 DEF IsInjective, Range
  <2> QED BY <2>1, <2>2, <2>3, <2>4
<1>3. CASE n # 0
  <2> DEFINE Upto(m) == UNION {Range(s[i]) : i \in 1 .. m}
             G == [m \in 1 .. n |-> {q \in Seq(T) : IsInjective(q) /\ Range(q) = Upto(m)}]
  <2>1. 1 \in 1 .. n /\ n \in 1 .. n /\ n \in Nat \ {0}
    BY <1>3
  <2>2. s[1] \in G[1]
    <3>1. Upto(1) = Range(s[1])
      <4>1. 1 .. 1 = {1}
        OBVIOUS
      <4> QED BY <4>1
    <3> HIDE DEF Upto
    <3> QED BY <2>1, <3>1
  <2>3. ASSUME NEW m \in 2 .. n, NEW q \in G[m - 1] PROVE q \o s[m] \in G[m]
    <3>1. m \in 1 .. n /\ m - 1 \in 1 .. n /\ 1 .. m = 1 .. (m - 1) \cup {m}
      OBVIOUS
    <3>2. Upto(m) = Upto(m - 1) \cup Range(s[m])
      BY <3>1
    <3>3. Upto(m - 1) \cap Range(s[m]) = {}
      <4>1. \A i \in 1 .. (m - 1) : i \in 1 .. n /\ i # m
        BY <3>1
      <4> QED BY <3>1, <4>1
    <3> HIDE DEF Upto
    <3>4. q \in Seq(T) /\ IsInjective(q) /\ Range(q) = Upto(m - 1)
      BY <3>1
    <3>5. s[m] \in Seq(T) /\ IsInjective(s[m])
      BY <3>1
    <3>6. /\ q \o s[m] \in Seq(T) /\ IsInjective(q \o s[m])
          /\ Range(q \o s[m]) = Range(q) \cup Range(s[m])
      BY <3>3, <3>4, <3>5, RangeConcat
    <3> QED BY <3>1, <3>2, <3>4, <3>6
  <2> HIDE DEF G
  <2>4. FlattenSeq(s) \in G[n]
    BY <1>1, <2>1, <2>2, <2>3, FlattenKeeps
  <2> QED BY <2>1, <2>4 DEF G
<1> QED BY <1>2, <1>3

-----------------------------------------------------------------------------
(* The rows of the table as a set *)

Line == Nat \X {"note", "more", "tick", "detail"} \X (Nat \cup Kind)

\* The lines of the kinds in K, those in long with a continuation.
KindLines(s, K, long) == {<<s, "note", k>> : k \in K} \cup {<<s, "more", k>> : k \in K \cap long}

\* The kinds that have the numbers in at.
KindsAt(ks, at) == {ks[i] : i \in at}

\* The err: notes of the kinds in K.
ErrLines(s, K) == {<<s, "note", k>> : k \in K}

\* The lines of one tick.
NoteLines(s)     == {<<s, "note", k>> : k \in {j \in Kind : reg[s][j] # Absent}}
MoreLines(s, cw) == {<<s, "more", k>> : k \in {j \in SharedKind : reg[s][j] > cw}}
DetailLines(s)   == {<<s, "detail", h>> : h \in {g \in Hosts : col[g].ping[s] = "detailed"}}
BlockLines(s, cw) ==
  NoteLines(s) \cup MoreLines(s, cw) \cup {<<s, "tick", 0>>} \cup DetailLines(s)
TableLines(cw)   == UNION {BlockLines(s, cw) : s \in 1 .. MaxRow}

LEMMA KindsFacts ==
  /\ Shared \in Seq(Kind) /\ \A i, j \in DOMAIN Shared : Shared[i] = Shared[j] => i = j
  /\ ErrOf \in Seq(Kind) /\ DOMAIN ErrOf = Hosts
  /\ SharedKind \cap WholeRow = {}
  /\ IsFiniteSet(Kind)
<1>1. Shared \in Seq({"resolve", "reverse"}) /\ IsInjective(Shared)
  BY TableAssumption
<1>2. /\ NHosts \in Nat /\ Hosts = 1 .. NHosts /\ DOMAIN ErrOf = Hosts
      /\ \A h \in Hosts : ErrOf[h] \notin {"resolve", "reverse"}
  BY TableAssumption DEF Hosts
<1>3. Shared \in Seq(Kind)
  <2>1. \A i \in 1 .. Len(Shared) : Shared[i] \in Kind
    BY <1>1 DEF Kind, SharedKind
  <2> QED BY <1>1, <2>1
<1>4. ErrOf \in Seq(Kind)
  <2>1. ErrOf = [h \in 1 .. NHosts |-> ErrOf[h]] /\ \A h \in 1 .. NHosts : ErrOf[h] \in Kind
    BY <1>2, TableAssumption DEF Kind, WholeRow
  <2>2. ErrOf \in [1 .. NHosts -> Kind]
    BY <2>1
  <2> QED BY <1>2, <2>2
<1>5. SharedKind \cap WholeRow = {}
  <2>1. \A k \in SharedKind : k \in {"resolve", "reverse"}
    BY <1>1 DEF SharedKind
  <2> QED BY <1>2, <2>1 DEF WholeRow
<1>6. IsFiniteSet(Kind)
  <2>1. SharedKind = Range(Shared) /\ WholeRow = Range(ErrOf)
    BY <1>2 DEF SharedKind, WholeRow, Range
  <2>2. IsFiniteSet(DOMAIN Shared) /\ IsFiniteSet(DOMAIN ErrOf)
    <3>1. DOMAIN Shared = 1 .. Len(Shared) /\ Len(Shared) \in Nat
      BY <1>1
    <3> QED BY <1>2, <3>1, FS_Interval
  <2>3. \A q : IsFiniteSet(DOMAIN q) /\ q = [i \in DOMAIN q |-> q[i]] => IsFiniteSet(Range(q))
    <3>1. ASSUME NEW q, IsFiniteSet(DOMAIN q), q = [i \in DOMAIN q |-> q[i]]
          PROVE  IsFiniteSet(Range(q))
      <4>1. q \in Surjection(DOMAIN q, Range(q))
        <5>1. q \in [DOMAIN q -> Range(q)]
          BY <3>1 DEF Range
        <5>2. \A t \in Range(q) : \E i \in DOMAIN q : q[i] = t
          BY DEF Range
        <5> QED BY <5>1, <5>2 DEF Surjection
      <4> QED BY <3>1, <4>1, FS_Surjection
    <3> QED BY <3>1
  <2>4. Shared = [i \in DOMAIN Shared |-> Shared[i]] /\ ErrOf = [i \in DOMAIN ErrOf |-> ErrOf[i]]
    BY <1>1, TableAssumption
  <2>5. IsFiniteSet(SharedKind) /\ IsFiniteSet(WholeRow)
    BY <2>1, <2>2, <2>3, <2>4
  <2> QED BY <2>5, FS_Union DEF Kind
<1>7. \A i, j \in DOMAIN Shared : Shared[i] = Shared[j] => i = j
  BY <1>1 DEF IsInjective
<1> QED BY <1>2, <1>3, <1>4, <1>5, <1>6, <1>7

\* Sequences of one and of two lines.
LEMMA ShortRows ==
  /\ << >> \in Seq(Line) /\ IsInjective(<< >>) /\ Range(<< >>) = {}
  /\ \A a \in Line : << a >> \in Seq(Line) /\ IsInjective(<< a >>) /\ Range(<< a >>) = {a}
  /\ \A a, b \in Line : a # b => /\ << a, b >> \in Seq(Line) /\ IsInjective(<< a, b >>)
                                 /\ Range(<< a, b >>) = {a, b}
<1>1. << >> \in Seq(Line) /\ DOMAIN << >> = {}
  OBVIOUS
<1>2. ASSUME NEW a \in Line
      PROVE  << a >> \in Seq(Line) /\ DOMAIN << a >> = {1} /\ << a >>[1] = a
  <2>1. DOMAIN << a >> = 1 .. 1 /\ 1 .. 1 = {1}
    OBVIOUS
  <2> QED BY <2>1
<1>3. ASSUME NEW a \in Line, NEW b \in Line
      PROVE  /\ << a, b >> \in Seq(Line) /\ DOMAIN << a, b >> = {1, 2}
             /\ << a, b >>[1] = a /\ << a, b >>[2] = b
  <2>1. DOMAIN << a, b >> = 1 .. 2 /\ 1 .. 2 = {1, 2}
    OBVIOUS
  <2> QED BY <2>1
<1> QED BY <1>1, <1>2, <1>3 DEF IsInjective, Range

\* Every kind has one of the numbers in at at most.
Different(ks, at) ==
  ks \in Seq(Kind) /\ at \subseteq DOMAIN ks /\ \A i, j \in at : ks[i] = ks[j] => i = j

LEMMA KindRowsLines ==
  ASSUME NEW s \in Rows, NEW ks, NEW at, Different(ks, at), NEW long
  PROVE  /\ KindRows(s, ks, at, long) \in Seq(Line) /\ IsInjective(KindRows(s, ks, at, long))
         /\ Range(KindRows(s, ks, at, long)) = KindLines(s, KindsAt(ks, at), long)
<1> DEFINE n == Len(ks)
           part(i) == IF i \notin at THEN << >>
                      ELSE IF ks[i] \in long THEN << <<s, "note", ks[i]>>, <<s, "more", ks[i]>> >>
                           ELSE << <<s, "note", ks[i]>> >>
           parts == [i \in 1 .. n |-> part(i)]
           lines(i) == IF i \in at THEN KindLines(s, {ks[i]}, long) ELSE {}
<1>1. n \in Nat /\ KindRows(s, ks, at, long) = FlattenSeq(parts) /\ DOMAIN ks = 1 .. n
  BY DEF KindRows, Different
<1>2. ASSUME NEW i \in 1 .. n
      PROVE  part(i) \in Seq(Line) /\ IsInjective(part(i)) /\ Range(part(i)) = lines(i)
  <2> DEFINE k == ks[i]
             a == <<s, "note", k>>
             b == <<s, "more", k>>
  <2>1. a \in Line /\ b \in Line /\ a # b
    BY <1>1, MaxSeqAssumption DEF Line, Rows, Different
  <2>2. KindLines(s, {k}, long) = IF k \in long THEN {a, b} ELSE {a}
    BY DEF KindLines
  <2>3. CASE i \notin at
    <3>1. lines(i) = {} /\ part(i) = << >>
      BY <2>3
    <3> HIDE DEF lines, part
    <3> QED BY <3>1, ShortRows
  <2>4. CASE i \in at /\ k \in long
    <3>1. lines(i) = {a, b} /\ part(i) = << a, b >>
      BY <2>2, <2>4
    <3> HIDE DEF lines, part, a, b
    <3> QED BY <2>1, <3>1, ShortRows
  <2>5. CASE i \in at /\ k \notin long
    <3>1. lines(i) = {a} /\ part(i) = << a >>
      BY <2>2, <2>5
    <3> HIDE DEF lines, part, a, b
    <3> QED BY <2>1, <3>1, ShortRows
  <2> QED BY <2>3, <2>4, <2>5
<1>3. KindLines(s, KindsAt(ks, at), long) = UNION {lines(i) : i \in 1 .. n}
  BY <1>1 DEF KindLines, KindsAt, Different
<1>4. ASSUME NEW i \in 1 .. n, NEW j \in 1 .. n, i # j PROVE lines(i) \cap lines(j) = {}
  <2>1. CASE i \in at /\ j \in at
    <3>1. ks[i] # ks[j]
      BY <1>4, <2>1 DEF Different
    <3>2. \A k : \A q \in KindLines(s, {k}, long) : q[3] = k
      BY DEF KindLines
    <3> QED BY <2>1, <3>1, <3>2
  <2>2. CASE ~(i \in at /\ j \in at)
    BY <2>2
  <2> QED BY <2>1, <2>2
<1> HIDE DEF part, lines
<1>5. /\ parts \in [1 .. n -> Seq(Line)]
      /\ \A i \in 1 .. n : IsInjective(parts[i]) /\ Range(parts[i]) = lines(i)
  BY <1>2
<1> HIDE DEF parts, n
<1>6. \A i, j \in 1 .. n : i # j => Range(parts[i]) \cap Range(parts[j]) = {}
  BY <1>4, <1>5
<1>7. UNION {Range(parts[i]) : i \in 1 .. n} = UNION {lines(i) : i \in 1 .. n}
  BY <1>5
<1>8. /\ FlattenSeq(parts) \in Seq(Line) /\ IsInjective(FlattenSeq(parts))
      /\ Range(FlattenSeq(parts)) = UNION {Range(parts[i]) : i \in 1 .. n}
  BY <1>1, <1>5, <1>6, FlattenRows
<1> QED BY <1>1, <1>3, <1>7, <1>8

\* The rows of shared kinds, and after them those of err: kinds.
TwoRows(s, S, long, ks, at) == KindRows(s, Shared, S, long) \o KindRows(s, ks, at, {})

TwoLines(s, S, long, ks, at) ==
  KindLines(s, KindsAt(Shared, S), long) \cup ErrLines(s, KindsAt(ks, at))

LEMMA TwoKindRows ==
  ASSUME NEW s \in Rows, NEW S \in SUBSET DOMAIN Shared, NEW long,
         NEW ks, NEW at, Different(ks, at), KindsAt(ks, at) \in SUBSET WholeRow
  PROVE  /\ TwoRows(s, S, long, ks, at) \in Seq(Line)
         /\ IsInjective(TwoRows(s, S, long, ks, at))
         /\ Range(TwoRows(s, S, long, ks, at)) = TwoLines(s, S, long, ks, at)
<1> DEFINE a == KindRows(s, Shared, S, long)
           b == KindRows(s, ks, at, {})
           A == KindLines(s, KindsAt(Shared, S), long)
           B == ErrLines(s, KindsAt(ks, at))
<1>1. a \in Seq(Line) /\ IsInjective(a) /\ Range(a) = A
  <2>1. Different(Shared, S)
    BY KindsFacts DEF Different
  <2> QED BY <2>1, KindRowsLines
<1>2. b \in Seq(Line) /\ IsInjective(b) /\ Range(b) = KindLines(s, KindsAt(ks, at), {})
  BY KindRowsLines
<1>3. KindLines(s, KindsAt(ks, at), {}) = B
  BY DEF KindLines, ErrLines
<1>4. A \cap B = {}
  <2>1. \A q \in A : q[3] \in SharedKind
    BY DEF KindLines, KindsAt, SharedKind
  <2>2. \A q \in B : q[3] \in WholeRow
    BY DEF ErrLines, KindsAt
  <2> HIDE DEF A, B
  <2> QED BY <2>1, <2>2, KindsFacts
<1> HIDE DEF a, b, A, B
<1>5. /\ a \o b \in Seq(Line) /\ IsInjective(a \o b) /\ Range(a \o b) = Range(a) \cup Range(b)
  BY <1>1, <1>2, <1>3, <1>4, RangeConcat
<1>6. TwoRows(s, S, long, ks, at) = a \o b /\ TwoLines(s, S, long, ks, at) = A \cup B
  BY DEF TwoRows, TwoLines, a, b, A, B
<1> QED BY <1>1, <1>2, <1>3, <1>5, <1>6

\* The err: kinds of a row, in the order they came, are those of the registry.
OrderOf(s) ==
  /\ order[s] \in Seq(WholeRow)
  /\ \A i, j \in DOMAIN order[s] : order[s][i] = order[s][j] => i = j
  /\ \A k \in WholeRow : reg[s][k] # Absent <=> \E i \in DOMAIN order[s] : order[s][i] = k

LEMMA NoteRowsLines ==
  ASSUME NEW s \in Rows, NEW cw \in Widths, reg[s] \in [Kind -> Length \cup {Absent}], OrderOf(s)
  PROVE  /\ NoteRows(s, cw) \in Seq(Line) /\ IsInjective(NoteRows(s, cw))
         /\ Range(NoteRows(s, cw)) = NoteLines(s) \cup MoreLines(s, cw)
<1> DEFINE rows == NoteRows(s, cw)
           S == {i \in DOMAIN Shared : reg[s][Shared[i]] # Absent}
           long == {k \in SharedKind : reg[s][k] > cw}
           ks == order[s]
           A == KindsAt(Shared, S)
           B == KindsAt(ks, DOMAIN ks)
<1>1. rows = TwoRows(s, S, long, ks, DOMAIN ks)
  BY DEF NoteRows, TwoRows
<1>2. ks \in Seq(Kind) /\ \A i \in DOMAIN ks : ks[i] \in WholeRow
  BY DEF OrderOf, Kind
<1>3. Different(ks, DOMAIN ks) /\ KindsAt(ks, DOMAIN ks) \subseteq WholeRow
  BY <1>2 DEF OrderOf, Different, KindsAt
<1>4. A = {k \in SharedKind : reg[s][k] # Absent}
  BY DEF SharedKind, KindsAt
<1>5. B = {k \in WholeRow : reg[s][k] # Absent}
  BY <1>2 DEF OrderOf, KindsAt
<1>6. \A k \in SharedKind : reg[s][k] > cw => reg[s][k] # Absent
  BY TableAssumption DEF Absent
<1> HIDE DEF rows, S, long, ks
<1>7. S \in SUBSET DOMAIN Shared
  BY DEF S
<1>8. /\ rows \in Seq(Line) /\ IsInjective(rows)
      /\ Range(rows) = KindLines(s, A, long) \cup ErrLines(s, B)
  BY <1>1, <1>3, <1>7, TwoKindRows DEF TwoLines
<1> HIDE DEF A, B
<1>9. KindLines(s, A, long) \cup ErrLines(s, B) = NoteLines(s) \cup MoreLines(s, cw)
  <2>1. A \cap long = {k \in SharedKind : reg[s][k] > cw}
    BY <1>4, <1>6 DEF long
  <2>2. A \cup B = {k \in Kind : reg[s][k] # Absent}
    BY <1>4, <1>5 DEF Kind
  <2>3. KindLines(s, A, long) \cup ErrLines(s, B)
          = {<<s, "note", k>> : k \in A \cup B} \cup {<<s, "more", k>> : k \in A \cap long}
    BY DEF KindLines, ErrLines
  <2> QED BY <2>1, <2>2, <2>3 DEF NoteLines, MoreLines
<1> QED BY <1>8, <1>9 DEF rows

LEMMA DetailRowsLines ==
  ASSUME NEW s \in Rows
  PROVE  /\ DetailRows(s) \in Seq(Line) /\ IsInjective(DetailRows(s))
         /\ Range(DetailRows(s)) = DetailLines(s)
<1> DEFINE part(h) == IF col[h].ping[s] = "detailed" THEN << <<s, "detail", h>> >> ELSE << >>
           parts == [h \in 1 .. NHosts |-> part(h)]
           lines(h) == {r \in DetailLines(s) : r[3] = h}
<1>1. NHosts \in Nat /\ DetailRows(s) = FlattenSeq(parts) /\ 1 .. NHosts = Hosts
  BY TableAssumption DEF DetailRows, Hosts
<1>2. ASSUME NEW h \in 1 .. NHosts
      PROVE  part(h) \in Seq(Line) /\ IsInjective(part(h)) /\ Range(part(h)) = lines(h)
  <2> DEFINE a == <<s, "detail", h>>
  <2>1. a \in Line
    BY <1>1, MaxSeqAssumption DEF Line, Rows
  <2>2. lines(h) = {r \in {a} : col[h].ping[s] = "detailed"}
    BY <1>1 DEF DetailLines
  <2>3. CASE col[h].ping[s] = "detailed"
    <3>1. lines(h) = {a} /\ part(h) = << a >>
      BY <2>2, <2>3
    <3> HIDE DEF lines, part, a
    <3> QED BY <2>1, <3>1, ShortRows
  <2>4. CASE col[h].ping[s] # "detailed"
    <3>1. lines(h) = {} /\ part(h) = << >>
      BY <2>2, <2>4
    <3> HIDE DEF lines, part
    <3> QED BY <3>1, ShortRows
  <2> QED BY <2>3, <2>4
<1>3. DetailLines(s) = UNION {lines(h) : h \in 1 .. NHosts}
  BY <1>1 DEF DetailLines
<1>4. \A i, j \in 1 .. NHosts : i # j => lines(i) \cap lines(j) = {}
  OBVIOUS
<1> HIDE DEF part, lines
<1>5. /\ parts \in [1 .. NHosts -> Seq(Line)]
      /\ \A i \in 1 .. NHosts : IsInjective(parts[i]) /\ Range(parts[i]) = lines(i)
  BY <1>2
<1> HIDE DEF parts
<1>6. \A i, j \in 1 .. NHosts : i # j => Range(parts[i]) \cap Range(parts[j]) = {}
  BY <1>4, <1>5
<1>7. UNION {Range(parts[i]) : i \in 1 .. NHosts} = UNION {lines(i) : i \in 1 .. NHosts}
  BY <1>5
<1>8. /\ FlattenSeq(parts) \in Seq(Line) /\ IsInjective(FlattenSeq(parts))
      /\ Range(FlattenSeq(parts)) = UNION {Range(parts[i]) : i \in 1 .. NHosts}
  BY <1>1, <1>5, <1>6, FlattenRows
<1> QED BY <1>1, <1>3, <1>7, <1>8

LEMMA BlockIsLines ==
  ASSUME NEW s \in Rows, NEW cw \in Widths, reg[s] \in [Kind -> Length \cup {Absent}], OrderOf(s)
  PROVE  /\ Block(s, cw) \in Seq(Line) /\ IsInjective(Block(s, cw))
         /\ Range(Block(s, cw)) = BlockLines(s, cw)
<1> DEFINE t == <<s, "tick", 0>>
           nn == NoteRows(s, cw)
           dd == DetailRows(s)
           mm == nn \o << t >>
<1>1. t \in Line
  BY MaxSeqAssumption DEF Line, Rows
<1>2. \A r \in NoteLines(s) \cup MoreLines(s, cw) : r[2] \in {"note", "more"}
  BY DEF NoteLines, MoreLines
<1>3. \A r \in DetailLines(s) : r[2] = "detail"
  BY DEF DetailLines
<1>4. /\ nn \in Seq(Line) /\ IsInjective(nn)
      /\ Range(nn) = NoteLines(s) \cup MoreLines(s, cw)
  BY NoteRowsLines
<1>5. dd \in Seq(Line) /\ IsInjective(dd) /\ Range(dd) = DetailLines(s)
  BY DetailRowsLines
<1>6. << t >> \in Seq(Line) /\ IsInjective(<< t >>) /\ Range(<< t >>) = {t}
  BY <1>1, ShortRows
<1>7. Block(s, cw) = nn \o << t >> \o dd
  BY DEF Block
<1>8. t[2] = "tick"
  OBVIOUS
<1> HIDE DEF t, nn, dd
<1>9. Range(nn) \cap Range(<< t >>) = {}
  BY <1>2, <1>4, <1>6, <1>8
<1>10. /\ mm \in Seq(Line) /\ IsInjective(mm)
       /\ Range(mm) = NoteLines(s) \cup MoreLines(s, cw) \cup {t}
  <2>1. /\ mm \in Seq(Line) /\ IsInjective(mm)
        /\ Range(mm) = Range(nn) \cup Range(<< t >>)
    BY <1>4, <1>6, <1>9, RangeConcat
  <2> QED BY <1>4, <1>6, <2>1
<1> HIDE DEF mm
<1>11. Range(mm) \cap Range(dd) = {}
  BY <1>2, <1>3, <1>5, <1>8, <1>10
<1>12. /\ mm \o dd \in Seq(Line) /\ IsInjective(mm \o dd)
       /\ Range(mm \o dd) = Range(mm) \cup Range(dd)
  BY <1>5, <1>10, <1>11, RangeConcat
<1>13. BlockLines(s, cw) = NoteLines(s) \cup MoreLines(s, cw) \cup {t} \cup DetailLines(s)
  BY DEF BlockLines, t
<1> QED BY <1>5, <1>7, <1>10, <1>12, <1>13 DEF mm

\* The lines of a tick carry its number.
LEMMA LinesOfTheirTick ==
  ASSUME NEW s, NEW cw, NEW r \in BlockLines(s, cw)
  PROVE  r[1] = s
BY DEF BlockLines, NoteLines, MoreLines, DetailLines

OrderKnown == \A s \in Rows : OrderOf(s)

LEMMA AllRowsLines ==
  ASSUME TypeOK, OrderKnown, NEW cw \in Widths, MaxRow \in 0 .. MaxSeq
  PROVE  /\ AllRows(cw) \in Seq(Line) /\ IsInjective(AllRows(cw))
         /\ Range(AllRows(cw)) = TableLines(cw)
<1> DEFINE blocks == [s \in 1 .. MaxRow |-> Block(s, cw)]
<1>1. MaxRow \in Nat /\ AllRows(cw) = FlattenSeq(blocks) /\ 1 .. MaxRow \subseteq Rows
  BY MaxSeqAssumption DEF AllRows, Rows
<1>2. /\ blocks \in [1 .. MaxRow -> Seq(Line)]
      /\ \A s \in 1 .. MaxRow : IsInjective(blocks[s]) /\ Range(blocks[s]) = BlockLines(s, cw)
  <2>1. \A s \in 1 .. MaxRow : reg[s] \in [Kind -> Length \cup {Absent}] /\ OrderOf(s)
    BY <1>1 DEF TypeOK, OrderKnown
  <2> QED BY <1>1, <2>1, BlockIsLines
<1> HIDE DEF blocks
<1>3. \A s, u \in 1 .. MaxRow : s # u => Range(blocks[s]) \cap Range(blocks[u]) = {}
  <2>1. \A s \in 1 .. MaxRow : \A r \in Range(blocks[s]) : r[1] = s
    BY <1>2, LinesOfTheirTick
  <2> QED BY <2>1
<1>4. /\ FlattenSeq(blocks) \in Seq(Line) /\ IsInjective(FlattenSeq(blocks))
      /\ Range(FlattenSeq(blocks)) = UNION {Range(blocks[s]) : s \in 1 .. MaxRow}
  BY <1>1, <1>2, <1>3, FlattenRows
<1>5. UNION {Range(blocks[s]) : s \in 1 .. MaxRow} = TableLines(cw)
  BY <1>2 DEF TableLines
<1> QED BY <1>1, <1>4, <1>5

-----------------------------------------------------------------------------
(* The inductive invariant *)

\* What each counter counts.
NoteSet      == {r \in Rows \X {"note"} \X Kind : reg[r[1]][r[3]] # Absent}
MoreSet(n)   == {r \in Rows \X {"more"} \X Kind : reg[r[1]][r[3]] = n}
DetailSet(h) == Marked(RowsWith(col[h], {"detailed"}), "detail", h)

Ticks     == Marked(1 .. MaxRow, "tick", 0)
Long(cw)  == {len \in Length : len > cw}
Mores(cw) == UNION {MoreSet(n) : n \in Long(cw)}
Details   == UNION {DetailSet(h) : h \in Hosts}

CountersExact ==
  /\ \A h \in Hosts : Consistent(col[h])
  /\ nnoterows = Cardinality(NoteSet)
  /\ \A n \in Length : nlh[n] = Cardinality(MoreSet(n))

\* The table reaches down to the last note, as every column knows its own.
NotesReached ==
  /\ \A h \in Hosts, s \in Rows, k \in Kind : note[h][s][k] # Absent => s <= col[h].lastSeq
  /\ \A s \in Rows, k \in Kind : reg[s][k] # Absent => \E h \in Hosts : s <= col[h].lastSeq

\* Notes that take the whole row are registered without a length.
WholeRowsFlat == \A s \in Rows, k \in Kind \cap WholeRow : reg[s][k] \in {Absent, 0}

\* What _handle_key goes by is what the last draw left.
ViewKnown ==
  /\ drawn \in Seq(Line)
  /\ IF drawn = << >> THEN MaxOff = 0 ELSE total = Len(drawn)
  /\ scroll <= MaxOff

CountInv == TypeOK /\ CountersExact /\ NotesReached /\ WholeRowsFlat /\ OrderKnown
IInv     == CountInv /\ ViewKnown

\* The rows of the table reach from the first to the last of any column.
LEMMA MaxRowFacts ==
  ASSUME TypeOK
  PROVE  /\ MaxRow \in 0 .. MaxSeq
         /\ \A h \in Hosts : col[h].lastSeq <= MaxRow
<1> DEFINE S == {seq} \cup {col[h].lastSeq : h \in Hosts}
<1>1. S \subseteq 0 .. MaxSeq /\ S # {}
  BY DEF TypeOK, Column
<1>2. MaxSeq \in Nat
  BY MaxSeqAssumption
<1>3. Max(S) \in S /\ \A y \in S : Max(S) >= y
  BY <1>1, <1>2, MaxOf
<1>4. \A y \in S : y \in Int
  BY <1>1
<1>5. MaxRow = Max(S)
  BY DEF MaxRow
<1>6. \A h \in Hosts : col[h].lastSeq \in S
  OBVIOUS
<1> HIDE DEF S
<1> QED BY <1>1, <1>3, <1>4, <1>5, <1>6

\* Every line of the table is one of those that are counted, and the other way
\* round.
LEMMA LinesCounted ==
  ASSUME CountInv, NEW cw \in Widths
  PROVE  TableLines(cw) = Ticks \cup NoteSet \cup Mores(cw) \cup Details
<1>1. MaxRow \in 0 .. MaxSeq /\ 1 .. MaxRow \subseteq Rows /\ MaxSeq \in Nat
  BY MaxRowFacts, MaxSeqAssumption DEF CountInv, Rows
<1>2. \A s \in Rows : reg[s] \in [Kind -> Length \cup {Absent}]
  BY DEF CountInv, TypeOK
<1>3. cw \in Nat \ {0}
  BY TableAssumption
<1>4. ASSUME NEW s \in Rows, NEW i \in Kind, reg[s][i] # Absent
      PROVE  s \in 1 .. MaxRow
  <2>1. PICK h \in Hosts : s <= col[h].lastSeq
    BY <1>4, KindsFacts DEF CountInv, NotesReached
  <2>2. col[h].lastSeq <= MaxRow /\ col[h].lastSeq \in Int
    BY MaxRowFacts DEF CountInv, TypeOK, Column
  <2> QED BY <1>1, <2>1, <2>2 DEF Rows
<1>5. ASSUME NEW s \in Rows, NEW h \in Hosts, col[h].ping[s] = "detailed"
      PROVE  s \in 1 .. MaxRow
  <2>1. Consistent(col[h]) /\ col[h] \in Column
    BY DEF CountInv, CountersExact, TypeOK
  <2>2. s <= col[h].lastPing /\ col[h].lastPing <= col[h].lastSeq
    BY <1>5, <2>1 DEF Consistent
  <2>3. col[h].lastSeq <= MaxRow
    BY MaxRowFacts DEF CountInv
  <2> QED BY <1>1, <2>1, <2>2, <2>3 DEF Rows, Column
<1>6. ASSUME NEW s \in Rows, NEW i \in Kind
      PROVE  /\ reg[s][i] > cw => i \notin WholeRow /\ reg[s][i] # Absent
             /\ reg[s][i] > cw <=> reg[s][i] \in Long(cw)
  <2>2. reg[s][i] \in Length \cup {Absent}
    BY <1>2
  <2>3. i \in WholeRow => reg[s][i] \in {Absent, 0}
    BY DEF CountInv, WholeRowsFlat
  <2>4. ~ (Absent > cw) /\ ~ (0 > cw)
    BY <1>3 DEF Absent
  <2> QED BY <2>2, <2>3, <2>4 DEF Long
<1>7. TableLines(cw) \subseteq Ticks \cup NoteSet \cup Mores(cw) \cup Details
  <2> SUFFICES ASSUME NEW s \in 1 .. MaxRow, NEW r \in BlockLines(s, cw)
               PROVE  r \in Ticks \cup NoteSet \cup Mores(cw) \cup Details
    BY DEF TableLines
  <2>1. s \in Rows
    BY <1>1
  <2>2. CASE r \in NoteLines(s)
    BY <2>1, <2>2 DEF NoteLines, NoteSet
  <2>3. CASE r \in MoreLines(s, cw)
    <3>1. PICK k \in SharedKind : r = <<s, "more", k>> /\ reg[s][k] > cw
      BY <2>3 DEF MoreLines
    <3>2. k \in Kind /\ reg[s][k] \in Long(cw)
      BY <1>6, <2>1, <3>1 DEF Kind
    <3>3. r \in MoreSet(reg[s][k])
      BY <2>1, <3>1, <3>2 DEF MoreSet
    <3> QED BY <3>2, <3>3 DEF Mores
  <2>4. CASE r \in DetailLines(s)
    BY <2>1, <2>4 DEF DetailLines, DetailSet, RowsWith, Details, Marked
  <2> QED BY <2>2, <2>3, <2>4 DEF BlockLines, Ticks, Marked
<1>8. Ticks \subseteq TableLines(cw)
  BY DEF BlockLines, TableLines, Ticks, Marked
<1>9. NoteSet \subseteq TableLines(cw)
  BY <1>4 DEF TableLines, NoteSet, NoteLines, BlockLines
<1>10. Mores(cw) \subseteq TableLines(cw)
  <2> SUFFICES ASSUME NEW n \in Long(cw), NEW r \in MoreSet(n)
               PROVE  r \in TableLines(cw)
    BY DEF Mores
  <2>1. PICK s \in Rows, i \in Kind : r = <<s, "more", i>> /\ reg[s][i] = n
    BY DEF MoreSet
  <2>2. reg[s][i] > cw
    BY <2>1 DEF Long
  <2>3. s \in 1 .. MaxRow /\ r \in MoreLines(s, cw)
    <3>1. i \in SharedKind /\ reg[s][i] # Absent
      BY <1>6, <2>1, <2>2 DEF Kind
    <3> QED BY <1>4, <2>1, <2>2, <3>1 DEF MoreLines
  <2> QED BY <2>3 DEF BlockLines, TableLines
<1>11. Details \subseteq TableLines(cw)
  BY <1>5 DEF TableLines, Details, DetailSet, DetailLines, BlockLines, RowsWith, Marked
<1> QED BY <1>7, <1>8, <1>9, <1>10, <1>11

\* There are finitely many places for the note rows of the table.
LEMMA PlacesFinite ==
  ASSUME NEW tag
  PROVE  IsFiniteSet(Rows \X {tag} \X Kind)
<1> DEFINE f == [p \in Rows \X Kind |-> <<p[1], tag, p[2]>>]
<1>1. IsFiniteSet(Rows) /\ IsFiniteSet(Kind)
  BY FS_Interval, MaxSeqAssumption, KindsFacts DEF Rows
<1>2. f \in Surjection(Rows \X Kind, Rows \X {tag} \X Kind)
  <2>1. \A p \in Rows \X Kind : f[p] \in Rows \X {tag} \X Kind
    OBVIOUS
  <2>2. ASSUME NEW r \in Rows \X {tag} \X Kind
        PROVE  \E p \in Rows \X Kind : f[p] = r
    <3>1. <<r[1], r[3]>> \in Rows \X Kind /\ f[<<r[1], r[3]>>] = r
      OBVIOUS
    <3> QED BY <3>1
  <2> HIDE DEF f
  <2>3. f \in [Rows \X Kind -> Rows \X {tag} \X Kind]
    BY <2>1 DEF f
  <2> QED BY <2>2, <2>3 DEF Surjection
<1>3. IsFiniteSet(Rows \X Kind)
  BY <1>1, FS_Product
<1> HIDE DEF f
<1> QED BY <1>2, <1>3, FS_Surjection

LEMMA NoteSetFinite == IsFiniteSet(NoteSet) /\ \A n : IsFiniteSet(MoreSet(n))
<1>1. NoteSet \subseteq Rows \X {"note"} \X Kind
  BY DEF NoteSet
<1>2. \A n : MoreSet(n) \subseteq Rows \X {"more"} \X Kind
  BY DEF MoreSet
<1> QED BY <1>1, <1>2, PlacesFinite, FS_Subset

LEMMA TicksCounted ==
  ASSUME MaxRow \in Nat
  PROVE  IsFiniteSet(Ticks) /\ Cardinality(Ticks) = MaxRow
<1>1. IsFiniteSet(1 .. MaxRow) /\ Cardinality(1 .. MaxRow) = MaxRow
  BY FS_Interval
<1> QED BY <1>1, MarkedSize DEF Ticks

\* Every detail row is counted by its column.
LEMMA DetailsCounted ==
  ASSUME CountInv
  PROVE  /\ IsFiniteSet(Details)
         /\ SumFunction([h \in Hosts |-> col[h].neg]) = Cardinality(Details)
<1> DEFINE F == [h \in Hosts |-> DetailSet(h)]
           f == [h \in Hosts |-> col[h].neg]
<1>1. IsFiniteSet(Hosts)
  BY TableAssumption, FS_Interval DEF Hosts
<1>2. ASSUME NEW h \in Hosts
      PROVE  IsFiniteSet(DetailSet(h)) /\ col[h].neg = Cardinality(DetailSet(h))
  <2>1. Consistent(col[h])
    BY DEF CountInv, CountersExact
  <2>2. col[h].neg = Cardinality(RowsWith(col[h], {"detailed"}))
    BY <2>1 DEF Consistent
  <2> QED BY <2>2, RowsFinite, MarkedSize DEF DetailSet
<1>3. \A h, g \in Hosts : h # g => DetailSet(h) \cap DetailSet(g) = {}
  BY DEF DetailSet, Marked
<1>4. /\ \A h \in Hosts : IsFiniteSet(F[h]) /\ f[h] = Cardinality(F[h])
      /\ \A h, g \in Hosts : h # g => F[h] \cap F[g] = {}
  BY <1>2, <1>3
<1>5. UNION {F[h] : h \in Hosts} = Details
  BY DEF Details
<1>6. SumFunction(f) = SumFunctionOnSet(f, Hosts)
  BY DEF SumFunction
<1> HIDE DEF F, f
<1>7. /\ IsFiniteSet(UNION {F[h] : h \in Hosts})
      /\ SumFunctionOnSet(f, Hosts) = Cardinality(UNION {F[h] : h \in Hosts})
  BY <1>1, <1>4, SumOfSizes
<1>8. IsFiniteSet(Details) /\ SumFunction(f) = Cardinality(Details)
  BY <1>5, <1>6, <1>7
<1> QED BY <1>8 DEF f

\* Every continuation is counted by the length of its note.
LEMMA MoresCounted ==
  ASSUME CountInv, NEW cw \in Widths
  PROVE  /\ IsFiniteSet(Mores(cw))
         /\ SumFunctionOnSet(nlh, Long(cw)) = Cardinality(Mores(cw))
<1> DEFINE F == [n \in Long(cw) |-> MoreSet(n)]
<1>1. IsFiniteSet(Long(cw)) /\ Long(cw) \subseteq Length
  <2>1. IsFiniteSet(Length)
    BY TableAssumption, FS_AddElement DEF Length
  <2> QED BY <2>1, FS_Subset DEF Long
<1>2. \A n \in Long(cw) : IsFiniteSet(F[n]) /\ nlh[n] = Cardinality(F[n])
  BY <1>1, NoteSetFinite DEF CountInv, CountersExact
<1>3. \A n, m \in Long(cw) : n # m => F[n] \cap F[m] = {}
  BY DEF MoreSet
<1>4. UNION {F[n] : n \in Long(cw)} = Mores(cw)
  BY DEF Mores
<1> HIDE DEF F
<1>5. /\ IsFiniteSet(UNION {F[n] : n \in Long(cw)})
      /\ SumFunctionOnSet(nlh, Long(cw)) = Cardinality(UNION {F[n] : n \in Long(cw)})
  BY <1>1, <1>2, <1>3, SumOfSizes
<1> QED BY <1>4, <1>5

\* The number of rows the counters yield is the number of rows there are.
LEMMA TotalCounts ==
  ASSUME CountInv, NEW cw \in Widths
  PROVE  Total(cw) = Len(AllRows(cw)) /\ AllRows(cw) \in Seq(Line)
<1>1. TypeOK /\ OrderKnown /\ MaxRow \in 0 .. MaxSeq /\ MaxRow \in Nat
  BY MaxRowFacts DEF CountInv
<1>2. /\ AllRows(cw) \in Seq(Line) /\ IsInjective(AllRows(cw))
      /\ Range(AllRows(cw)) = TableLines(cw)
  BY <1>1, AllRowsLines
<1>3. Len(AllRows(cw)) = Cardinality(TableLines(cw))
  BY <1>2, LenIsCardinality
<1>4. /\ IsFiniteSet(Ticks) /\ IsFiniteSet(NoteSet)
      /\ IsFiniteSet(Mores(cw)) /\ IsFiniteSet(Details)
  BY <1>1, TicksCounted, NoteSetFinite, MoresCounted, DetailsCounted
<1>5. /\ \A r \in Ticks : r[2] = "tick"
      /\ \A r \in NoteSet : r[2] = "note"
      /\ \A r \in Mores(cw) : r[2] = "more"
      /\ \A r \in Details : r[2] = "detail"
  BY DEF Ticks, NoteSet, Mores, MoreSet, Details, DetailSet, Marked
<1>6. /\ IsFiniteSet(Ticks \cup NoteSet)
      /\ Cardinality(Ticks \cup NoteSet) = Cardinality(Ticks) + Cardinality(NoteSet)
  <2>1. Ticks \cap NoteSet = {}
    BY <1>5
  <2> QED BY <1>4, <2>1, DisjointSize
<1>7. /\ IsFiniteSet(Ticks \cup NoteSet \cup Mores(cw))
      /\ Cardinality(Ticks \cup NoteSet \cup Mores(cw))
           = Cardinality(Ticks \cup NoteSet) + Cardinality(Mores(cw))
  <2>1. (Ticks \cup NoteSet) \cap Mores(cw) = {}
    BY <1>5
  <2> QED BY <1>4, <1>6, <2>1, DisjointSize
<1>8. Cardinality(Ticks \cup NoteSet \cup Mores(cw) \cup Details)
        = Cardinality(Ticks \cup NoteSet \cup Mores(cw)) + Cardinality(Details)
  <2>1. (Ticks \cup NoteSet \cup Mores(cw)) \cap Details = {}
    BY <1>5
  <2> QED BY <1>4, <1>7, <2>1, DisjointSize
<1>9. /\ Cardinality(Ticks) = MaxRow
      /\ Cardinality(NoteSet) = nnoterows
      /\ Cardinality(Mores(cw)) = SumFunctionOnSet(nlh, Long(cw))
      /\ Cardinality(Details) = SumFunction([h \in Hosts |-> col[h].neg])
  BY <1>1, TicksCounted, MoresCounted, DetailsCounted DEF CountInv, CountersExact
<1>10. /\ Cardinality(Ticks) \in Nat /\ Cardinality(NoteSet) \in Nat
       /\ Cardinality(Mores(cw)) \in Nat /\ Cardinality(Details) \in Nat
  BY <1>4, FS_CardinalityType
<1>11. TableLines(cw) = Ticks \cup NoteSet \cup Mores(cw) \cup Details
  BY LinesCounted
<1>12. Total(cw) = Cardinality(Ticks) + Cardinality(Details) + Cardinality(NoteSet)
                     + Cardinality(Mores(cw))
  BY <1>9 DEF Total, Long
<1> QED BY <1>2, <1>3, <1>6, <1>7, <1>8, <1>10, <1>11, <1>12

-----------------------------------------------------------------------------
(* The invariant holds at first *)

LEMMA InitIInv == Init => IInv
<1> SUFFICES ASSUME Init PROVE IInv
  OBVIOUS
<1>1. TypeOK
  BY EmptyConsistent, MaxSeqAssumption DEF Init, TypeOK, Length
<1>2. NoteSet = {} /\ \A n \in Length : MoreSet(n) = {}
  <2>1. \A s \in Rows, k \in Kind : reg[s][k] = Absent
    BY DEF Init
  <2>2. Absent \notin Length
    BY TableAssumption DEF Absent, Length
  <2> QED BY <2>1, <2>2 DEF NoteSet, MoreSet
<1>3. CountersExact
  BY <1>2, EmptyConsistent, FS_EmptySet DEF Init, CountersExact
<1>4. NotesReached /\ WholeRowsFlat
  BY DEF Init, NotesReached, WholeRowsFlat
<1>6. OrderKnown
  <2>1. \A s \in Rows, k \in Kind : reg[s][k] = Absent
    BY DEF Init
  <2>2. \A s \in Rows : order[s] = << >>
    BY DEF Init
  <2>3. << >> \in Seq(WholeRow) /\ DOMAIN << >> = {}
    OBVIOUS
  <2> QED BY <2>1, <2>2, <2>3 DEF OrderKnown, OrderOf, Kind
<1>5. ViewKnown
  <2>1. total - nrows = 0 /\ scroll = 0 /\ drawn = << >> /\ << >> \in Seq(Line)
    BY DEF Init
  <2>2. MaxOff = 0
    BY <2>1, MaxOfTwo DEF MaxOff
  <2> QED BY <2>1, <2>2 DEF ViewKnown
<1> QED BY <1>1, <1>3, <1>4, <1>5, <1>6 DEF IInv, CountInv

-----------------------------------------------------------------------------
(* ... and every step keeps it *)

\* What the view is bound by does not change when what it shows does.
LEMMA ViewKept ==
  ASSUME IInv, UNCHANGED view
  PROVE  ViewKnown'
BY DEF IInv, ViewKnown, view, MaxOff

\* The order of the err: kinds is known as long as the registry is not touched.
LEMMA OrderKept ==
  ASSUME OrderKnown, UNCHANGED notes
  PROVE  OrderKnown'
<1>1. UNCHANGED <<reg, order>>
  BY DEF notes
<1> QED BY <1>1 DEF OrderKnown, OrderOf

\* The registry is counted as long as it is not touched.
LEMMA RegistryKept ==
  ASSUME CountersExact, UNCHANGED notes
  PROVE  nnoterows' = Cardinality(NoteSet)' /\ \A n \in Length : nlh'[n] = Cardinality(MoreSet(n))'
<1>1. UNCHANGED <<reg, nlh, nnoterows>>
  BY DEF notes
<1>2. NoteSet' = NoteSet /\ \A n \in Length : MoreSet(n)' = MoreSet(n)
  BY <1>1 DEF NoteSet, MoreSet
<1> QED BY <1>1, <1>2 DEF CountersExact

LEMMA GridTickStep ==
  ASSUME IInv, GridTick
  PROVE  IInv'
<1>1. TypeOK'
  BY MaxSeqAssumption DEF IInv, CountInv, TypeOK, GridTick, notes, view
<1>2. UNCHANGED <<col, notes, view, reg, note>>
  BY DEF GridTick, notes
<1>3. CountersExact'
  BY <1>2, RegistryKept DEF IInv, CountInv, CountersExact
<1>4. NotesReached' /\ WholeRowsFlat'
  BY <1>2 DEF IInv, CountInv, NotesReached, WholeRowsFlat
<1>5. OrderKnown'
  BY <1>2, OrderKept DEF IInv, CountInv
<1> QED BY <1>1, <1>2, <1>3, <1>4, <1>5, ViewKept DEF IInv, CountInv

\* A column that stays consistent and does not become shorter.
LEMMA ColumnStep ==
  ASSUME IInv, NEW h \in Hosts, NEW c \in Column, Consistent(c),
         c.lastSeq >= col[h].lastSeq, col' = [col EXCEPT ![h] = c],
         UNCHANGED <<seq, notes, view>>
  PROVE  IInv'
<1>1. TypeOK'
  BY DEF IInv, CountInv, TypeOK, notes, view
<1>2. col' \in [Hosts -> Column] /\ col'[h] = c /\ \A g \in Hosts \ {h} : col'[g] = col[g]
  BY DEF IInv, CountInv, TypeOK
<1>3. CountersExact'
  <2>1. \A g \in Hosts : Consistent(col'[g])
    BY <1>2 DEF IInv, CountInv, CountersExact
  <2> QED BY <2>1, RegistryKept DEF IInv, CountInv, CountersExact
<1>4. \A g \in Hosts : /\ col'[g].lastSeq >= col[g].lastSeq
                       /\ col'[g].lastSeq \in Int /\ col[g].lastSeq \in Int
  BY <1>2 DEF IInv, CountInv, TypeOK, Column
<1>5. NotesReached'
  <2>1. UNCHANGED <<reg, note>>
    BY DEF notes
  <2>2. Rows \subseteq Int
    BY DEF Rows
  <2>3. ASSUME NEW g \in Hosts, NEW s \in Rows, s <= col[g].lastSeq
        PROVE  s <= col'[g].lastSeq
    BY <1>4, <2>2, <2>3
  <2> QED BY <2>1, <2>3 DEF IInv, CountInv, NotesReached
<1>6. WholeRowsFlat'
  BY DEF IInv, CountInv, WholeRowsFlat, notes
<1>7. OrderKnown'
  BY OrderKept DEF IInv, CountInv
<1> QED BY <1>1, <1>3, <1>5, <1>6, <1>7, ViewKept DEF IInv, CountInv

LEMMA PingSentStep ==
  ASSUME IInv, NEW h \in Hosts, NEW s \in Rows, PingSent(h, s)
  PROVE  IInv'
<1> DEFINE c == Add(col[h], s)
<1>1. col[h] \in Column /\ Consistent(col[h]) /\ col[h].ping[s] = "none"
  BY DEF IInv, CountInv, TypeOK, CountersExact, PingSent
<1>2. c \in Column /\ Consistent(c)
  BY <1>1, AddColumn, AddConsistent
<1>3. c.lastSeq >= col[h].lastSeq
  <2>1. c.lastSeq = Higher(col[h].lastSeq, s)
    BY <1>1 DEF Add, Column
  <2>2. col[h].lastSeq \in Int /\ s \in Int
    BY <1>1 DEF Column, Rows
  <2> QED BY <2>1, <2>2 DEF Higher
<1>4. col' = [col EXCEPT ![h] = c] /\ UNCHANGED <<seq, notes, view>>
  BY DEF PingSent
<1> HIDE DEF c
<1> QED BY <1>2, <1>3, <1>4, ColumnStep

LEMMA PingDoneStep ==
  ASSUME IInv, NEW h \in Hosts, NEW s \in Rows, NEW res \in Results, PingDone(h, s, res)
  PROVE  IInv'
<1> DEFINE c == Resolve(col[h], s, res)
<1>1. /\ col[h] \in Column /\ Consistent(col[h]) /\ col[h].ping[s] = "pending"
      /\ res \in Outcome
  BY TableAssumption DEF IInv, CountInv, TypeOK, CountersExact, PingDone
<1>2. c \in Column /\ Consistent(c)
  BY <1>1, ResolveColumn, ResolveConsistent
<1>3. c.lastSeq >= col[h].lastSeq
  <2>1. c.lastSeq = col[h].lastSeq /\ col[h].lastSeq \in Int
    BY <1>1 DEF Resolve, Column
  <2> QED BY <2>1
<1>4. col' = [col EXCEPT ![h] = c] /\ UNCHANGED <<seq, notes, view>>
  BY DEF PingDone
<1> HIDE DEF c
<1> QED BY <1>2, <1>3, <1>4, ColumnStep

\* A note changes the registry in one place at most, and there to a greater
\* length: the counters follow.
LEMMA RegistryStep ==
  ASSUME IInv, NEW h \in Hosts, NEW s \in Rows, NEW k \in Kind, NEW len \in Lengths,
         SetNote(h, s, k, len), reg' # reg
  PROVE  /\ nlh' \in [Length -> Nat]
         /\ \A m \in Length : nlh'[m] = Cardinality(MoreSet(m))'
<1> DEFINE n == IF k \in WholeRow THEN 0 ELSE len
           old == reg[s][k]
<1>1. /\ n \in Length /\ n > old /\ old \in Length \cup {Absent}
      /\ reg' = [reg EXCEPT ![s][k] = n] /\ nlh' = Count(old, n)
  BY DEF SetNote, IInv, CountInv, TypeOK, Length
<1> DEFINE r == <<s, "more", k>>
<1> HIDE DEF n, old
<1>3. n # old /\ Length \subseteq Nat /\ Absent \notin Length
  <2>1. Length \subseteq Nat /\ Absent \notin Length
    BY TableAssumption DEF Length, Absent
  <2> QED BY <1>1, <2>1 DEF Absent
<1>4. /\ reg'[s][k] = n
      /\ \A u \in Rows, j \in Kind : u # s \/ j # k => reg'[u][j] = reg[u][j]
  BY <1>1 DEF IInv, CountInv, TypeOK
<1>6. reg[s][k] = old /\ reg'[s][k] = n
  BY <1>4 DEF old
<1>7. r \in Rows \X {"more"} \X Kind
  OBVIOUS
<1>8. ASSUME NEW m \in Length
      PROVE  MoreSet(m)' = IF m = n THEN MoreSet(m) \cup {r}
                           ELSE IF m = old THEN MoreSet(m) \ {r} ELSE MoreSet(m)
  <2>1. \A q \in Rows \X {"more"} \X Kind :
          q # r => reg'[q[1]][q[3]] = reg[q[1]][q[3]]
    BY <1>4
  <2>2. \A q \in Rows \X {"more"} \X Kind : q # r => (q \in MoreSet(m)' <=> q \in MoreSet(m))
    BY <2>1 DEF MoreSet
  <2>3. (r \in MoreSet(m)' <=> m = n) /\ (r \in MoreSet(m) <=> m = old)
    BY <1>6, <1>7 DEF MoreSet
  <2>4. MoreSet(m) \subseteq Rows \X {"more"} \X Kind /\ MoreSet(m)' \subseteq Rows \X {"more"} \X Kind
    BY DEF MoreSet
  <2> HIDE DEF r
  <2>5. CASE m = n
    BY <1>3, <1>7, <2>2, <2>3, <2>4, <2>5
  <2>6. CASE m # n
    BY <1>3, <1>7, <2>2, <2>3, <2>4, <2>6
  <2> QED BY <2>5, <2>6
<1>9. \A m \in Length : r \in MoreSet(m) <=> m = old
  BY <1>6, <1>7 DEF MoreSet
<1>10. \A m \in Length : /\ IsFiniteSet(MoreSet(m)) /\ Cardinality(MoreSet(m)) \in Nat
                        /\ nlh[m] = Cardinality(MoreSet(m))
  BY NoteSetFinite, FS_CardinalityType DEF IInv, CountInv, CountersExact
<1>11. ASSUME NEW m \in Length
       PROVE  nlh'[m] = Cardinality(MoreSet(m))' /\ nlh'[m] \in Nat
  <2>1. nlh'[m] = nlh[m] + One(n = m) - One(old = m)
    BY <1>1 DEF Count
  <2> HIDE DEF r
  <2>2. CASE m = n
    <3>1. nlh'[m] = nlh[m] + 1
      BY <1>3, <1>10, <2>1, <2>2 DEF One
    <3>2. r \notin MoreSet(m)
      BY <1>3, <1>9, <2>2
    <3>3. Cardinality(MoreSet(m) \cup {r}) = Cardinality(MoreSet(m)) + 1
      BY <1>10, <3>2, FS_AddElement
    <3>4. MoreSet(m)' = MoreSet(m) \cup {r}
      BY <1>8, <2>2
    <3> QED BY <1>10, <3>1, <3>3, <3>4
  <2>3. CASE m # n /\ m = old
    <3>1. nlh'[m] = nlh[m] - 1
      BY <1>3, <1>10, <2>1, <2>3 DEF One
    <3>2. r \in MoreSet(m)
      BY <1>9, <2>3
    <3>3. Cardinality(MoreSet(m) \ {r}) = Cardinality(MoreSet(m)) - 1
      BY <1>10, <3>2, FS_RemoveElement
    <3>4. MoreSet(m)' = MoreSet(m) \ {r}
      BY <1>8, <2>3
    <3>5. IsFiniteSet(MoreSet(m) \ {r})
      BY <1>10, FS_RemoveElement
    <3>6. Cardinality(MoreSet(m) \ {r}) \in Nat
      BY <3>5, FS_CardinalityType
    <3> QED BY <1>10, <3>1, <3>3, <3>4, <3>6
  <2>4. CASE m # n /\ m # old
    <3>1. nlh'[m] = nlh[m]
      BY <1>10, <2>1, <2>4 DEF One
    <3> QED BY <1>8, <1>10, <2>4, <3>1
  <2> QED BY <2>2, <2>3, <2>4
<1>12. nlh' = [m \in Length |-> nlh'[m]]
  BY <1>1 DEF Count
<1> QED BY <1>11, <1>12

\* One row of a kind is shared by all columns: it is counted when it appears.
LEMMA NoteRowCounted ==
  ASSUME IInv, NEW h \in Hosts, NEW s \in Rows, NEW k \in Kind, NEW len \in Lengths,
         SetNote(h, s, k, len)
  PROVE  nnoterows' \in Nat /\ nnoterows' = Cardinality(NoteSet)'
<1> DEFINE n == IF k \in WholeRow THEN 0 ELSE len
<1>1. n \in Length /\ n > Absent /\ n # Absent
  BY TableAssumption DEF Length, Absent
<1> DEFINE r == <<s, "note", k>>
<1>3. reg \in [Rows -> [Kind -> Length \cup {Absent}]]
  BY DEF IInv, CountInv, TypeOK
<1>4. IsFiniteSet(NoteSet) /\ Cardinality(NoteSet) \in Nat /\ nnoterows = Cardinality(NoteSet)
  BY NoteSetFinite, FS_CardinalityType DEF IInv, CountInv, CountersExact
<1>5. CASE NewRow(h, s, k)
  <2>1. reg' = [reg EXCEPT ![s][k] = n] /\ nnoterows' = nnoterows + 1
    BY <1>1, <1>4, <1>5 DEF SetNote, NewRow, One
  <2>2. r \in NoteSet' /\ r \notin NoteSet
    BY <1>1, <1>3, <1>5, <2>1 DEF NoteSet, NewRow
  <2>3. ASSUME NEW q \in Rows \X {"note"} \X Kind, q # r
        PROVE  reg'[q[1]][q[3]] = reg[q[1]][q[3]]
    <3>1. q[1] # s \/ q[3] # k
      BY <2>3
    <3> QED BY <1>3, <2>1, <3>1
  <2>4. NoteSet' = NoteSet \cup {r}
    BY <2>2, <2>3 DEF NoteSet
  <2>5. Cardinality(NoteSet \cup {r}) = Cardinality(NoteSet) + 1
    BY <1>4, <2>2, FS_AddElement
  <2> QED BY <1>4, <2>1, <2>4, <2>5
<1>6. CASE ~ NewRow(h, s, k)
  <2>1. nnoterows' = nnoterows /\ reg[s][k] # Absent
    BY <1>4, <1>6 DEF SetNote, NewRow, One
  <2>2. \A u \in Rows, j \in Kind : reg'[u][j] = Absent <=> reg[u][j] = Absent
    <3>1. reg' = reg \/ reg' = [reg EXCEPT ![s][k] = n]
      BY DEF SetNote
    <3> QED BY <1>1, <1>3, <2>1, <3>1
  <2>3. NoteSet' = NoteSet
    BY <1>3, <2>2 DEF NoteSet
  <2> QED BY <1>4, <2>1, <2>3
<1> QED BY <1>5, <1>6

LEMMA SetNoteStep ==
  ASSUME IInv, NEW h \in Hosts, NEW s \in Rows, NEW k \in Kind, NEW len \in Lengths,
         SetNote(h, s, k, len)
  PROVE  IInv'
<1> DEFINE n == IF k \in WholeRow THEN 0 ELSE len
<1>1. n \in Length /\ (k \in WholeRow => n = 0) /\ n # Absent /\ Rows \subseteq Int
  BY TableAssumption DEF Length, Absent, Rows
<1>2. /\ reg \in [Rows -> [Kind -> Length \cup {Absent}]]
      /\ note \in [Hosts -> [Rows -> [Kind -> Length \cup {Absent}]]]
      /\ col \in [Hosts -> Column]
  BY DEF IInv, CountInv, TypeOK
<1>3. /\ note' = [note EXCEPT ![h][s][k] = n]
      /\ reg' = reg \/ reg' = [reg EXCEPT ![s][k] = n]
      /\ reg' = reg => nlh' = nlh
      /\ UNCHANGED <<seq, view>>
  <2>1. reg' = [reg EXCEPT ![s][k] = n] => reg'[s][k] = n
    BY <1>2
  <2>2. n > reg[s][k] => n # reg[s][k]
    <3>1. reg[s][k] \in Length \cup {Absent} /\ \A m \in Length \cup {Absent} : m \in Int
      BY <1>2, TableAssumption DEF Length, Absent
    <3> HIDE DEF n
    <3> QED BY <1>1, <3>1
  <2> QED BY <2>1, <2>2 DEF SetNote
<1> HIDE DEF n
<1>4. /\ reg' \in [Rows -> [Kind -> Length \cup {Absent}]]
      /\ note' \in [Hosts -> [Rows -> [Kind -> Length \cup {Absent}]]]
  <2>1. reg' \in [Rows -> [Kind -> Length \cup {Absent}]]
    <3>1. CASE reg' = reg
      BY <1>2, <3>1
    <3>2. CASE reg' = [reg EXCEPT ![s][k] = n]
      <4>1. [reg[s] EXCEPT ![k] = n] \in [Kind -> Length \cup {Absent}]
        BY <1>1, <1>2
      <4>2. reg' = [reg EXCEPT ![s] = [reg[s] EXCEPT ![k] = n]]
        BY <3>2
      <4> QED BY <1>2, <4>1, <4>2
    <3> QED BY <1>3, <3>1, <3>2
  <2>2. [note[h] EXCEPT ![s][k] = n] \in [Rows -> [Kind -> Length \cup {Absent}]]
    BY <1>1, <1>2
  <2>3. note' = [note EXCEPT ![h] = [note[h] EXCEPT ![s][k] = n]]
    BY <1>3
  <2> QED BY <1>2, <2>1, <2>2, <2>3
<1>5. /\ nlh' \in [Length -> Nat]
      /\ \A m \in Length : nlh'[m] = Cardinality(MoreSet(m))'
  <2>1. CASE reg' # reg
    BY <2>1, RegistryStep
  <2>2. CASE reg' = reg
    <3>1. \A m \in Length : MoreSet(m)' = MoreSet(m)
      BY <2>2 DEF MoreSet
    <3> QED BY <1>3, <2>2, <3>1 DEF IInv, CountInv, TypeOK, CountersExact
  <2> QED BY <2>1, <2>2
<1>6. nnoterows' \in Nat /\ nnoterows' = Cardinality(NoteSet)'
  BY NoteRowCounted
<1>7. /\ col' \in [Hosts -> Column]
      /\ \A g \in Hosts : Consistent(col'[g]) /\ col'[g].lastSeq >= col[g].lastSeq
      /\ s <= col'[h].lastSeq
  <2>1. \A g \in Hosts : /\ col[g] \in Column /\ Consistent(col[g])
                        /\ col[g].lastSeq \in Int /\ col[g].lastSeq >= col[g].lastSeq
    BY <1>2 DEF IInv, CountInv, CountersExact, Column
  <2>2. CASE note[h][s][k] # Absent
    <3>1. col' = col
      BY <2>2 DEF SetNote
    <3>2. s <= col[h].lastSeq
      BY <2>2 DEF IInv, CountInv, NotesReached
    <3> QED BY <1>2, <2>1, <3>1, <3>2
  <2>3. CASE note[h][s][k] = Absent
    <3> DEFINE c == NoteRow(col[h], s)
    <3>1. c \in Column /\ Consistent(c)
      BY <2>1, NoteRowConsistent
    <3>2. c.lastSeq = Higher(col[h].lastSeq, s)
      BY <2>1 DEF NoteRow, Column
    <3>3. c.lastSeq >= col[h].lastSeq /\ s <= c.lastSeq
      BY <1>1, <2>1, <3>2 DEF Higher
    <3>4. col' = [col EXCEPT ![h] = c]
      BY <2>3 DEF SetNote
    <3> HIDE DEF c
    <3> QED BY <1>2, <2>1, <3>1, <3>3, <3>4
  <2> QED BY <2>2, <2>3
<1>12. /\ order \in [Rows -> Seq(WholeRow)]
       /\ order' = IF reg[s][k] = Absent /\ k \in WholeRow
                   THEN [order EXCEPT ![s] = Append(@, k)] ELSE order
  BY DEF IInv, CountInv, TypeOK, SetNote
<1>13. order' \in [Rows -> Seq(WholeRow)]
  <2>1. k \in WholeRow => Append(order[s], k) \in Seq(WholeRow)
    BY <1>12
  <2> QED BY <1>12, <2>1
<1>14. OrderKnown'
  <2> SUFFICES ASSUME NEW u \in Rows PROVE OrderOf(u)'
    BY DEF OrderKnown
  <2>1. OrderOf(u)
    BY DEF IInv, CountInv, OrderKnown
  <2>2. \A j \in Kind : u # s \/ j # k => reg'[u][j] = reg[u][j]
    BY <1>2, <1>3
  <2>3. WholeRow \subseteq Kind
    BY DEF Kind
  <2>4. reg[s][k] = Absent => reg'[s][k] # Absent
    <3>1. n > Absent
      BY <1>1, TableAssumption DEF Absent, Length
    <3>2. reg[s][k] = Absent => reg' = [reg EXCEPT ![s][k] = n]
      BY <3>1 DEF SetNote, n
    <3> QED BY <1>1, <1>2, <3>2
  <2>5. reg[s][k] # Absent => reg'[s][k] # Absent
    BY <1>1, <1>2, <1>3
  <2>6. CASE u = s /\ reg[s][k] = Absent /\ k \in WholeRow
    <3> DEFINE q == order[s]
               p == Append(q, k)
               m == Len(q)
    <3>1. q \in Seq(WholeRow) /\ order'[u] = p
      BY <1>12, <2>6
    <3>2. /\ p \in Seq(WholeRow) /\ m \in Nat /\ DOMAIN q = 1 .. m /\ DOMAIN p = 1 .. (m + 1)
          /\ p[m + 1] = k /\ \A i \in 1 .. m : p[i] = q[i]
      BY <2>6, <3>1
    <3>3. \A i \in 1 .. m : q[i] # k
      BY <2>1, <2>6, <3>2 DEF OrderOf
    <3>4. /\ \A i, j \in 1 .. m : q[i] = q[j] => i = j
          /\ \A g \in WholeRow : reg[s][g] # Absent <=> \E i \in 1 .. m : q[i] = g
      BY <2>1, <2>6, <3>2 DEF OrderOf
    <3> HIDE DEF p, q, m
    <3>5. 1 .. (m + 1) = 1 .. m \cup {m + 1} /\ m + 1 \notin 1 .. m
      BY <3>2
    <3>6. \A i, j \in DOMAIN p : p[i] = p[j] => i = j
      BY <3>2, <3>3, <3>4, <3>5
    <3>7. ASSUME NEW g \in WholeRow
          PROVE  reg'[s][g] # Absent <=> \E i \in DOMAIN p : p[i] = g
      <4>1. CASE g = k
        BY <2>4, <2>6, <3>2, <3>5, <4>1
      <4>2. CASE g # k
        <5>1. reg'[s][g] = reg[s][g]
          BY <2>2, <2>3, <2>6, <4>2
        <5> QED BY <3>2, <3>4, <3>5, <4>2, <5>1
      <4> QED BY <4>1, <4>2
    <3> QED BY <2>6, <3>1, <3>2, <3>6, <3>7 DEF OrderOf
  <2>7. CASE ~ (u = s /\ reg[s][k] = Absent /\ k \in WholeRow)
    <3>1. order'[u] = order[u]
      BY <1>12, <2>7
    <3>2. \A g \in WholeRow : reg'[u][g] # Absent <=> reg[u][g] # Absent
      BY <2>2, <2>3, <2>5, <2>7
    <3> QED BY <2>1, <3>1, <3>2 DEF OrderOf
  <2> QED BY <2>6, <2>7
<1>8. TypeOK'
  BY <1>3, <1>4, <1>5, <1>6, <1>7, <1>13 DEF IInv, CountInv, TypeOK, view
<1>9. CountersExact'
  BY <1>5, <1>6, <1>7 DEF CountersExact
<1>10. NotesReached'
  <2>1. \A g \in Hosts : col'[g].lastSeq \in Int /\ col[g].lastSeq \in Int
    BY <1>2, <1>7 DEF Column
  <2>2. ASSUME NEW g \in Hosts, NEW u \in Rows, u <= col[g].lastSeq
        PROVE  u <= col'[g].lastSeq
    BY <1>1, <1>7, <2>1, <2>2
  <2>3. ASSUME NEW g \in Hosts, NEW u \in Rows, NEW j \in Kind, note'[g][u][j] # Absent
        PROVE  u <= col'[g].lastSeq
    <3>1. CASE g = h /\ u = s /\ j = k
      BY <1>7, <3>1
    <3>2. CASE ~ (g = h /\ u = s /\ j = k)
      <4>1. note'[g][u][j] = note[g][u][j]
        BY <1>2, <1>3, <3>2
      <4> QED BY <2>2, <2>3, <4>1 DEF IInv, CountInv, NotesReached
    <3> QED BY <3>1, <3>2
  <2>4. ASSUME NEW u \in Rows, NEW j \in Kind, reg'[u][j] # Absent
        PROVE  \E g \in Hosts : u <= col'[g].lastSeq
    <3>1. CASE u = s /\ j = k
      BY <1>7, <3>1
    <3>2. CASE ~ (u = s /\ j = k)
      <4>1. reg'[u][j] = reg[u][j]
        BY <1>2, <1>3, <3>2
      <4> QED BY <2>2, <2>4, <4>1 DEF IInv, CountInv, NotesReached
    <3> QED BY <3>1, <3>2
  <2> QED BY <2>3, <2>4 DEF NotesReached
<1>11. WholeRowsFlat'
  <2>1. ASSUME NEW u \in Rows, NEW j \in Kind
        PROVE  reg'[u][j] = reg[u][j] \/ (j = k /\ reg'[u][j] = n)
    <3>1. CASE reg' = reg
      BY <3>1
    <3>2. CASE reg' = [reg EXCEPT ![s][k] = n]
      <4>1. CASE u = s /\ j = k
        BY <1>2, <3>2, <4>1
      <4>2. CASE u # s \/ j # k
        BY <1>2, <3>2, <4>2
      <4> QED BY <4>1, <4>2
    <3> QED BY <1>3, <3>1, <3>2
  <2> QED BY <1>1, <2>1 DEF IInv, CountInv, WholeRowsFlat
<1> QED BY <1>3, <1>8, <1>9, <1>10, <1>11, <1>14, ViewKept DEF IInv, CountInv

\* Nothing that is counted changes while the table is drawn or scrolled.
LEMMA CountsKept ==
  ASSUME IInv, UNCHANGED <<seq, col, notes>>, scroll' \in Nat, total' \in Nat,
         nrows' \in Nat \ {0}
  PROVE  CountInv'
<1>1. UNCHANGED <<seq, col, note, reg, order, nlh, nnoterows>>
  BY DEF notes
<1>2. TypeOK'
  BY <1>1 DEF IInv, CountInv, TypeOK
<1>3. CountersExact'
  BY <1>1, RegistryKept DEF IInv, CountInv, CountersExact
<1>4. OrderKnown'
  BY OrderKept DEF IInv, CountInv
<1> QED BY <1>1, <1>2, <1>3, <1>4 DEF IInv, CountInv, NotesReached, WholeRowsFlat

LEMMA DrawStep ==
  ASSUME IInv, NEW cw \in Widths, NEW size \in Heights, Draw(cw, size)
  PROVE  IInv'
<1> DEFINE grown == IF drawn = << >> THEN 0 ELSE Total(cw) - total
           off == Anchor(scroll, grown)
           top == Max({0, Total(cw) - size})
<1>1. size \in Nat \ {0} /\ scroll \in Nat /\ total \in Nat
  BY TableAssumption DEF IInv, CountInv, TypeOK
<1>2. Total(cw) = Len(AllRows(cw)) /\ AllRows(cw) \in Seq(Line) /\ Total(cw) \in Nat
  BY TotalCounts DEF IInv
<1>3. /\ total' = Total(cw) /\ nrows' = size /\ drawn' = AllRows(cw)
      /\ scroll' = Min({off, top}) /\ UNCHANGED <<seq, col, notes>>
  BY DEF Draw
<1>4. off \in Nat
  BY <1>1, <1>2 DEF Anchor
<1>5. top \in Nat /\ top = IF 0 >= Total(cw) - size THEN 0 ELSE Total(cw) - size
  BY <1>1, <1>2, MaxOfTwo
<1> HIDE DEF off, top
<1>6. scroll' \in Nat /\ scroll' <= top
  BY <1>3, <1>4, <1>5, MinOfTwo
<1>7. CountInv'
  BY <1>1, <1>2, <1>3, <1>6, CountsKept
<1>8. MaxOff' = top
  BY <1>3 DEF MaxOff, top
<1>9. ViewKnown'
  <2>1. CASE AllRows(cw) = << >>
    <3>1. Total(cw) = 0
      BY <1>2, <2>1
    <3>2. top = 0
      BY <1>1, <1>5, <3>1
    <3> QED BY <1>2, <1>3, <1>6, <1>8, <2>1, <3>2 DEF ViewKnown
  <2>2. CASE AllRows(cw) # << >>
    BY <1>2, <1>3, <1>6, <1>8, <2>2 DEF ViewKnown
  <2> QED BY <2>1, <2>2
<1> QED BY <1>7, <1>9 DEF IInv

LEMMA KeyStep ==
  ASSUME IInv, Key
  PROVE  IInv'
<1>1. nrows \in Nat \ {0} /\ total \in Nat /\ scroll \in Nat /\ scroll <= MaxOff
  BY DEF IInv, CountInv, TypeOK, ViewKnown
<1>2. MaxOff \in Nat
  BY <1>1, MaxOfTwo DEF MaxOff
<1>3. PICK off : ScrollTo(off) /\ off \in Nat /\ off <= MaxOff
  <2>1. ASSUME NEW by \in {1, nrows}
        PROVE  /\ Up(by) \in Nat /\ Up(by) <= MaxOff
               /\ Down(by) \in Nat /\ Down(by) <= MaxOff
    <3>1. by \in Nat \ {0}
      BY <1>1
    <3> QED BY <1>1, <1>2, <3>1, MinOfTwo, MaxOfTwo DEF Up, Down
  <2>2. CASE \E by \in {1, nrows} : ScrollTo(Up(by)) \/ ScrollTo(Down(by))
    BY <1>2, <2>1, <2>2
  <2>3. CASE ScrollTo(MaxOff) \/ ScrollTo(0)
    BY <1>2, <2>3
  <2> QED BY <2>2, <2>3 DEF Key
<1>4. scroll' = off /\ UNCHANGED <<seq, col, notes, total, nrows, drawn>>
  BY <1>3 DEF ScrollTo
<1>5. CountInv'
  BY <1>1, <1>3, <1>4, CountsKept
<1>6. MaxOff' = MaxOff
  BY <1>4 DEF MaxOff
<1> QED BY <1>3, <1>4, <1>5, <1>6 DEF IInv, ViewKnown

LEMMA NextIInv == IInv /\ [Next]_vars => IInv'
<1> SUFFICES ASSUME IInv, [Next]_vars PROVE IInv'
  OBVIOUS
<1>1. CASE UNCHANGED vars
  <2>1. UNCHANGED <<seq, col, note, reg, order, nlh, nnoterows, scroll, total, nrows, drawn>>
    BY <1>1 DEF vars, notes, view
  <2>2. UNCHANGED <<seq, col, notes, view>> /\ scroll' \in Nat /\ total' \in Nat /\ nrows' \in Nat \ {0}
    BY <2>1 DEF notes, view, IInv, CountInv, TypeOK
  <2> QED BY <2>2, CountsKept, ViewKept DEF IInv
<1>2. CASE GridTick
  BY <1>2, GridTickStep
<1>3. ASSUME NEW h \in Hosts, NEW s \in Rows, PingSent(h, s)
      PROVE  IInv'
  BY <1>3, PingSentStep
<1>4. ASSUME NEW h \in Hosts, NEW s \in Rows, NEW res \in Results, PingDone(h, s, res)
      PROVE  IInv'
  BY <1>4, PingDoneStep
<1>5. ASSUME NEW h \in Hosts, NEW s \in Rows, NEW k \in Kind, NEW len \in Lengths,
             SetNote(h, s, k, len)
      PROVE  IInv'
  BY <1>5, SetNoteStep
<1>6. CASE Renderer
  BY <1>6, DrawStep, KeyStep DEF Renderer
<1> QED BY <1>1, <1>2, <1>3, <1>4, <1>5, <1>6 DEF Next

-----------------------------------------------------------------------------
(* Theorems *)

\* The registry, the counters and the columns keep their types.
THEOREM TypeCorrect == Spec => []TypeOK
<1>1. IInv => TypeOK
  BY DEF IInv, CountInv
<1> QED BY InitIInv, NextIInv, <1>1, PTL DEF Spec

\* The number of rows draw computes from the counters is the number of rows
\* there are, whatever the columns, notes, widths and their order.
THEOREM RowCountExact == Spec => []TotalIsExact
<1>1. IInv => TotalIsExact
  BY TotalCounts DEF IInv, TotalIsExact
<1> QED BY InitIInv, NextIInv, <1>1, PTL DEF Spec

\* The first row of a window of size rows that ends with row last.
FirstRow(last, size) == IF last - size + 1 <= 1 THEN 1 ELSE last - size + 1

\* The rows of a window, by its last row.
LEMMA WindowRows ==
  ASSUME NEW rows \in Seq(Line), NEW last \in Nat, last <= Len(rows),
         NEW size \in Nat \ {0}
  PROVE  /\ Window(rows, Len(rows) - last, size) = SubSeq(rows, FirstRow(last, size), last)
         /\ FirstRow(last, size) \in Nat \ {0} /\ FirstRow(last, size) <= last + 1
<1>1. Len(rows) \in Nat /\ Len(rows) - (Len(rows) - last) = last
  OBVIOUS
<1>2. FirstRow(last, size) \in Nat \ {0} /\ FirstRow(last, size) <= last + 1
  BY DEF FirstRow
<1>3. Max({1, last - size + 1}) = FirstRow(last, size)
  <2>1. 1 \in Int /\ last - size + 1 \in Int
    OBVIOUS
  <2>2. Max({1, last - size + 1}) = IF 1 >= last - size + 1 THEN 1 ELSE last - size + 1
    BY <2>1, MaxOfTwo
  <2> QED BY <2>2 DEF FirstRow
<1> QED BY <1>1, <1>2, <1>3 DEF Window

\* What is between two rows of a table.
LEMMA RowsBetween ==
  ASSUME NEW rows \in Seq(Line), NEW last \in Nat, last <= Len(rows),
         NEW first \in Nat \ {0}, first <= last + 1
  PROVE  /\ SubSeq(rows, first, last) \in Seq(Line)
         /\ Len(SubSeq(rows, first, last)) = last - first + 1
         /\ \A i \in 1 .. last - first + 1 : SubSeq(rows, first, last)[i] = rows[first + i - 1]
<1>1. \A i \in first .. last : rows[i] \in Line
  OBVIOUS
<1>2. first \in Int /\ last \in Int
  OBVIOUS
<1>3. /\ SubSeq(rows, first, last) \in Seq(Line)
      /\ Len(SubSeq(rows, first, last)) = IF first <= last THEN last - first + 1 ELSE 0
      /\ \A i \in 1 .. last - first + 1 : SubSeq(rows, first, last)[i] = rows[first + i - 1]
  BY <1>1, <1>2, SubSeqProperties
<1>4. (IF first <= last THEN last - first + 1 ELSE 0) = last - first + 1
  OBVIOUS
<1> QED BY <1>3, <1>4

\* The window is full as long as there are enough rows.
THEOREM FullWindow == Spec => []WindowFull
<1>1. ASSUME IInv PROVE WindowFull
  <2> DEFINE n == Len(drawn)
             last  == n - scroll
             first == FirstRow(last, nrows)
  <2>1. /\ drawn \in Seq(Line) /\ n \in Nat /\ scroll \in Nat /\ nrows \in Nat \ {0}
        /\ total \in Nat /\ scroll <= MaxOff
    BY <1>1 DEF IInv, CountInv, TypeOK, ViewKnown
  <2>2. MaxOff = IF 0 >= total - nrows THEN 0 ELSE total - nrows
    BY <2>1, MaxOfTwo DEF MaxOff
  <2>3. scroll = 0 \/ (scroll <= n - nrows /\ n > 0)
    <3>1. CASE drawn = << >>
      BY <1>1, <2>1, <3>1 DEF IInv, ViewKnown
    <3>2. CASE drawn # << >>
      <4>1. total = n /\ n > 0
        BY <1>1, <2>1, <3>2 DEF IInv, ViewKnown
      <4> HIDE DEF n
      <4> QED BY <2>1, <2>2, <4>1
    <3> QED BY <3>1, <3>2
  <2>4. Len(Window(drawn, scroll, nrows)) = last - first + 1
    <3>1. last \in Nat /\ last <= Len(drawn) /\ Len(drawn) - last = scroll
      BY <2>1, <2>3
    <3>2. /\ Window(drawn, Len(drawn) - last, nrows) = SubSeq(drawn, first, last)
          /\ first \in Nat \ {0} /\ first <= last + 1
      BY <2>1, <3>1, WindowRows
    <3>3. Len(SubSeq(drawn, first, last)) = last - first + 1
      BY <2>1, <3>1, <3>2, RowsBetween
    <3> QED BY <3>1, <3>2, <3>3
  <2>5. Min({nrows, n}) = IF nrows <= n THEN nrows ELSE n
    BY <2>1, MinOfTwo
  <2>6. last - first + 1 = IF nrows <= n THEN nrows ELSE n
    <3> HIDE DEF n
    <3> QED BY <2>1, <2>3 DEF FirstRow
  <2> QED BY <2>4, <2>5, <2>6 DEF WindowFull
<1> QED BY <1>1, InitIInv, NextIInv, PTL DEF Spec

\* Two tables that agree down to the window's end show the same window there.
LEMMA SameWindow ==
  ASSUME NEW rows \in Seq(Line), NEW more \in Seq(Line), NEW off \in Nat,
         NEW size \in Nat \ {0}, off <= Len(rows), Len(rows) <= Len(more),
         SubSeq(more, 1, Len(rows) - off) = SubSeq(rows, 1, Len(rows) - off)
  PROVE  Window(more, off + (Len(more) - Len(rows)), size) = Window(rows, off, size)
<1> DEFINE kept == Len(rows) - off
           first == FirstRow(kept, size)
           far == off + (Len(more) - Len(rows))
<1>1. /\ Len(rows) \in Nat /\ Len(more) \in Nat /\ kept \in Nat
      /\ kept <= Len(rows) /\ kept <= Len(more)
      /\ off = Len(rows) - kept /\ far = Len(more) - kept
  OBVIOUS
<1> HIDE DEF far, kept
<1>2. /\ Window(rows, Len(rows) - kept, size) = SubSeq(rows, first, kept)
      /\ Window(more, Len(more) - kept, size) = SubSeq(more, first, kept)
      /\ first \in Nat \ {0} /\ first <= kept + 1
  BY <1>1, WindowRows
<1> HIDE DEF first
<1>3. /\ Len(SubSeq(rows, first, kept)) = kept - first + 1
      /\ \A i \in 1 .. kept - first + 1 : SubSeq(rows, first, kept)[i] = rows[first + i - 1]
      /\ SubSeq(rows, first, kept) \in Seq(Line)
  BY <1>1, <1>2, RowsBetween
<1>4. /\ Len(SubSeq(more, first, kept)) = kept - first + 1
      /\ \A i \in 1 .. kept - first + 1 : SubSeq(more, first, kept)[i] = more[first + i - 1]
      /\ SubSeq(more, first, kept) \in Seq(Line)
  BY <1>1, <1>2, RowsBetween
<1>5. ASSUME NEW i \in 1 .. kept PROVE more[i] = rows[i]
  <2>1. 1 <= kept + 1 /\ kept - 1 + 1 = kept /\ 1 + i - 1 = i
    BY <1>1
  <2>2. \A j \in 1 .. kept - 1 + 1 : SubSeq(more, 1, kept)[j] = more[1 + j - 1]
    BY <1>1, <2>1, RowsBetween
  <2>3. \A j \in 1 .. kept - 1 + 1 : SubSeq(rows, 1, kept)[j] = rows[1 + j - 1]
    BY <1>1, <2>1, RowsBetween
  <2>4. SubSeq(more, 1, kept)[i] = more[i] /\ SubSeq(rows, 1, kept)[i] = rows[i]
    BY <2>1, <2>2, <2>3
  <2> QED BY <2>4 DEF kept
<1>6. ASSUME NEW i \in 1 .. kept - first + 1
      PROVE  SubSeq(more, first, kept)[i] = SubSeq(rows, first, kept)[i]
  <2>1. first + i - 1 \in 1 .. kept
    BY <1>1, <1>2
  <2> QED BY <1>3, <1>4, <1>5, <2>1
<1>7. SubSeq(more, first, kept) = SubSeq(rows, first, kept)
  <2> DEFINE p == SubSeq(more, first, kept)
             q == SubSeq(rows, first, kept)
  <2>1. p \in Seq(Line) /\ q \in Seq(Line) /\ Len(p) = Len(q)
    BY <1>3, <1>4
  <2>2. \A i \in 1 .. Len(p) : p[i] = q[i]
    BY <1>4, <1>6
  <2> HIDE DEF p, q
  <2>3. p = q
    BY <2>1, <2>2, SeqEqual
  <2> QED BY <2>3 DEF p, q
<1> QED BY <1>1, <1>2, <1>7 DEF far

\* A draw moves the window of a user who has scrolled up by what was added.
LEMMA ScrollFollows ==
  ASSUME IInv, NEW cw \in Widths, NEW size \in Heights, Draw(cw, size),
         scroll > 0, nrows' = nrows, Len(drawn') >= Len(drawn)
  PROVE  /\ scroll' = scroll + (Len(drawn') - Len(drawn)) /\ scroll <= Len(drawn)
         /\ drawn \in Seq(Line) /\ drawn' \in Seq(Line)
<1>1. /\ scroll \in Nat /\ nrows \in Nat \ {0} /\ total \in Nat /\ scroll <= MaxOff
      /\ drawn \in Seq(Line)
  BY DEF IInv, CountInv, TypeOK, ViewKnown
<1>2. MaxOff = IF 0 >= total - nrows THEN 0 ELSE total - nrows
  BY <1>1, MaxOfTwo DEF MaxOff
<1>3. drawn # << >> /\ total = Len(drawn) /\ scroll <= total - nrows
  BY <1>1, <1>2 DEF IInv, ViewKnown
<1>4. /\ Total(cw) = Len(drawn') /\ drawn' \in Seq(Line) /\ Total(cw) \in Nat /\ size = nrows
      /\ scroll' = Min({Anchor(scroll, IF drawn = << >> THEN 0 ELSE Total(cw) - total),
                       Max({0, Total(cw) - size})})
  BY TotalCounts DEF IInv, Draw
<1> DEFINE grown == Total(cw) - total
<1>5. grown \in Nat /\ grown = Len(drawn') - Len(drawn)
  BY <1>1, <1>3, <1>4
<1>6. scroll' = Min({Anchor(scroll, grown), Max({0, Total(cw) - size})})
  BY <1>3, <1>4
<1>7. Max({0, Total(cw) - nrows}) = Total(cw) - nrows
  BY <1>1, <1>3, <1>4, <1>5, MaxOfTwo
<1>8. Anchor(scroll, grown) = scroll + grown
  BY <1>1, <1>5 DEF Anchor
<1>9. scroll + grown <= Total(cw) - nrows
  BY <1>1, <1>3, <1>4
<1> HIDE DEF grown
<1>10. scroll' = scroll + grown
  <2>1. scroll' = Min({scroll + grown, Total(cw) - nrows})
    BY <1>4, <1>6, <1>7, <1>8
  <2>2. scroll + grown \in Int /\ Total(cw) - nrows \in Int
    BY <1>1, <1>4, <1>5
  <2> QED BY <1>9, <2>1, <2>2, MinOfTwo
<1> QED BY <1>1, <1>3, <1>4, <1>5, <1>10

\* Only draw changes what is on the screen.
LEMMA OnlyDrawDraws ==
  ASSUME Next, drawn' # drawn
  PROVE  \E cw \in Widths, size \in Heights : Draw(cw, size)
BY DEF Next, GridTick, PingSent, PingDone, SetNote, view, Renderer, Key, ScrollTo

\* Rows that come in below the window of a user who has scrolled up do not move
\* what is on the screen.
THEOREM AnchoredWindow == Spec => WindowAnchored
<1> DEFINE Still ==
      LET kept == Len(drawn) - scroll
      IN  /\ scroll > 0 /\ drawn' # drawn /\ nrows' = nrows
          /\ Len(drawn') >= Len(drawn)
          /\ SubSeq(drawn', 1, kept) = SubSeq(drawn, 1, kept)
          => Window(drawn', scroll', nrows) = Window(drawn, scroll, nrows)
<1>1. IInv /\ [Next]_vars => [Still]_vars
  <2> SUFFICES ASSUME IInv, Next, scroll > 0, drawn' # drawn, nrows' = nrows,
                      Len(drawn') >= Len(drawn),
                      SubSeq(drawn', 1, Len(drawn) - scroll) = SubSeq(drawn, 1, Len(drawn) - scroll)
               PROVE  Window(drawn', scroll', nrows) = Window(drawn, scroll, nrows)
    OBVIOUS
  <2>1. PICK cw \in Widths, size \in Heights : Draw(cw, size)
    BY OnlyDrawDraws
  <2>2. /\ scroll' = scroll + (Len(drawn') - Len(drawn)) /\ scroll <= Len(drawn)
        /\ drawn \in Seq(Line) /\ drawn' \in Seq(Line)
    BY <2>1, ScrollFollows
  <2>3. scroll \in Nat /\ nrows \in Nat \ {0} /\ Len(drawn) <= Len(drawn')
    BY <2>2 DEF IInv, CountInv, TypeOK
  <2>4. Window(drawn', scroll + (Len(drawn') - Len(drawn)), nrows)
          = Window(drawn, scroll, nrows)
    BY <2>2, <2>3, SameWindow
  <2> QED BY <2>2, <2>4
<1>2. Spec => []IInv
  BY InitIInv, NextIInv, PTL DEF Spec
<1> QED BY <1>1, <1>2, PTL DEF Spec, WindowAnchored

-----------------------------------------------------------------------------
(* Rows from top to bottom *)

LEMMA ConcatInOrder ==
  ASSUME NEW T, NEW a \in Seq(T), NEW b \in Seq(T), InOrder(a), InOrder(b),
         \A q \in Range(a), r \in Range(b) : Above(q, r)
  PROVE  a \o b \in Seq(T) /\ InOrder(a \o b) /\ Range(a \o b) \subseteq Range(a) \cup Range(b)
<1> DEFINE n == Len(a)
           m == Len(b)
           c == a \o b
<1>1. /\ n \in Nat /\ m \in Nat /\ DOMAIN a = 1 .. n /\ DOMAIN b = 1 .. m
      /\ c \in Seq(T) /\ DOMAIN c = 1 .. (n + m)
  OBVIOUS
<1>2. \A i \in 1 .. n : c[i] = a[i] /\ c[i] \in Range(a)
  BY <1>1 DEF Range
<1>3. ASSUME NEW i \in (n + 1) .. (n + m)
      PROVE  c[i] = b[i - n] /\ i - n \in 1 .. m /\ c[i] \in Range(b)
  <2>1. c[i] = b[i - n] /\ i - n \in 1 .. m
    BY <1>1
  <2> QED BY <1>1, <2>1 DEF Range
<1> HIDE DEF n, m, c
<1>4. \A i \in 1 .. (n + m) : i \in 1 .. n \/ i \in (n + 1) .. (n + m)
  BY <1>1
<1>5. Range(c) \subseteq Range(a) \cup Range(b)
  BY <1>1, <1>2, <1>3, <1>4 DEF Range
<1>6. InOrder(c)
  <2>1. SUFFICES ASSUME NEW i \in 1 .. (n + m), NEW j \in 1 .. (n + m), i < j
                 PROVE  Above(c[i], c[j])
    BY <1>1 DEF InOrder
  <2>2. CASE i \in 1 .. n /\ j \in 1 .. n
    BY <1>1, <1>2, <2>1, <2>2 DEF InOrder
  <2>3. CASE i \in (n + 1) .. (n + m) /\ j \in (n + 1) .. (n + m)
    <3>1. i - n < j - n
      BY <1>1, <2>1
    <3> QED BY <1>1, <1>3, <2>3, <3>1 DEF InOrder
  <2>4. CASE i \in 1 .. n /\ j \in (n + 1) .. (n + m)
    BY <1>2, <1>3, <2>4
  <2>5. ~(i \in (n + 1) .. (n + m) /\ j \in 1 .. n)
    BY <1>1, <2>1
  <2> QED BY <1>4, <2>2, <2>3, <2>4, <2>5
<1> QED BY <1>1, <1>5, <1>6 DEF c

LEMMA FlattenInOrder ==
  ASSUME NEW T, NEW n \in Nat, NEW s \in [1 .. n -> Seq(T)],
         \A i \in 1 .. n : InOrder(s[i]),
         \A i, j \in 1 .. n : i < j => \A q \in Range(s[i]), r \in Range(s[j]) : Above(q, r)
  PROVE  InOrder(FlattenSeq(s))
<1>1. Len(s) = n
  OBVIOUS
<1>2. CASE n = 0
  <2>1. FlattenSeq(s) = s /\ DOMAIN s = {}
    BY <1>1, <1>2 DEF FlattenSeq
  <2> QED BY <2>1 DEF InOrder
<1>3. CASE n # 0
  <2> DEFINE Upto(m) == UNION {Range(s[i]) : i \in 1 .. m}
             G == [m \in 1 .. n |-> {q \in Seq(T) : InOrder(q) /\ Range(q) \subseteq Upto(m)}]
  <2>1. 1 \in 1 .. n /\ n \in 1 .. n /\ n \in Nat \ {0}
    BY <1>3
  <2>2. s[1] \in G[1]
    <3>1. Range(s[1]) \subseteq Upto(1)
      <4>1. 1 \in 1 .. 1
        OBVIOUS
      <4> QED BY <4>1
    <3> HIDE DEF Upto
    <3> QED BY <2>1, <3>1
  <2>3. ASSUME NEW m \in 2 .. n, NEW q \in G[m - 1] PROVE q \o s[m] \in G[m]
    <3>1. m \in 1 .. n /\ m - 1 \in 1 .. n /\ 1 .. m = 1 .. (m - 1) \cup {m}
      OBVIOUS
    <3>2. Upto(m) = Upto(m - 1) \cup Range(s[m])
      BY <3>1
    <3>3. \A a \in Upto(m - 1), b \in Range(s[m]) : Above(a, b)
      <4>1. \A i \in 1 .. (m - 1) : i \in 1 .. n /\ i < m
        BY <3>1
      <4> QED BY <3>1, <4>1
    <3> HIDE DEF Upto
    <3>4. q \in Seq(T) /\ InOrder(q) /\ Range(q) \subseteq Upto(m - 1)
      BY <3>1
    <3>5. s[m] \in Seq(T) /\ InOrder(s[m])
      BY <3>1
    <3>6. \A a \in Range(q), b \in Range(s[m]) : Above(a, b)
      BY <3>3, <3>4
    <3>7. /\ q \o s[m] \in Seq(T) /\ InOrder(q \o s[m])
          /\ Range(q \o s[m]) \subseteq Range(q) \cup Range(s[m])
      BY <3>4, <3>5, <3>6, ConcatInOrder
    <3> QED BY <3>1, <3>2, <3>4, <3>7
  <2> HIDE DEF G
  <2>4. FlattenSeq(s) \in G[n]
    BY <1>1, <2>1, <2>2, <2>3, FlattenKeeps
  <2> QED BY <2>1, <2>4 DEF G
<1> QED BY <1>2, <1>3

\* Rows of one tick and of one rank are in order, however they stand.
LEMMA OneRank ==
  ASSUME NEW a, NEW s \in Nat, NEW n \in Nat, \A r \in Range(a) : r[1] = s /\ Rank(r) = n
  PROVE  InOrder(a)
<1>1. \A i \in DOMAIN a : a[i] \in Range(a)
  BY DEF Range
<1> QED BY <1>1 DEF InOrder, Above

-----------------------------------------------------------------------------
(* The history *)

\* The registry knows of a note exactly if a column has one, and no shorter.
RegistryTells ==
  \A s \in Rows, k \in Kind :
    /\ reg[s][k] = Absent <=> \A h \in Hosts : note[h][s][k] = Absent
    /\ \A h \in Hosts : note[h][s][k] <= reg[s][k]

\* A column has err: notes of its own kind only.
NotesOwn ==
  \A h \in Hosts, s \in Rows, k \in WholeRow : note[h][s][k] # Absent => ErrOf[h] = k

HInv == IInv /\ RegistryTells /\ NotesOwn

LEMMA LastPingedFacts ==
  ASSUME IInv
  PROVE  /\ LastPinged \in 0 .. MaxRow
         /\ \A r : r[1] \in Rows => (BeforePing(r) <=> r[1] <= LastPinged)
<1> DEFINE S == {0} \cup {s \in Rows : \E h \in Hosts : col[h].ping[s] # "none"}
<1>1. MaxSeq \in Nat /\ S \subseteq 0 .. MaxSeq /\ S # {}
  BY MaxSeqAssumption DEF Rows
<1>2. Max(S) \in S /\ \A y \in S : Max(S) >= y
  BY <1>1, MaxOf
<1>3. LastPinged = Max(S)
  BY DEF LastPinged
<1>4. \A s \in Rows : s \in S <=> \E h \in Hosts : col[h].ping[s] # "none"
  BY DEF Rows
<1>5. MaxRow \in 0 .. MaxSeq /\ \A h \in Hosts : col[h].lastSeq <= MaxRow
  BY MaxRowFacts DEF IInv, CountInv
<1>6. ASSUME NEW s \in Rows, s \in S PROVE s <= MaxRow
  <2>1. PICK h \in Hosts : col[h].ping[s] # "none"
    BY <1>4, <1>6
  <2>2. s <= col[h].lastPing /\ col[h].lastPing <= col[h].lastSeq
    BY <2>1 DEF IInv, CountInv, CountersExact, Consistent
  <2>3. col[h].lastPing \in Int /\ col[h].lastSeq \in Int /\ s \in Int
    BY DEF IInv, CountInv, TypeOK, Column, Rows
  <2> QED BY <1>5, <2>2, <2>3
<1>7. S \subseteq Int /\ \A s \in S : s = 0 \/ s \in Rows
  BY <1>1
<1> DEFINE lp == LastPinged
           m == MaxRow
<1>a. lp \in S /\ \A y \in S : y <= lp
  <2> HIDE DEF S
  <2>1. \A y \in S : y \in Int /\ Max(S) \in Int
    BY <1>2, <1>7
  <2> QED BY <1>2, <1>3, <2>1
<1> HIDE DEF S
<1>b. lp \in Int /\ lp >= 0 /\ (lp = 0 \/ lp \in Rows)
  BY <1>1, <1>7, <1>a
<1>8. LastPinged \in 0 .. MaxRow
  <2>1. lp = 0 \/ lp <= m
    BY <1>6, <1>7, <1>a
  <2>2. m \in Int /\ m >= 0
    BY <1>1, <1>5
  <2> HIDE DEF lp, m
  <2>3. lp \in 0 .. m
    BY <1>b, <2>1, <2>2
  <2> QED BY <2>3 DEF lp, m
<1>9. ASSUME NEW r, r[1] \in Rows
      PROVE  BeforePing(r) <=> r[1] <= LastPinged
  <2>1. Rows = 1 .. MaxSeq
    BY DEF Rows
  <2>2. ASSUME BeforePing(r) PROVE r[1] <= LastPinged
    <3>1. PICK s \in r[1] .. MaxSeq, h \in Hosts : col[h].ping[s] # "none"
      BY <2>2 DEF BeforePing
    <3>2. s \in Rows /\ s >= r[1]
      BY <1>1, <1>9, <2>1
    <3>3. s \in S
      BY <1>4, <3>1, <3>2
    <3>4. s <= lp /\ s \in Int /\ r[1] \in Int
      BY <1>1, <1>a, <1>9, <2>1, <3>2, <3>3
    <3> QED BY <1>b, <3>2, <3>4
  <2>3. ASSUME r[1] <= LastPinged PROVE BeforePing(r)
    <3>1. lp \in S /\ lp # 0 /\ lp \in Rows
      <4>1. r[1] \in Int /\ r[1] >= 1 /\ r[1] <= lp
        BY <1>1, <1>9, <2>1, <2>3
      <4> HIDE DEF lp
      <4> QED BY <1>a, <1>b, <4>1
    <3>2. lp \in r[1] .. MaxSeq
      <4>1. r[1] <= lp /\ r[1] \in Int
        BY <1>1, <1>9, <2>1, <2>3
      <4> HIDE DEF lp
      <4> QED BY <1>1, <2>1, <3>1, <4>1
    <3> HIDE DEF lp
    <3> QED BY <1>4, <3>1, <3>2 DEF BeforePing
  <2> QED BY <2>2, <2>3
<1> QED BY <1>8, <1>9

\* What is printed of the notes of a tick are those of their rows that are not
\* blank.
TextLines(s, cw) == {r \in NoteLines(s) \cup MoreLines(s, cw) : ~Blank(r, cw)}

\* The err: kinds that are printed: the first column that has a note of one
\* prints it.
LEMMA PrintedKinds ==
  ASSUME HInv, NEW s \in Rows
  PROVE  /\ \A g, h \in Printed(s) : ErrOf[g] = ErrOf[h] => g = h
         /\ {ErrOf[h] : h \in Printed(s)} = {k \in WholeRow : reg[s][k] # Absent /\ Spoken(s, k)}
<1>1. Hosts = 1 .. NHosts /\ NHosts \in Nat /\ Hosts \subseteq Nat
  BY TableAssumption DEF Hosts
<1>2. ASSUME NEW g \in Printed(s), NEW h \in Printed(s), ErrOf[g] = ErrOf[h], g < h
      PROVE  FALSE
  <2>1. g \in 1 .. h - 1
    BY <1>1, <1>2 DEF Printed
  <2> QED BY <1>2, <2>1 DEF Printed
<1>3. \A g, h \in Printed(s) : ErrOf[g] = ErrOf[h] => g = h
  <2>1. \A g, h \in Printed(s) : g = h \/ g < h \/ h < g
    BY <1>1 DEF Printed
  <2> QED BY <1>2, <2>1
<1>4. ASSUME NEW h \in Printed(s)
      PROVE  ErrOf[h] \in WholeRow /\ reg[s][ErrOf[h]] # Absent /\ Spoken(s, ErrOf[h])
  <2>1. h \in Hosts /\ note[h][s][ErrOf[h]] # Absent /\ Spoken(s, ErrOf[h])
    BY DEF Printed
  <2>2. ErrOf[h] \in WholeRow /\ ErrOf[h] \in Kind
    BY <2>1 DEF WholeRow, Kind
  <2> QED BY <2>1, <2>2 DEF HInv, RegistryTells
<1>5. ASSUME NEW k \in WholeRow, Spoken(s, k)
      PROVE  \E h \in Printed(s) : ErrOf[h] = k
  <2> DEFINE T == {h \in Hosts : ErrOf[h] = k /\ note[h][s][k] # Absent}
  <2>1. Named[k] \in T
    BY <1>5 DEF Spoken, HInv, NotesOwn
  <2>2. T \subseteq Nat /\ T # {}
    BY <1>1, <2>1
  <2> HIDE DEF T
  <2>3. PICK h \in T : \A g \in T : h <= g
    BY <2>2, LeastOf
  <2>4. h \in Hosts /\ ErrOf[h] = k /\ note[h][s][k] # Absent
    BY DEF T
  <2>5. ASSUME NEW g \in 1 .. h - 1, ErrOf[g] = k PROVE note[g][s][k] = Absent
    <3>1. g \in Hosts /\ ~(h <= g)
      BY <1>1, <2>4
    <3> QED BY <2>3, <2>5, <3>1 DEF T
  <2>6. h \in Printed(s)
    BY <1>5, <2>4, <2>5 DEF Printed
  <2> QED BY <2>4, <2>6
<1>6. ASSUME NEW k \in WholeRow, reg[s][k] # Absent, Spoken(s, k)
      PROVE  k \in {ErrOf[h] : h \in Printed(s)}
  BY <1>5, <1>6
<1> QED BY <1>3, <1>4, <1>6

LEMMA TextRowsLines ==
  ASSUME HInv, NEW s \in Rows, NEW cw \in Widths
  PROVE  /\ TextRows(s, cw) \in Seq(Line) /\ IsInjective(TextRows(s, cw))
         /\ Range(TextRows(s, cw)) = TextLines(s, cw)
<1> DEFINE rows == TextRows(s, cw)
           S == {i \in DOMAIN Shared : \E h \in Hosts : note[h][s][Shared[i]] # Absent}
           long == {k \in SharedKind : \E h \in Hosts : note[h][s][k] > cw}
           A == KindsAt(Shared, S)
           at == Printed(s)
           B == KindsAt(ErrOf, at)
<1>1. rows = TwoRows(s, S, long, ErrOf, at)
  BY DEF TextRows, TwoRows
<1>2. /\ ErrOf \in Seq(Kind) /\ DOMAIN ErrOf = Hosts /\ SharedKind \cap WholeRow = {}
      /\ SharedKind \subseteq Kind
  BY KindsFacts DEF Kind
<1>3. at \subseteq DOMAIN ErrOf /\ B \subseteq WholeRow
  BY <1>2 DEF Printed, WholeRow, KindsAt
<1>4. /\ Different(ErrOf, at)
      /\ B = {k \in WholeRow : reg[s][k] # Absent /\ Spoken(s, k)}
  BY <1>2, <1>3, PrintedKinds DEF KindsAt, Different
<1>5. A = {k \in SharedKind : reg[s][k] # Absent}
  <2>1. A = {k \in SharedKind : \E h \in Hosts : note[h][s][k] # Absent}
    BY DEF SharedKind, KindsAt
  <2>2. \A k \in SharedKind : (\E h \in Hosts : note[h][s][k] # Absent) <=> reg[s][k] # Absent
    BY <1>2 DEF HInv, RegistryTells
  <2> HIDE DEF A
  <2> QED BY <2>1, <2>2
<1>6. ASSUME NEW k \in SharedKind
      PROVE  /\ k \in A /\ k \in long <=> reg[s][k] > cw /\ ~ \A h \in Hosts : note[h][s][k] <= cw
  <2>1. cw \in Nat /\ \A m \in Length \cup {Absent} : m \in Int /\ (m > cw => m # Absent)
    BY TableAssumption DEF Length, Absent
  <2>2. reg[s][k] \in Length \cup {Absent} /\ \A h \in Hosts : note[h][s][k] \in Length \cup {Absent}
    BY <1>2 DEF HInv, IInv, CountInv, TypeOK
  <2>3. \A h \in Hosts : note[h][s][k] <= reg[s][k]
    BY <1>2 DEF HInv, RegistryTells
  <2>4. reg[s][k] \in Int /\ \A h \in Hosts : note[h][s][k] \in Int
    BY <2>1, <2>2
  <2>5. (\E h \in Hosts : note[h][s][k] > cw) <=> ~ \A h \in Hosts : note[h][s][k] <= cw
    BY <2>1, <2>4
  <2>6. (\E h \in Hosts : note[h][s][k] > cw) => reg[s][k] > cw /\ reg[s][k] # Absent
    <3>1. (\E h \in Hosts : note[h][s][k] > cw) => reg[s][k] > cw
      BY <2>1, <2>3, <2>4
    <3> QED BY <2>1, <2>2, <3>1
  <2> HIDE DEF A
  <2> QED BY <1>5, <2>5, <2>6
<1> HIDE DEF rows, S, long, at
<1>7. S \in SUBSET DOMAIN Shared
  BY DEF S
<1>8. /\ rows \in Seq(Line) /\ IsInjective(rows)
      /\ Range(rows) = KindLines(s, A, long) \cup ErrLines(s, B)
  <2>1. KindsAt(ErrOf, at) \in SUBSET WholeRow /\ Different(ErrOf, at)
    BY <1>3, <1>4
  <2>2. /\ TwoRows(s, S, long, ErrOf, at) \in Seq(Line)
        /\ IsInjective(TwoRows(s, S, long, ErrOf, at))
        /\ Range(TwoRows(s, S, long, ErrOf, at)) = TwoLines(s, S, long, ErrOf, at)
    BY <1>7, <2>1, TwoKindRows
  <2> QED BY <1>1, <2>2 DEF TwoLines
<1> HIDE DEF A, B
<1> DEFINE N == {<<s, "note", k>> : k \in {j \in Kind : reg[s][j] # Absent /\ (j \in WholeRow => Spoken(s, j))}}
           M == {<<s, "more", k>> : k \in {j \in SharedKind : reg[s][j] > cw /\ ~ \A h \in Hosts : note[h][s][j] <= cw}}
<1>9. KindLines(s, A, long) \cup ErrLines(s, B) = N \cup M
  <2>1. A \cap long = {j \in SharedKind : reg[s][j] > cw /\ ~ \A h \in Hosts : note[h][s][j] <= cw}
    BY <1>5, <1>6
  <2>2. A \cup B = {j \in Kind : reg[s][j] # Absent /\ (j \in WholeRow => Spoken(s, j))}
    BY <1>2, <1>4, <1>5 DEF Kind
  <2>3. KindLines(s, A, long) \cup ErrLines(s, B)
          = {<<s, "note", k>> : k \in A \cup B} \cup {<<s, "more", k>> : k \in A \cap long}
    BY DEF KindLines, ErrLines
  <2> QED BY <2>1, <2>2, <2>3
<1>10. TextLines(s, cw) = N \cup M
  <2>1. {r \in NoteLines(s) : ~Blank(r, cw)} = N
    BY DEF NoteLines, Blank
  <2>2. {r \in MoreLines(s, cw) : ~Blank(r, cw)} = M
    BY DEF MoreLines, Blank
  <2> HIDE DEF N, M
  <2> QED BY <2>1, <2>2 DEF TextLines
<1> QED BY <1>8, <1>9, <1>10 DEF rows

\* What is printed of a tick.
LEMMA HistoryBlock ==
  ASSUME HInv, NEW s \in Rows, NEW cw \in Widths, NEW block,
         block = TextRows(s, cw) \o << <<s, "tick", 0>> >> \o DetailRows(s)
  PROVE  /\ block \in Seq(Line) /\ IsInjective(block) /\ InOrder(block)
         /\ Range(block) = {r \in BlockLines(s, cw) : ~Blank(r, cw)}
<1> DEFINE t  == <<s, "tick", 0>>
           nn == TextRows(s, cw)
           u  == << t >>
           dd == DetailRows(s)
           mm == nn \o u
<1>1. t \in Line /\ t[1] = s /\ t[2] = "tick" /\ s \in Nat
  BY MaxSeqAssumption DEF Line, Rows
<1>2. \A r \in TextLines(s, cw) : r[1] = s /\ r[2] \in {"note", "more"}
  BY DEF TextLines, NoteLines, MoreLines
<1>3. \A r \in DetailLines(s) : r[1] = s /\ r[2] = "detail"
  BY DEF DetailLines
<1>4. nn \in Seq(Line) /\ IsInjective(nn) /\ Range(nn) = TextLines(s, cw)
  BY TextRowsLines
<1>5. dd \in Seq(Line) /\ IsInjective(dd) /\ Range(dd) = DetailLines(s)
  BY DetailRowsLines
<1>6. u \in Seq(Line) /\ IsInjective(u) /\ Range(u) = {t}
  BY <1>1, ShortRows
<1>7. block = mm \o dd
  OBVIOUS
<1> HIDE DEF t, nn, dd, u
<1>8. /\ \A r \in Range(nn) : r[1] = s /\ Rank(r) = 0
      /\ \A r \in Range(u) : r[1] = s /\ Rank(r) = 1
      /\ \A r \in Range(dd) : r[1] = s /\ Rank(r) = 2
  BY <1>1, <1>2, <1>3, <1>4, <1>5, <1>6 DEF Rank
<1>9. InOrder(nn) /\ InOrder(u) /\ InOrder(dd)
  BY <1>1, <1>8, OneRank
<1>10. mm \in Seq(Line) /\ IsInjective(mm) /\ Range(mm) = Range(nn) \cup Range(u)
  <2>1. Range(nn) \cap Range(u) = {}
    BY <1>8
  <2> QED BY <1>4, <1>6, <2>1, RangeConcat
<1>11. InOrder(mm)
  <2>1. \A q \in Range(nn), r \in Range(u) : Above(q, r)
    BY <1>8 DEF Above
  <2> QED BY <1>4, <1>6, <1>9, <2>1, ConcatInOrder
<1> HIDE DEF mm
<1>12. /\ mm \o dd \in Seq(Line) /\ IsInjective(mm \o dd)
       /\ Range(mm \o dd) = Range(mm) \cup Range(dd)
  <2>1. Range(mm) \cap Range(dd) = {}
    BY <1>8, <1>10
  <2> QED BY <1>5, <1>10, <2>1, RangeConcat
<1>13. InOrder(mm \o dd)
  <2>1. \A q \in Range(mm), r \in Range(dd) : Above(q, r)
    BY <1>8, <1>10 DEF Above
  <2> QED BY <1>5, <1>9, <1>10, <1>11, <2>1, ConcatInOrder
<1>14. {r \in BlockLines(s, cw) : ~Blank(r, cw)} = TextLines(s, cw) \cup {t} \cup DetailLines(s)
  <2>1. ~Blank(t, cw) /\ \A r \in DetailLines(s) : ~Blank(r, cw)
    BY <1>1, <1>3 DEF Blank
  <2>2. BlockLines(s, cw) = NoteLines(s) \cup MoreLines(s, cw) \cup {t} \cup DetailLines(s)
    BY DEF BlockLines, t
  <2> QED BY <2>1, <2>2 DEF TextLines
<1> QED BY <1>4, <1>5, <1>6, <1>7, <1>10, <1>12, <1>13, <1>14

LEMMA HistoryTells ==
  ASSUME HInv
  PROVE  HistoryShowsAll
<1> SUFFICES ASSUME NEW cw \in Widths
             PROVE  /\ Range(HistoryRows(cw)) = Telling(cw)
                    /\ IsInjective(HistoryRows(cw)) /\ InOrder(HistoryRows(cw))
  BY DEF HistoryShowsAll
<1> DEFINE l == LastPinged
           m == MaxRow
           text(s) == TextRows(s, cw) \o << <<s, "tick", 0>> >> \o DetailRows(s)
           texts == [s \in 1 .. l |-> text(s)]
           lines(s) == {r \in BlockLines(s, cw) : ~Blank(r, cw)}
<1>1. /\ l \in 0 .. m /\ m \in Nat /\ l \in Nat /\ 1 .. m \subseteq Rows /\ Rows \subseteq Nat
      /\ \A r : r[1] \in Rows => (BeforePing(r) <=> r[1] <= l)
  BY LastPingedFacts, MaxRowFacts, MaxSeqAssumption DEF HInv, IInv, CountInv, Rows
<1>2. HistoryRows(cw) = FlattenSeq(texts)
  BY DEF HistoryRows
<1>3. ASSUME NEW s \in 1 .. l
      PROVE  /\ text(s) \in Seq(Line) /\ IsInjective(text(s)) /\ InOrder(text(s))
             /\ Range(text(s)) = lines(s)
  <2>1. s \in Rows
    BY <1>1
  <2> QED BY <2>1, HistoryBlock
<1> HIDE DEF text, l, m
<1>4. /\ texts \in [1 .. l -> Seq(Line)]
      /\ \A s \in 1 .. l : IsInjective(texts[s]) /\ InOrder(texts[s]) /\ Range(texts[s]) = lines(s)
  BY <1>3
<1> HIDE DEF texts
<1>5. \A s \in 1 .. l : \A r \in Range(texts[s]) : r[1] = s
  BY <1>4, LinesOfTheirTick
<1>6. \A s, u \in 1 .. l : s # u => Range(texts[s]) \cap Range(texts[u]) = {}
  BY <1>5
<1>7. \A s, u \in 1 .. l : s < u => \A q \in Range(texts[s]), r \in Range(texts[u]) : Above(q, r)
  BY <1>5 DEF Above
<1>8. /\ IsInjective(FlattenSeq(texts))
      /\ Range(FlattenSeq(texts)) = UNION {Range(texts[s]) : s \in 1 .. l}
  BY <1>1, <1>4, <1>6, FlattenRows
<1>9. InOrder(FlattenSeq(texts))
  BY <1>1, <1>4, <1>7, FlattenInOrder
<1>10. Telling(cw) = {r \in TableLines(cw) : BeforePing(r) /\ ~Blank(r, cw)}
  <2>1. Range(AllRows(cw)) = TableLines(cw)
    BY AllRowsLines, MaxRowFacts DEF HInv, IInv, CountInv
  <2> QED BY <2>1 DEF Telling
<1>11. UNION {Range(texts[s]) : s \in 1 .. l} = Telling(cw)
  <2>1. ASSUME NEW s \in 1 .. l, NEW r \in Range(texts[s]) PROVE r \in Telling(cw)
    <3>1. r \in BlockLines(s, cw) /\ ~Blank(r, cw) /\ r[1] = s
      BY <1>4, <1>5
    <3>2. s \in 1 .. m /\ s <= l /\ s \in Rows
      BY <1>1
    <3>3. r \in TableLines(cw)
      BY <3>1, <3>2 DEF TableLines, m
    <3> QED BY <1>1, <1>10, <3>1, <3>2, <3>3
  <2>2. ASSUME NEW r \in Telling(cw) PROVE \E s \in 1 .. l : r \in Range(texts[s])
    <3>1. r \in TableLines(cw) /\ BeforePing(r) /\ ~Blank(r, cw)
      BY <1>10
    <3>2. PICK s \in 1 .. m : r \in BlockLines(s, cw)
      BY <3>1 DEF TableLines, m
    <3>3. r[1] = s /\ s \in Rows
      BY <1>1, <3>2, LinesOfTheirTick
    <3>4. s \in 1 .. l
      <4>1. s <= l
        BY <1>1, <3>1, <3>3
      <4> QED BY <1>1, <4>1
    <3> QED BY <1>4, <3>1, <3>2, <3>4
  <2> QED BY <2>1, <2>2
<1> QED BY <1>2, <1>8, <1>9, <1>11

LEMMA InitHInv == Init => HInv
<1> SUFFICES ASSUME Init PROVE HInv
  OBVIOUS
<1>1. 1 \in Hosts /\ Absent \in Int /\ Absent <= Absent
  BY TableAssumption DEF Hosts, Absent
<1>2. \A s \in Rows, k \in Kind :
        reg[s][k] = Absent /\ \A h \in Hosts : note[h][s][k] = Absent
  BY DEF Init
<1>3. RegistryTells
  BY <1>1, <1>2 DEF RegistryTells
<1>4. NotesOwn
  BY <1>2 DEF NotesOwn, Kind
<1> QED BY <1>3, <1>4, InitIInv DEF HInv

LEMMA NextHInv == HInv /\ [Next]_vars => HInv'
<1> SUFFICES ASSUME HInv, [Next]_vars PROVE HInv'
  OBVIOUS
<1>1. IInv'
  BY NextIInv DEF HInv
<1>2. CASE UNCHANGED <<note, reg>>
  BY <1>1, <1>2 DEF HInv, RegistryTells, NotesOwn
<1>3. ASSUME NEW h \in Hosts, NEW s \in Rows, NEW k \in Kind, NEW len \in Lengths,
             SetNote(h, s, k, len)
      PROVE  RegistryTells' /\ NotesOwn'
  <2> DEFINE n == IF k \in WholeRow THEN 0 ELSE len
  <2>1. n \in Length /\ n # Absent /\ \A m \in Length \cup {Absent} : m \in Int
    BY TableAssumption DEF Length, Absent
  <2>2. /\ reg \in [Rows -> [Kind -> Length \cup {Absent}]]
        /\ note \in [Hosts -> [Rows -> [Kind -> Length \cup {Absent}]]]
    BY DEF HInv, IInv, CountInv, TypeOK
  <2>3. /\ note' = [note EXCEPT ![h][s][k] = n]
        /\ reg' = IF n > reg[s][k] THEN [reg EXCEPT ![s][k] = n] ELSE reg
    BY <1>3 DEF SetNote
  <2> HIDE DEF n
  <2>4. ASSUME NEW u \in Rows, NEW j \in Kind, ~(u = s /\ j = k)
        PROVE  reg'[u][j] = reg[u][j] /\ \A g \in Hosts : note'[g][u][j] = note[g][u][j]
    BY <2>2, <2>3, <2>4
  <2>5. reg[s][k] \in Int /\ n \in Int /\ reg[s][k] \in Length \cup {Absent}
    BY <2>1, <2>2
  <2>6. reg'[s][k] = IF n > reg[s][k] THEN n ELSE reg[s][k]
    BY <2>2, <2>3
  <2>7. \A g \in Hosts : note'[g][s][k] = IF g = h THEN n ELSE note[g][s][k]
    BY <2>2, <2>3
  <2>8. reg'[s][k] # Absent /\ n <= reg'[s][k] /\ reg[s][k] <= reg'[s][k] /\ reg'[s][k] \in Int
    <3>1. n >= 0 /\ Absent = -1
      BY <2>1, TableAssumption DEF Length, Absent
    <3> QED BY <2>5, <2>6, <3>1
  <2>9. \A g \in Hosts : note'[g][s][k] <= reg'[s][k]
    <3>1. \A g \in Hosts : note[g][s][k] <= reg[s][k] /\ note[g][s][k] \in Int
      BY <2>1, <2>2 DEF HInv, RegistryTells
    <3> QED BY <2>5, <2>7, <2>8, <3>1
  <2>10. note'[h][s][k] # Absent
    BY <2>1, <2>7
  <2>11. RegistryTells'
    BY <2>4, <2>8, <2>9, <2>10 DEF HInv, RegistryTells
  <2>12. NotesOwn'
    <3> SUFFICES ASSUME NEW g \in Hosts, NEW u \in Rows, NEW j \in WholeRow, note'[g][u][j] # Absent
                 PROVE  ErrOf[g] = j
      BY DEF NotesOwn
    <3>1. j \in Kind
      BY DEF Kind
    <3>2. CASE g = h /\ u = s /\ j = k
      <4>1. k \in SharedKind \cup {ErrOf[h]} /\ k \notin SharedKind
        BY <1>3, <3>2, KindsFacts DEF SetNote
      <4> QED BY <3>2, <4>1
    <3>3. CASE ~(g = h /\ u = s /\ j = k)
      <4>1. note'[g][u][j] = note[g][u][j]
        BY <2>2, <2>3, <3>1, <3>3
      <4> QED BY <4>1 DEF HInv, NotesOwn
    <3> QED BY <3>2, <3>3
  <2> QED BY <2>11, <2>12
<1>4. UNCHANGED <<note, reg>> \/ \E h \in Hosts, s \in Rows, k \in Kind, len \in Lengths : SetNote(h, s, k, len)
  BY DEF Next, GridTick, PingSent, PingDone, Renderer, Draw, Key, ScrollTo, notes, vars
<1> QED BY <1>1, <1>2, <1>3, <1>4 DEF HInv

\* Everything that was on the screen up to the last ping is in what is left in the
\* terminal, each row once and tick by tick, and nothing else, whatever notes came,
\* grew and shrank, and whichever columns share a kind of err: notes.
THEOREM HistoryComplete == Spec => []HistoryShowsAll
<1>1. HInv => HistoryShowsAll
  BY HistoryTells
<1> QED BY InitHInv, NextHInv, <1>1, PTL DEF Spec

=============================================================================
