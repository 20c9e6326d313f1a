----------------------------- MODULE Induction ------------------------------
(***************************************************************************)
(* Induction on the natural numbers and on finite sets, what the sums of   *)
(* the community modules add up to, and how their folds and joins of       *)
(* sequences unfold, one place after the other.                            *)
(*                                                                         *)
(* The theorems of the library take the property as an operator.  Here the *)
(* property is a set, that of the values that have it, and the argument is *)
(* the well-foundedness of <: a property that 0 has and every number hands *)
(* on has no least counterexample.                                         *)
(***************************************************************************)
EXTENDS Integers, Sequences, SequencesExt, Functions, FiniteSetsExt, FiniteSetTheorems,
        WellFoundedInduction, TLAPS

Less == {p \in Nat \X Nat : p[1] < p[2]}

LEMMA LessWellFounded == IsWellFoundedOn(Less, Nat)
<1>1. Less = OpToRel(<, Nat)
  BY DEF OpToRel, Less
<1>2. QED
  BY <1>1, NatLessThanWellFounded

\* A set of natural numbers has a least element.
LEMMA LeastNumber ==
    ASSUME NEW T \in SUBSET Nat, T # {}
    PROVE  \E x \in T : \A y \in T : x <= y
<1>1. PICK x \in T : \A y \in T : ~ (<<y, x>> \in Less)
  <2> HIDE DEF Less
  <2>1. QED
    BY LessWellFounded, WFMin
<1>2. \A y \in T : ~ (y < x)
  BY <1>1 DEF Less
<1>3. x \in Nat /\ \A y \in T : y \in Nat
  OBVIOUS
<1>4. QED
  BY <1>2, <1>3

\* A set with 0 and with the successor of each of its numbers has them all.
LEMMA NumbersByInduction ==
    ASSUME NEW T, 0 \in T, \A n \in Nat : n \in T => n + 1 \in T
    PROVE  Nat \subseteq T
<1>1. SUFFICES ASSUME NEW n \in Nat, n \notin T  PROVE FALSE
  OBVIOUS
<1> DEFINE B == Nat \ T
<1>2. B \in SUBSET Nat /\ B # {}
  BY <1>1
<1>3. PICK x \in B : \A y \in B : x <= y
  <2> HIDE DEF B
  <2>1. QED
    BY <1>2, LeastNumber
<1>4. x # 0 /\ x \in Nat /\ x - 1 \in Nat
  OBVIOUS
<1>5. x - 1 \in T
  BY <1>3, <1>4
<1>6. QED
  BY <1>4, <1>5

\* The same for the numbers from a to b.
LEMMA IntervalByInduction ==
    ASSUME NEW a \in Nat, NEW b \in Nat, NEW T, a \in T,
           \A n \in a .. b : n \in T /\ n + 1 <= b => n + 1 \in T
    PROVE  a .. b \subseteq T
<1> DEFINE C == {n \in Nat : n \in a .. b => n \in T}
<1>1. 0 \in C
  OBVIOUS
<1>2. ASSUME NEW n \in Nat, n \in C  PROVE n + 1 \in C
  <2>1. SUFFICES ASSUME n + 1 \in a .. b  PROVE n + 1 \in T
    OBVIOUS
  <2>2. CASE n + 1 = a
    BY <2>2
  <2>3. CASE n + 1 # a
    BY <1>2, <2>1, <2>3
  <2>4. QED
    BY <2>2, <2>3
<1>3. Nat \subseteq C
  <2> HIDE DEF C
  <2>1. QED
    BY <1>1, <1>2, NumbersByInduction
<1>4. QED
  BY <1>3

\* A set of subsets of S has them all if it has the empty one and every one
\* that has an element without which it is in the set.
LEMMA SubsetsByInduction ==
    ASSUME NEW S, IsFiniteSet(S), NEW T, {} \in T,
           \A U \in SUBSET S : U # {} /\ (\A x \in U : U \ {x} \in T) => U \in T
    PROVE  SUBSET S \subseteq T
<1> DEFINE C == {n \in Nat : \A U \in SUBSET S : Cardinality(U) = n => U \in T}
<1>1. \A U \in SUBSET S : IsFiniteSet(U) /\ Cardinality(U) \in Nat
  BY FS_Subset, FS_CardinalityType
<1>2. 0 \in C
  BY <1>1, FS_EmptySet
<1>3. ASSUME NEW n \in Nat, n \in C  PROVE n + 1 \in C
  <2>1. SUFFICES ASSUME NEW U \in SUBSET S, Cardinality(U) = n + 1  PROVE U \in T
    OBVIOUS
  <2>2. U # {}
    <3>1. Cardinality({}) = 0
      BY FS_EmptySet
    <3>2. QED
      BY <2>1, <3>1
  <2>3. ASSUME NEW x \in U  PROVE U \ {x} \in T
    <3>1. Cardinality(U \ {x}) = Cardinality(U) - 1
      BY <1>1, FS_RemoveElement
    <3>2. U \ {x} \in SUBSET S /\ Cardinality(U \ {x}) = n
      BY <2>1, <3>1
    <3>3. QED
      BY <1>3, <3>2
  <2>4. QED
    BY <2>2, <2>3
<1>4. Nat \subseteq C
  <2> HIDE DEF C
  <2>1. QED
    BY <1>2, <1>3, NumbersByInduction
<1>5. QED
  BY <1>1, <1>4

\* A finite set of numbers has a largest one.
LEMMA FiniteSetHasMaximum ==
    ASSUME NEW S \in SUBSET Nat, IsFiniteSet(S), S # {}
    PROVE  \E m \in S : \A n \in S : n <= m
<1> DEFINE T == {s \in SUBSET S : s = {} \/ \E m \in s : \A n \in s : n <= m}
<1>1. {} \in T
  OBVIOUS
<1>2. ASSUME NEW s \in SUBSET S, s # {}, \A a \in s : s \ {a} \in T  PROVE s \in T
  <2>1. PICK a \in s : TRUE
    BY <1>2
  <2>2. s \ {a} = {} \/ \E m \in s \ {a} : \A n \in s \ {a} : n <= m
    BY <1>2, <2>1
  <2>3. CASE s \ {a} = {}
    <3>1. \A n \in s : n <= a
      BY <2>1, <2>3
    <3>2. QED
      BY <2>1, <3>1
  <2>4. CASE \E m \in s \ {a} : \A n \in s \ {a} : n <= m
    <3>1. PICK m \in s \ {a} : \A n \in s \ {a} : n <= m
      BY <2>4
    <3>2. m \in Nat /\ a \in Nat
      BY <2>1, <3>1
    <3>3. CASE a <= m
      BY <3>1, <3>3
    <3>4. CASE ~ (a <= m)
      <4>1. \A n \in s : n <= a
        BY <3>1, <3>2, <3>4
      <4>2. QED
        BY <2>1, <4>1
    <3>5. QED
      BY <3>3, <3>4
  <2>5. QED
    BY <2>2, <2>3, <2>4
<1>3. SUBSET S \subseteq T
  <2> HIDE DEF T
  <2>1. QED
    BY <1>1, <1>2, SubsetsByInduction
<1>4. QED
  BY <1>3

-----------------------------------------------------------------------------
(* Sums. *)

Pick(s) == CHOOSE x \in s : TRUE

\* One round of the recursion that SumFunction is defined by.
SumRound(f, S, g) == [s \in SUBSET S |-> IF s = {} THEN 0 ELSE f[Pick(s)] + g[s \ {Pick(s)}]]

\* The recursion has a solution: n rounds are enough for the sets of n elements.
LEMMA SumRecursion ==
    ASSUME NEW S, IsFiniteSet(S), NEW f
    PROVE  \E g : g = SumRound(f, S, g)
<1> DEFINE Good(g, n) == \A s \in SUBSET S : Cardinality(s) <= n => g[s] = SumRound(f, S, g)[s]
           C == {n \in Nat : \E g : Good(g, n)}
<1>1. \A s \in SUBSET S : IsFiniteSet(s) /\ Cardinality(s) \in Nat
  BY FS_Subset, FS_CardinalityType
<1>2. 0 \in C
  <2>1. \A s \in SUBSET S : Cardinality(s) <= 0 => s = {}
    BY <1>1, FS_EmptySet
  <2>2. Good([s \in SUBSET S |-> 0], 0)
    BY <2>1 DEF SumRound
  <2>3. QED
    BY <2>2
<1>3. ASSUME NEW n \in Nat, n \in C  PROVE n + 1 \in C
  <2>1. PICK g : Good(g, n)
    BY <1>3
  <2> DEFINE h == SumRound(f, S, g)
  <2>2. ASSUME NEW s \in SUBSET S, Cardinality(s) <= n + 1, s # {}
        PROVE  h[s \ {Pick(s)}] = g[s \ {Pick(s)}]
    <3>1. Pick(s) \in s
      BY <2>2 DEF Pick
    <3>2. Cardinality(s \ {Pick(s)}) = Cardinality(s) - 1
      BY <1>1, <3>1, FS_RemoveElement
    <3>3. s \ {Pick(s)} \in SUBSET S /\ Cardinality(s \ {Pick(s)}) <= n
      BY <1>1, <2>2, <3>2
    <3>4. QED
      BY <2>1, <3>3
  <2>3. Good(h, n + 1)
    BY <2>2 DEF SumRound
  <2>4. QED
    BY <2>3
<1>4. Nat \subseteq C
  <2> HIDE DEF C
  <2>1. QED
    BY <1>2, <1>3, NumbersByInduction
<1>5. PICK g : Good(g, Cardinality(S))
  BY <1>1, <1>4
<1> DEFINE h == SumRound(f, S, g)
<1>6. \A s \in SUBSET S : Cardinality(s) <= Cardinality(S)
  BY FS_Subset
<1>7. \A s \in SUBSET S : s \ {Pick(s)} \in SUBSET S
  OBVIOUS
<1>8. \A s \in SUBSET S : h[s \ {Pick(s)}] = g[s \ {Pick(s)}]
  BY <1>5, <1>6, <1>7
<1>9. h = SumRound(f, S, h)
  BY <1>8 DEF SumRound
<1>10. QED
  BY <1>9

\* SumFunction is the value of a solution at the whole domain.
LEMMA SumUnfolds ==
    ASSUME NEW S, IsFiniteSet(S), NEW f, DOMAIN f = S
    PROVE  \E g : g = SumRound(f, S, g) /\ SumFunction(f) = g[S]
<1> DEFINE Solves(g) ==
        g = [s \in SUBSET S |->
                IF s = {} THEN 0
                ELSE f[CHOOSE x \in s : TRUE] + g[s \ {CHOOSE x \in s : TRUE}]]
<1>1. \A g : Solves(g) <=> g = SumRound(f, S, g)
  BY Zenon DEF SumRound, Pick
<1>2. SumFunction(f) = (CHOOSE g : Solves(g))[S]
  BY Zenon DEF SumFunction, SumFunctionOnSet, FoldFunctionOnSet, MapThenFoldSet
<1> HIDE DEF Solves
<1>3. \E g : Solves(g)
  BY <1>1, SumRecursion
<1>4. Solves(CHOOSE g : Solves(g))
  BY <1>3
<1>5. QED
  BY <1>1, <1>2, <1>4

\* Two functions that differ at one place, by k, have sums that differ by k.
LEMMA SumOfUpdate ==
    ASSUME NEW S, IsFiniteSet(S), NEW f \in [S -> Nat], NEW p \in S, NEW k \in Nat,
           NEW h, h = [f EXCEPT ![p] = f[p] + k]
    PROVE  SumFunction(f) \in Nat /\ SumFunction(h) = SumFunction(f) + k
<1>1. h \in [S -> Nat] /\ h[p] = f[p] + k /\ \A x \in S \ {p} : h[x] = f[x]
  OBVIOUS
<1>2. PICK a : a = SumRound(f, S, a) /\ SumFunction(f) = a[S]
  BY SumUnfolds
<1>3. PICK b : b = SumRound(h, S, b) /\ SumFunction(h) = b[S]
  BY <1>1, SumUnfolds
<1> DEFINE T == {s \in SUBSET S : a[s] \in Nat /\ b[s] = a[s] + (IF p \in s THEN k ELSE 0)}
<1>4. {} \in T
  BY <1>2, <1>3 DEF SumRound
<1>5. ASSUME NEW s \in SUBSET S, s # {}, \A x \in s : s \ {x} \in T  PROVE s \in T
  <2> DEFINE x == Pick(s)
  <2>1. x \in s /\ x \in S
    BY <1>5 DEF Pick
  <2>2. s \ {x} \in T
    BY <1>5, <2>1
  <2>3. a[s] = f[x] + a[s \ {x}] /\ b[s] = h[x] + b[s \ {x}]
    BY <1>2, <1>3, <1>5 DEF SumRound
  <2> HIDE DEF x
  <2>4. f[x] \in Nat /\ a[s] \in Nat
    BY <2>1, <2>2, <2>3
  <2>5. CASE x = p
    BY <1>1, <2>1, <2>2, <2>3, <2>4, <2>5
  <2>6. CASE x # p
    BY <1>1, <2>1, <2>2, <2>3, <2>4, <2>6
  <2>7. QED
    BY <2>5, <2>6
<1>6. SUBSET S \subseteq T
  <2> HIDE DEF T
  <2>1. QED
    BY <1>4, <1>5, SubsetsByInduction
<1>7. QED
  BY <1>2, <1>3, <1>6

\* Nothing adds up to zero.
LEMMA SumOfZeros ==
    ASSUME NEW S, IsFiniteSet(S), NEW f, f = [x \in S |-> 0]
    PROVE  SumFunction(f) = 0
<1>1. PICK a : a = SumRound(f, S, a) /\ SumFunction(f) = a[S]
  BY SumUnfolds
<1> DEFINE T == {s \in SUBSET S : a[s] = 0}
<1>2. {} \in T
  BY <1>1 DEF SumRound
<1>3. ASSUME NEW s \in SUBSET S, s # {}, \A x \in s : s \ {x} \in T  PROVE s \in T
  <2>1. Pick(s) \in s /\ Pick(s) \in S
    BY <1>3 DEF Pick
  <2>2. a[s] = f[Pick(s)] + a[s \ {Pick(s)}]
    BY <1>1, <1>3 DEF SumRound
  <2>3. QED
    BY <1>3, <2>1, <2>2
<1>4. SUBSET S \subseteq T
  <2> HIDE DEF T
  <2>1. QED
    BY <1>2, <1>3, SubsetsByInduction
<1>5. QED
  BY <1>1, <1>4

-----------------------------------------------------------------------------
(* Folding a sequence from its first element to its last.  F says what the   *)
(* operation makes of a value and the element at a place; FoldRound is the   *)
(* recursion behind the fold, over sets of places.                           *)

FoldRound(w, n, F, g) ==
    [x \in SUBSET (1 .. n) |-> IF x = {} THEN w ELSE F[<<g[x \ {Max(x)}], Max(x)>>]]

LEMMA MaxIn ==
    ASSUME NEW x \in SUBSET Nat, IsFiniteSet(x), x # {}
    PROVE  Max(x) \in x /\ \A y \in x : y <= Max(x)
<1>1. PICK m \in x : \A n \in x : n <= m
  BY FiniteSetHasMaximum
<1>2. \A n \in x : m >= n
  BY <1>1
<1>3. QED
  BY <1>2 DEF Max

LEMMA MaxOfPrefix ==
    ASSUME NEW k \in Nat \ {0}
    PROVE  Max(1 .. k) = k /\ (1 .. k) \ {k} = 1 .. k - 1
<1>1. 1 .. k \in SUBSET Nat /\ IsFiniteSet(1 .. k) /\ k \in 1 .. k
  BY FS_Interval
<1>2. Max(1 .. k) \in 1 .. k /\ k <= Max(1 .. k)
  BY <1>1, MaxIn
<1>3. QED
  BY <1>2

\* The recursion has a solution.
LEMMA FoldRecursion ==
    ASSUME NEW V, NEW w \in V, NEW n \in Nat, NEW F \in [V \X (1 .. n) -> V]
    PROVE  \E g \in [SUBSET (1 .. n) -> V] : g = FoldRound(w, n, F, g)
<1> DEFINE D == 1 .. n
           G == [SUBSET D -> V]
           Good(g, m) == \A x \in SUBSET D : Cardinality(x) <= m => g[x] = FoldRound(w, n, F, g)[x]
           C == {m \in Nat : \E g \in G : Good(g, m)}
<1>0. IsFiniteSet(D)
  BY FS_Interval
<1>1. IsFiniteSet(D) /\ \A x \in SUBSET D : IsFiniteSet(x) /\ Cardinality(x) \in Nat
  BY <1>0, FS_Subset, FS_CardinalityType
<1>2. \A x \in SUBSET D : x # {} => Max(x) \in x /\ Max(x) \in D /\ x \ {Max(x)} \in SUBSET D
  <2>1. SUFFICES ASSUME NEW x \in SUBSET D, x # {}  PROVE Max(x) \in x
    OBVIOUS
  <2>2. x \in SUBSET Nat /\ IsFiniteSet(x)
    BY <1>1
  <2>3. QED
    BY <2>1, <2>2, MaxIn
<1>3. \A g \in G : FoldRound(w, n, F, g) \in G
  <2> SUFFICES ASSUME NEW g \in G, NEW x \in SUBSET D, x # {}
               PROVE  F[<<g[x \ {Max(x)}], Max(x)>>] \in V
    BY DEF FoldRound
  <2>1. g[x \ {Max(x)}] \in V /\ Max(x) \in D
    BY <1>2
  <2>2. QED
    BY <2>1
<1>4. 0 \in C
  <2>1. \A x \in SUBSET D : Cardinality(x) <= 0 => x = {}
    BY <1>1, FS_EmptySet
  <2>2. Good([x \in SUBSET D |-> w], 0)
    BY <2>1 DEF FoldRound
  <2>3. QED
    BY <2>2
<1>5. ASSUME NEW m \in Nat, m \in C  PROVE m + 1 \in C
  <2>1. PICK g \in G : Good(g, m)
    BY <1>5
  <2> DEFINE h == FoldRound(w, n, F, g)
  <2>2. ASSUME NEW x \in SUBSET D, Cardinality(x) <= m + 1, x # {}
        PROVE  h[x \ {Max(x)}] = g[x \ {Max(x)}]
    <3>1. Max(x) \in x
      BY <1>2, <2>2
    <3>2. Cardinality(x \ {Max(x)}) = Cardinality(x) - 1
      BY <1>1, <3>1, FS_RemoveElement
    <3>3. x \ {Max(x)} \in SUBSET D
      OBVIOUS
    <3>5. Cardinality(x) \in Nat
      BY <1>1
    <3>6. Cardinality(x \ {Max(x)}) <= m
      BY <2>2, <3>2, <3>5
    <3>4. QED
      BY <2>1, <3>3, <3>6
  <2>3. Good(h, m + 1)
    BY <2>2 DEF FoldRound
  <2>4. h \in G
    BY <1>3, <2>1
  <2>5. m + 1 \in Nat
    OBVIOUS
  <2> HIDE DEF G, Good, h
  <2>6. QED
    BY <2>3, <2>4, <2>5
<1>6. Nat \subseteq C
  <2> HIDE DEF C
  <2>1. QED
    BY <1>4, <1>5, NumbersByInduction
<1>7. PICK g \in G : Good(g, Cardinality(D))
  BY <1>1, <1>6
<1> DEFINE h == FoldRound(w, n, F, g)
<1>8. \A x \in SUBSET D : Cardinality(x) <= Cardinality(D)
  BY <1>1, FS_Subset
<1>9. \A x \in SUBSET D : x \ {Max(x)} \in SUBSET D
  OBVIOUS
<1>10. \A x \in SUBSET D : h[x \ {Max(x)}] = g[x \ {Max(x)}]
  BY <1>7, <1>8, <1>9
<1>11. h = FoldRound(w, n, F, h)
  BY <1>10 DEF FoldRound
<1>12. h \in G
  BY <1>3, <1>7
<1>13. QED
  BY <1>11, <1>12

-----------------------------------------------------------------------------
(* What the operators on sequences are made of, for any set of elements.     *)

LEMMA ConcatFacts ==
    ASSUME NEW S, NEW a \in Seq(S), NEW b \in Seq(S)
    PROVE  /\ a \o b \in Seq(S) /\ Len(a \o b) = Len(a) + Len(b)
           /\ DOMAIN (a \o b) = 1 .. Len(a) + Len(b)
           /\ \A i \in 1 .. Len(a) : (a \o b)[i] = a[i]
           /\ \A i \in 1 .. Len(b) : (a \o b)[Len(a) + i] = b[i]
OBVIOUS

LEMMA AppendFacts ==
    ASSUME NEW S, NEW a \in Seq(S), NEW e \in S
    PROVE  /\ Append(a, e) \in Seq(S) /\ Len(Append(a, e)) = Len(a) + 1
           /\ DOMAIN Append(a, e) = 1 .. Len(a) + 1
           /\ \A i \in 1 .. Len(a) : Append(a, e)[i] = a[i]
           /\ Append(a, e)[Len(a) + 1] = e
OBVIOUS

LEMMA SubSeqFacts ==
    ASSUME NEW S, NEW a \in Seq(S), NEW m \in Nat \ {0}, NEW n \in Nat, n <= Len(a), m <= n + 1
    PROVE  /\ SubSeq(a, m, n) \in Seq(S) /\ Len(SubSeq(a, m, n)) = n - m + 1
           /\ \A i \in 1 .. n - m + 1 : SubSeq(a, m, n)[i] = a[m + i - 1]
OBVIOUS

-----------------------------------------------------------------------------
(* Joining sequences from the first to the last. *)

FlattenRound(ss, g) == [i \in 1 .. Len(ss) |-> IF i = 1 THEN ss[i] ELSE g[i - 1] \o ss[i]]

LEMMA FlattenRecursion ==
    ASSUME NEW S, NEW ss \in Seq(Seq(S))
    PROVE  \E g \in [1 .. Len(ss) -> Seq(S)] : g = FlattenRound(ss, g)
<1> DEFINE n == Len(ss)
           G == [1 .. n -> Seq(S)]
           Good(g, m) == \A i \in 1 .. n : i <= m => g[i] = FlattenRound(ss, g)[i]
           C == {m \in Nat : \E g \in G : Good(g, m)}
<1>0. n \in Nat /\ \A i \in 1 .. n : ss[i] \in Seq(S)
  OBVIOUS
<1>1. \A g : \A i \in 1 .. n : FlattenRound(ss, g)[i] = IF i = 1 THEN ss[i] ELSE g[i - 1] \o ss[i]
  BY DEF FlattenRound
<1>2. ASSUME NEW g \in G  PROVE FlattenRound(ss, g) \in G
  <2> SUFFICES ASSUME NEW i \in 1 .. n, i # 1  PROVE g[i - 1] \o ss[i] \in Seq(S)
    BY <1>0 DEF FlattenRound
  <2>1. i - 1 \in 1 .. n
    BY <1>0
  <2>2. g[i - 1] \in Seq(S) /\ ss[i] \in Seq(S)
    BY <1>0, <1>2, <2>1
  <2> HIDE DEF n
  <2>3. QED
    BY <2>2, ConcatFacts
<1>3. 0 \in C
  <2>1. ss \in G
    BY <1>0
  <2>2. Good(ss, 0)
    BY <1>0
  <2> HIDE DEF Good, G
  <2>3. QED
    BY <2>1, <2>2
<1>4. ASSUME NEW m \in Nat, m \in C  PROVE m + 1 \in C
  <2>1. PICK g \in G : Good(g, m)
    BY <1>4
  <2> DEFINE h == FlattenRound(ss, g)
  <2>2. h \in G
    BY <1>2, <2>1
  <2>3. ASSUME NEW i \in 1 .. n, i <= m + 1  PROVE h[i] = FlattenRound(ss, h)[i]
    <3>1. CASE i = 1
      BY <1>1, <3>1
    <3>2. CASE i # 1
      <4>1. i - 1 \in 1 .. n /\ i - 1 <= m
        BY <1>0, <2>3, <3>2
      <4>2. g[i - 1] = h[i - 1]
        BY <2>1, <4>1
      <4>3. h[i] = g[i - 1] \o ss[i]
        BY <1>1, <3>2
      <4> HIDE DEF h
      <4>4. FlattenRound(ss, h)[i] = h[i - 1] \o ss[i]
        BY <1>1, <3>2
      <4>5. QED
        BY <4>2, <4>3, <4>4
    <3>3. QED
      BY <3>1, <3>2
  <2>4. Good(h, m + 1) /\ m + 1 \in Nat
    BY <2>3
  <2> HIDE DEF Good, G, h
  <2>5. QED
    BY <2>2, <2>4
<1>5. n \in C
  <2> HIDE DEF C
  <2>1. QED
    BY <1>0, <1>3, <1>4, NumbersByInduction
<1>6. PICK g \in G : Good(g, n)
  BY <1>5
<1>7. FlattenRound(ss, g) = [i \in 1 .. n |-> FlattenRound(ss, g)[i]]
  BY DEF FlattenRound
<1>8. \A i \in 1 .. n : g[i] = FlattenRound(ss, g)[i]
  <2>1. \A i \in 1 .. n : i <= n
    BY <1>0
  <2>2. QED
    BY <1>6, <2>1
<1>9. g = FlattenRound(ss, g)
  BY <1>6, <1>7, <1>8
<1>10. QED
  BY <1>6, <1>9

\* FlattenSeq joins them one by one.
LEMMA FlattenFacts ==
    ASSUME NEW S, NEW ss \in Seq(Seq(S)), Len(ss) # 0
    PROVE  \E g \in [1 .. Len(ss) -> Seq(S)] :
              /\ g[1] = ss[1]
              /\ \A i \in 1 .. Len(ss) : i # 1 => g[i] = g[i - 1] \o ss[i]
              /\ FlattenSeq(ss) = g[Len(ss)]
<1> DEFINE Solves(g) == g = [i \in 1 .. Len(ss) |-> IF i = 1 THEN ss[i] ELSE g[i - 1] \o ss[i]]
           G == [1 .. Len(ss) -> Seq(S)]
<1>1. \A g : Solves(g) <=> g = FlattenRound(ss, g)
  BY Zenon DEF FlattenRound
<1>2. FlattenSeq(ss) = (CHOOSE g : Solves(g))[Len(ss)]
  BY Zenon DEF FlattenSeq
<1>3. PICK f \in G : f = FlattenRound(ss, f)
  BY FlattenRecursion
<1> DEFINE g == CHOOSE g : Solves(g)
<1>4. Solves(g)
  <2>1. Solves(f)
    BY <1>1, <1>3
  <2> HIDE DEF Solves
  <2>2. QED
    BY <2>1
<1> HIDE DEF g
<1>5. Len(ss) \in Nat \ {0} /\ g = FlattenRound(ss, g)
  <2>1. Len(ss) \in Nat \ {0}
    OBVIOUS
  <2> HIDE DEF Solves
  <2>2. QED
    BY <1>1, <1>4, <2>1
<1>6. \A i \in 1 .. Len(ss) : g[i] = IF i = 1 THEN ss[i] ELSE g[i - 1] \o ss[i]
  BY <1>5 DEF FlattenRound
<1>7. DOMAIN g = 1 .. Len(ss)
  BY <1>5 DEF FlattenRound
<1>8. \A i \in 1 .. Len(ss) : g[i] \in Seq(S)
  <2> DEFINE C == {m \in Nat : m \in 1 .. Len(ss) => g[m] \in Seq(S)}
  <2>1. 0 \in C
    BY <1>5
  <2>2. ASSUME NEW m \in Nat, m \in C  PROVE m + 1 \in C
    <3>1. SUFFICES ASSUME m + 1 \in 1 .. Len(ss)  PROVE g[m + 1] \in Seq(S)
      OBVIOUS
    <3>2. ss[m + 1] \in Seq(S)
      BY <3>1
    <3>3. CASE m = 0
      BY <1>6, <3>1, <3>2, <3>3
    <3>4. CASE m # 0
      <4>1. m \in 1 .. Len(ss) /\ (m + 1) - 1 = m /\ m + 1 # 1
        BY <1>5, <3>1, <3>4
      <4>2. g[m] \in Seq(S)
        BY <2>2, <4>1
      <4>3. g[m + 1] = g[m] \o ss[m + 1]
        BY <1>6, <3>1, <4>1
      <4>4. QED
        BY <3>2, <4>2, <4>3, ConcatFacts
    <3>5. QED
      BY <3>3, <3>4
  <2> HIDE DEF C
  <2>3. Nat \subseteq C
    BY <2>1, <2>2, NumbersByInduction
  <2>4. QED
    BY <1>5, <2>3 DEF C
<1>9. g \in [1 .. Len(ss) -> Seq(S)]
  <2>1. g = [i \in 1 .. Len(ss) |-> g[i]]
    BY <1>5 DEF FlattenRound
  <2>2. QED
    BY <1>8, <2>1
<1>10. 1 \in 1 .. Len(ss)
  BY <1>5
<1>11. FlattenSeq(ss) = g[Len(ss)]
  BY <1>2 DEF g
<1>12. QED
  BY <1>6, <1>9, <1>10, <1>11
=============================================================================
