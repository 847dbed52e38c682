----------------------------- MODULE DataLemmas -----------------------------
(***************************************************************************)
(* Lemmas on the data that the models are built from: induction over       *)
(* numbers and finite sets, quotients, sums, and sorting.  Induction is    *)
(* used in the form that a set of naturals has a least element, with a set *)
(* in place of the predicate.                                              *)
(***************************************************************************)
EXTENDS Sorting, FiniteSetTheorems, WellFoundedInduction, TLAPS

-----------------------------------------------------------------------------
(* Induction *)

\* A set of naturals has a least element.
LEMMA LeastElement == ASSUME NEW T, T \subseteq Nat, T # {} PROVE \E n \in T : \A k \in T : n <= k
<1> DEFINE R == {ss \in Nat \X Nat : ss[1] < ss[2]}
<1>1. IsWellFoundedOn(R, Nat)
    BY NatLessThanWellFounded DEF OpToRel
<1>2. \A k, n \in Nat : k < n => <<k, n>> \in R
    OBVIOUS
<1> HIDE DEF R
<1>3. PICK n \in T : \A k \in T : ~(<<k, n>> \in R)
    BY <1>1, WFMin, Zenon
<1>4. \A k \in T : k \in Nat /\ n \in Nat /\ ~(k < n)
    BY <1>2, <1>3, Zenon
<1>5. \A k \in T : n <= k
    BY <1>4
<1> QED BY <1>5

\* Induction up to a bound, with a set for the predicate.
LEMMA BoundedInduction ==
    ASSUME NEW n \in Nat, NEW X, 0 \in X, \A k \in 0..(n - 1) : k \in X => k + 1 \in X
    PROVE  \A k \in 0..n : k \in X
<1> DEFINE T == {k \in 0..n : k \notin X}
<1> SUFFICES ASSUME T # {} PROVE FALSE
    OBVIOUS
<1>1. PICK m \in T : \A k \in T : m <= k
  <2>1. T \subseteq Nat
      OBVIOUS
  <2> HIDE DEF T
  <2> QED BY <2>1, LeastElement, Zenon
<1>2. m \in 0..n /\ m \notin X /\ m # 0
    BY <1>1
<1>3. m - 1 \in 0..(n - 1) /\ m - 1 \in 0..n /\ ~(m <= m - 1) /\ (m - 1) + 1 = m
    BY <1>2
<1>4. m - 1 \in X
    BY <1>1, <1>3, Zenon
<1> QED BY <1>2, <1>3, <1>4, Zenon

\* What holds of a subset whenever it holds of the smaller ones holds of a finite set.
LEMMA SetInduction ==
    ASSUME NEW S, IsFiniteSet(S), NEW X,
           \A s \in SUBSET S : (\A t \in SUBSET s : t # s => t \in X) => s \in X
    PROVE  S \in X
<1> SUFFICES ASSUME S \notin X PROVE FALSE
    OBVIOUS
<1> DEFINE N == {Cardinality(s) : s \in {u \in SUBSET S : u \notin X}}
<1>1. \A s \in SUBSET S : IsFiniteSet(s) /\ Cardinality(s) \in Nat
    BY FS_Subset, FS_CardinalityType
<1>2. N \subseteq Nat /\ N # {}
    BY <1>1
<1>3. PICK n \in N : \A k \in N : n <= k
    BY <1>2, LeastElement, Zenon
<1>4. PICK s \in SUBSET S : s \notin X /\ Cardinality(s) = n
    OBVIOUS
<1>5. PICK t \in SUBSET s : t # s /\ t \notin X
    BY <1>4
<1>6. Cardinality(t) \in N
    BY <1>5
<1>7. Cardinality(t) <= Cardinality(s) /\ Cardinality(t) # Cardinality(s)
    BY <1>1, <1>5, FS_Subset
<1> HIDE DEF N
<1> QED BY <1>1, <1>3, <1>4, <1>6, <1>7

-----------------------------------------------------------------------------
(* Sums over a finite set *)

Choice(s) == CHOOSE x \in s : TRUE

\* g has the sums of f over all subsets of S.
IsSummation(g, f, S) ==
    g = [s \in SUBSET S |-> IF s = {} THEN 0 ELSE f[Choice(s)] + g[s \ {Choice(s)}]]

Summation(f, S) == CHOOSE g : IsSummation(g, f, S)

LEMMA SumDef == ASSUME NEW f, NEW S PROVE SumFunctionOnSet(f, S) = Summation(f, S)[S]
BY Zenon DEF SumFunctionOnSet, FoldFunctionOnSet, MapThenFoldSet, Summation, IsSummation, Choice

LEMMA ChoiceIn == ASSUME NEW s, s # {} PROVE Choice(s) \in s
BY DEF Choice

\* Two summations agree where both are defined.
LEMMA SummationUnique ==
    ASSUME NEW f, NEW S, NEW T, NEW g, NEW h, IsSummation(g, f, S), IsSummation(h, f, T),
           NEW u, u \subseteq S, u \subseteq T, IsFiniteSet(u)
    PROVE  g[u] = h[u]
<1> DEFINE X == {s \in SUBSET u : g[s] = h[s]}
<1>1. ASSUME NEW s \in SUBSET u, \A t \in SUBSET s : t # s => t \in X PROVE s \in X
  <2>1. s \in SUBSET S /\ s \in SUBSET T
      OBVIOUS
  <2>2. g[s] = IF s = {} THEN 0 ELSE f[Choice(s)] + g[s \ {Choice(s)}]
      BY <2>1, Zenon DEF IsSummation
  <2>3. h[s] = IF s = {} THEN 0 ELSE f[Choice(s)] + h[s \ {Choice(s)}]
      BY <2>1, Zenon DEF IsSummation
  <2>4. CASE s = {}
      BY <2>2, <2>3, <2>4
  <2>5. CASE s # {}
    <3>1. s \ {Choice(s)} \in SUBSET s /\ s \ {Choice(s)} # s
        BY <2>5, ChoiceIn
    <3>2. g[s \ {Choice(s)}] = h[s \ {Choice(s)}]
        BY <1>1, <3>1
    <3> QED BY <2>2, <2>3, <2>5, <3>2
  <2> QED BY <2>4, <2>5
<1> HIDE DEF X
<1>2. u \in X
    BY <1>1, SetInduction
<1> QED BY <1>2 DEF X

\* A finite set has a summation.
LEMMA SummationExists ==
    ASSUME NEW f, NEW S, IsFiniteSet(S)
    PROVE  IsSummation(Summation(f, S), f, S)
<1> DEFINE X == {s \in SUBSET S : IsSummation(Summation(f, s), f, s)}
<1>1. ASSUME NEW s \in SUBSET S, \A t \in SUBSET s : t # s => t \in X PROVE s \in X
  <2> DEFINE A(t) == Summation(f, t)[t]
             Rest(t) == t \ {Choice(t)}
             B(t) == IF t = {} THEN 0 ELSE f[Choice(t)] + A(Rest(t))
             g == [t \in SUBSET s |-> B(t)]
  <2>1. ASSUME NEW t \in SUBSET s, t # s PROVE A(t) = B(t)
    <3>1. IsSummation(Summation(f, t), f, t)
        BY <1>1, <2>1
    <3>2. A(t) = IF t = {} THEN 0 ELSE f[Choice(t)] + Summation(f, t)[Rest(t)]
        BY <3>1, Zenon DEF IsSummation
    <3>3. CASE t # {}
      <4>1. Rest(t) \in SUBSET s /\ Rest(t) # s /\ Rest(t) \subseteq t /\ IsFiniteSet(Rest(t))
          BY <3>3, ChoiceIn, FS_Subset
      <4>2. IsSummation(Summation(f, Rest(t)), f, Rest(t))
          BY <1>1, <4>1
      <4>3. Summation(f, t)[Rest(t)] = A(Rest(t))
          BY <3>1, <4>1, <4>2, SummationUnique
      <4> QED BY <3>2, <3>3, <4>3
    <3> QED BY <3>2, <3>3
  <2>2. ASSUME NEW t \in SUBSET s, t # {} PROVE g[Rest(t)] = A(Rest(t))
    <3>1. Rest(t) \in SUBSET s /\ Rest(t) # s
        BY <2>2, ChoiceIn
    <3> QED BY <2>1, <3>1, Zenon
  <2>3. IsSummation(g, f, s)
    <3>1. \A t \in SUBSET s : g[t] = IF t = {} THEN 0 ELSE f[Choice(t)] + g[Rest(t)]
        BY <2>2, Zenon
    <3> HIDE DEF B
    <3>2. g = [t \in SUBSET s |-> g[t]]
        OBVIOUS
    <3> HIDE DEF g
    <3> QED BY <3>1, <3>2, Zenon DEF IsSummation
  <2>4. IsSummation(Summation(f, s), f, s)
      BY <2>3, Zenon DEF Summation
  <2> QED BY <2>4
<1> HIDE DEF X
<1>2. S \in X
    BY <1>1, SetInduction
<1> QED BY <1>2 DEF X

LEMMA SumEmpty == ASSUME NEW f PROVE SumFunctionOnSet(f, {}) = 0
<1>1. IsSummation(Summation(f, {}), f, {})
    BY SummationExists, FS_EmptySet
<1>2. Summation(f, {})[{}] = 0
    BY <1>1, Zenon DEF IsSummation
<1> QED BY <1>2, SumDef

LEMMA SumChoice ==
    ASSUME NEW f, NEW S, IsFiniteSet(S), S # {}
    PROVE  SumFunctionOnSet(f, S) = f[Choice(S)] + SumFunctionOnSet(f, S \ {Choice(S)})
<1> DEFINE T == S \ {Choice(S)}
<1>1. IsSummation(Summation(f, S), f, S)
    BY SummationExists
<1>2. IsFiniteSet(T)
    BY FS_Subset
<1>3. IsSummation(Summation(f, T), f, T)
    BY <1>2, SummationExists
<1>4. Summation(f, S)[S] = f[Choice(S)] + Summation(f, S)[T]
    BY <1>1, Zenon DEF IsSummation
<1>5. Summation(f, S)[T] = Summation(f, T)[T]
    BY <1>1, <1>2, <1>3, SummationUnique
<1>6. SumFunctionOnSet(f, S) = Summation(f, S)[S] /\ SumFunctionOnSet(f, T) = Summation(f, T)[T]
    BY SumDef
<1> HIDE DEF T
<1>7. SumFunctionOnSet(f, S) = f[Choice(S)] + SumFunctionOnSet(f, T)
    BY <1>4, <1>5, <1>6
<1> QED BY <1>7 DEF T

\* A sum of naturals is a natural.
LEMMA SumType ==
    ASSUME NEW f, NEW S, IsFiniteSet(S), \A x \in S : f[x] \in Nat
    PROVE  SumFunctionOnSet(f, S) \in Nat
<1> DEFINE X == {s \in SUBSET S : SumFunctionOnSet(f, s) \in Nat}
<1>1. ASSUME NEW s \in SUBSET S, \A t \in SUBSET s : t # s => t \in X PROVE s \in X
  <2>1. CASE s = {}
      BY <2>1, SumEmpty
  <2>2. CASE s # {}
    <3>1. Choice(s) \in s /\ IsFiniteSet(s)
        BY <2>2, ChoiceIn, FS_Subset
    <3>2. SumFunctionOnSet(f, s \ {Choice(s)}) \in Nat
        BY <1>1, <3>1
    <3>3. SumFunctionOnSet(f, s) = f[Choice(s)] + SumFunctionOnSet(f, s \ {Choice(s)})
        BY <2>2, <3>1, SumChoice
    <3>4. SumFunctionOnSet(f, s) \in Nat
        BY <3>1, <3>2, <3>3
    <3> QED BY <3>4
  <2> QED BY <2>1, <2>2
<1> HIDE DEF X
<1>2. S \in X
    BY <1>1, SetInduction
<1> QED BY <1>2 DEF X

\* Any element may be taken out first.
LEMMA SumRemove ==
    ASSUME NEW f, NEW S, IsFiniteSet(S), \A x \in S : f[x] \in Nat, NEW e \in S
    PROVE  SumFunctionOnSet(f, S) = f[e] + SumFunctionOnSet(f, S \ {e})
<1> DEFINE Sum(s) == SumFunctionOnSet(f, s)
           X == {s \in SUBSET S : \A x \in s : Sum(s) = f[x] + Sum(s \ {x})}
<1>0. \A s \in SUBSET S : IsFiniteSet(s) /\ Sum(s) \in Nat
  <2> SUFFICES ASSUME NEW s \in SUBSET S PROVE IsFiniteSet(s) /\ Sum(s) \in Nat
      OBVIOUS
  <2>1. IsFiniteSet(s)
      BY FS_Subset
  <2> QED BY <2>1, SumType
<1>1. ASSUME NEW s \in SUBSET S, \A t \in SUBSET s : t # s => t \in X PROVE s \in X
  <2> SUFFICES ASSUME NEW x \in s PROVE Sum(s) = f[x] + Sum(s \ {x})
      OBVIOUS
  <2> DEFINE c == Choice(s)
             Both == s \ {x, c}
  <2>1. c \in s /\ Sum(s) = f[c] + Sum(s \ {c})
      BY <1>0, ChoiceIn, SumChoice
  <2> HIDE DEF c
  <2>2. CASE x # c
    <3>1. (s \ {c}) \ {x} = Both /\ (s \ {x}) \ {c} = Both
        OBVIOUS
    <3>2. s \ {c} \in X /\ s \ {x} \in X
        BY <1>1, <2>1
    <3>3. Sum(s \ {c}) = f[x] + Sum((s \ {c}) \ {x})
        BY <2>2, <3>2, Zenon
    <3>4. Sum(s \ {x}) = f[c] + Sum((s \ {x}) \ {c})
        BY <2>1, <2>2, <3>2
    <3>5. Sum((s \ {c}) \ {x}) = Sum(Both) /\ Sum((s \ {x}) \ {c}) = Sum(Both)
        BY <3>1, Zenon
    <3>6. Sum(Both) \in Nat /\ f[x] \in Nat /\ f[c] \in Nat
        BY <1>0, <2>1
    <3> HIDE DEF Sum, Both
    <3> QED BY <2>1, <3>3, <3>4, <3>5, <3>6
  <2> QED BY <2>1, <2>2
<1> HIDE DEF X
<1>2. S \in X
    BY <1>1, SetInduction
<1> QED BY <1>2 DEF X

\* The sum depends on the summands only.
LEMMA SumSame ==
    ASSUME NEW f, NEW g, NEW S, IsFiniteSet(S), \A x \in S : f[x] = g[x]
    PROVE  SumFunctionOnSet(f, S) = SumFunctionOnSet(g, S)
<1> DEFINE X == {s \in SUBSET S : SumFunctionOnSet(f, s) = SumFunctionOnSet(g, s)}
<1>1. ASSUME NEW s \in SUBSET S, \A t \in SUBSET s : t # s => t \in X PROVE s \in X
  <2>1. CASE s = {}
      BY <2>1, SumEmpty
  <2>2. CASE s # {}
    <3> DEFINE rest == s \ {Choice(s)}
    <3>1. Choice(s) \in s /\ IsFiniteSet(s)
        BY <2>2, ChoiceIn, FS_Subset
    <3>2. SumFunctionOnSet(f, rest) = SumFunctionOnSet(g, rest)
        BY <1>1, <3>1
    <3>3. /\ SumFunctionOnSet(f, s) = f[Choice(s)] + SumFunctionOnSet(f, rest)
          /\ SumFunctionOnSet(g, s) = g[Choice(s)] + SumFunctionOnSet(g, rest)
        BY <2>2, <3>1, SumChoice
    <3>4. f[Choice(s)] = g[Choice(s)]
        BY <3>1
    <3> HIDE DEF rest
    <3>5. SumFunctionOnSet(f, s) = SumFunctionOnSet(g, s)
        BY <3>2, <3>3, <3>4
    <3> QED BY <3>5
  <2> QED BY <2>1, <2>2
<1> HIDE DEF X
<1>2. S \in X
    BY <1>1, SetInduction
<1> QED BY <1>2 DEF X

\* A part of the set, and what is left.
LEMMA SumSplit ==
    ASSUME NEW f, NEW S, IsFiniteSet(S), \A x \in S : f[x] \in Nat, NEW T \in SUBSET S
    PROVE  SumFunctionOnSet(f, S) = SumFunctionOnSet(f, T) + SumFunctionOnSet(f, S \ T)
<1> DEFINE Sum(s) == SumFunctionOnSet(f, s)
           X == {s \in SUBSET T : Sum(S) = Sum(s) + Sum(S \ s)}
<1>0. \A s \in SUBSET S : IsFiniteSet(s) /\ Sum(s) \in Nat
  <2> SUFFICES ASSUME NEW s \in SUBSET S PROVE IsFiniteSet(s) /\ Sum(s) \in Nat
      OBVIOUS
  <2>1. IsFiniteSet(s)
      BY FS_Subset
  <2> QED BY <2>1, SumType
<1>1. ASSUME NEW s \in SUBSET T, \A t \in SUBSET s : t # s => t \in X PROVE s \in X
  <2>1. CASE s = {}
    <3>1. S \ s = S
        BY <2>1
    <3>2. Sum(s) = 0 /\ Sum(S \ s) = Sum(S)
        BY <2>1, <3>1, SumEmpty, Zenon
    <3>3. Sum(S) \in Nat
        BY <1>0
    <3> HIDE DEF Sum
    <3>4. Sum(S) = Sum(s) + Sum(S \ s)
        BY <3>2, <3>3
    <3> QED BY <3>4
  <2>2. CASE s # {}
    <3>1. PICK x : x \in s
        BY <2>2
    <3> DEFINE t == s \ {x}
    <3>2. t \in X /\ s \in SUBSET S /\ t \in SUBSET S /\ S \ s \in SUBSET S /\ S \ t \in SUBSET S
        BY <1>1, <3>1
    <3>3. Sum(S) = Sum(t) + Sum(S \ t)
        BY <3>2
    <3>4. Sum(s) = f[x] + Sum(t)
        BY <1>0, <3>1, SumRemove
    <3>5. Sum(S \ t) = f[x] + Sum((S \ t) \ {x})
      <4>1. x \in S \ t /\ IsFiniteSet(S \ t)
          BY <1>0, <3>1, <3>2
      <4> QED BY <4>1, SumRemove
    <3>6. (S \ t) \ {x} = S \ s
        BY <3>1
    <3>7. Sum((S \ t) \ {x}) = Sum(S \ s)
        BY <3>6, Zenon
    <3>8. f[x] \in Nat /\ Sum(t) \in Nat /\ Sum(S \ s) \in Nat
        BY <1>0, <3>1, <3>2
    <3> HIDE DEF Sum, t
    <3>9. Sum(S) = Sum(s) + Sum(S \ s)
        BY <3>3, <3>4, <3>5, <3>7, <3>8
    <3> QED BY <3>9
  <2> QED BY <2>1, <2>2
<1> HIDE DEF X
<1>2. IsFiniteSet(T)
    BY <1>0
<1>3. T \in X
    BY <1>1, <1>2, SetInduction
<1> QED BY <1>3 DEF X

-----------------------------------------------------------------------------
(* Quotients *)

LEMMA DivMod ==
    ASSUME NEW n \in Nat, NEW k \in Nat \ {0}
    PROVE  n \div k \in Int /\ n % k \in 0..(k - 1) /\ n = k * (n \div k) + (n % k)
OBVIOUS

\* The quotient is the number of whole multiples.
LEMMA QuotientIs ==
    ASSUME NEW x \in Nat, NEW d \in Nat \ {0}, NEW q \in Int
    PROVE  x \div d = q <=> (d * q <= x /\ x < d * (q + 1))
<1> DEFINE u == x \div d
           r == x % d
<1>1. u \in Int /\ r \in 0..(d - 1) /\ x = d * u + r
    BY DivMod
<1> HIDE DEF u, r
<1>2. d * (u + 1) = d * u + d
    BY <1>1
<1>3. CASE q = u
    BY <1>1, <1>2, <1>3 DEF u
<1>4. CASE q >= u + 1
  <2>1. d * q >= d * (u + 1)
      BY <1>1, <1>4
  <2> QED BY <1>1, <1>2, <1>4, <2>1 DEF u
<1>5. CASE q + 1 <= u
  <2>1. d * (q + 1) <= d * u
      BY <1>1, <1>5
  <2> QED BY <1>1, <1>5, <2>1 DEF u
<1> QED BY <1>1, <1>3, <1>4, <1>5

LEMMA Scaled ==
    ASSUME NEW a \in Int, NEW b \in Int, NEW c \in Nat, a <= b
    PROVE  a * c \in Int /\ b * c \in Int /\ a * c <= b * c
OBVIOUS

\* The first of n positions at which h times the position reaches x.
Reaches(x, h, n, q) ==
    x \in Nat \ {0} /\ q \in 1..n /\ h * q >= x /\ h * (q - 1) < x

\* The rank of c out of h among n, rounded up.
LEMMA RankRoundedUp ==
    ASSUME NEW h \in Nat \ {0}, NEW n \in Nat \ {0}, NEW c \in 1..h
    PROVE  Reaches(c * n, h, n, (c * n + h - 1) \div h)
<1> DEFINE x == c * n
           q == (x + h - 1) \div h
<1>1. 1 * n <= x /\ x <= h * n /\ x \in Int
    BY Scaled
<1>2. 1 * n = n
    OBVIOUS
<1>3. x \in Nat \ {0} /\ x <= h * n
  <2> HIDE DEF x
  <2> QED BY <1>1, <1>2
<1> HIDE DEF x
<1>4. x + h - 1 \in Nat
    BY <1>3
<1>5. q \in Int /\ h * q <= x + h - 1 /\ x + h - 1 < h * (q + 1)
  <2>1. q \in Int
      BY <1>4, DivMod
  <2> QED BY <1>4, <2>1, QuotientIs
<1> HIDE DEF q
<1>6. h * (q + 1) = h * q + h /\ h * (q - 1) = h * q - h /\ h * q \in Int /\ h * n \in Int
    BY <1>5
<1>7. h * q >= x /\ h * (q - 1) < x
    BY <1>3, <1>5, <1>6
<1>8. q \in 1..n
  <2>1. q <= 0 => h * q <= 0
      BY <1>5
  <2>2. q >= n + 1 => h * (q - 1) >= h * n
      BY <1>5
  <2> QED BY <1>3, <1>5, <1>6, <1>7, <2>1, <2>2
<1> QED BY <1>3, <1>7, <1>8, Zenon DEF x, q, Reaches

-----------------------------------------------------------------------------
(* Counting *)

\* A subset is at most as large; two parts of a set add up.
LEMMA CountSubset ==
    ASSUME NEW S, IsFiniteSet(S), NEW T \in SUBSET S
    PROVE  IsFiniteSet(T) /\ Cardinality(T) \in Nat /\ Cardinality(T) <= Cardinality(S)
BY FS_Subset, FS_CardinalityType

LEMMA CountSplit ==
    ASSUME NEW S, IsFiniteSet(S), NEW T \in SUBSET S
    PROVE  /\ Cardinality(S) = Cardinality(T) + Cardinality(S \ T)
           /\ Cardinality(T) \in Nat /\ Cardinality(S \ T) \in Nat
<1>1. S \cap T = T
    OBVIOUS
<1>2. Cardinality(S \ T) = Cardinality(S) - Cardinality(T)
    BY <1>1, FS_Difference, Zenon
<1>3. Cardinality(S) \in Nat /\ Cardinality(T) \in Nat /\ Cardinality(S \ T) \in Nat
    BY CountSubset, FS_CardinalityType
<1> QED BY <1>2, <1>3

\* Counting by key: the elements whose key is in B, from the numbers for each key.
Counts(count, B, S, key) == \A b \in B : count[b] = Cardinality({i \in S : key[i] = b})
Keyed(S, key, B) == {i \in S : key[i] \in B}

LEMMA CountByKey ==
    ASSUME NEW S, IsFiniteSet(S), NEW B, IsFiniteSet(B), NEW key, NEW count, Counts(count, B, S, key)
    PROVE  SumFunctionOnSet(count, B) = Cardinality(Keyed(S, key, B))
<1> DEFINE Of(b) == {i \in S : key[i] = b}
           In(C) == {i \in S : key[i] \in C}
           X == {C \in SUBSET B : SumFunctionOnSet(count, C) = Cardinality(In(C))}
<1>0. \A b \in B : count[b] \in Nat
  <2>1. \A b : Of(b) \in SUBSET S
      OBVIOUS
  <2>2. \A b : Cardinality(Of(b)) \in Nat
      BY <2>1, CountSubset, Zenon
  <2> QED BY <2>2, Zenon DEF Counts
<1>1. ASSUME NEW C \in SUBSET B, \A D \in SUBSET C : D # C => D \in X PROVE C \in X
  <2>0. IsFiniteSet(C)
      BY FS_Subset
  <2>1. CASE C = {}
    <3>1. In(C) = {}
        BY <2>1
    <3>2. Cardinality(In(C)) = 0
        BY <3>1, FS_EmptySet, Zenon
    <3>3. SumFunctionOnSet(count, C) = 0
        BY <2>1, SumEmpty, Zenon
    <3> QED BY <3>2, <3>3
  <2>2. CASE C # {}
    <3>1. PICK b : b \in C
        BY <2>2
    <3> DEFINE D == C \ {b}
    <3>2. D \in X
        BY <1>1, <3>1
    <3>3. SumFunctionOnSet(count, C) = count[b] + SumFunctionOnSet(count, D)
      <4>1. \A x \in C : count[x] \in Nat
          BY <1>0
      <4> QED BY <2>0, <3>1, <4>1, SumRemove
    <3>4. Of(b) \in SUBSET In(C) /\ In(C) \ Of(b) = In(D) /\ In(C) \in SUBSET S
        BY <3>1
    <3> HIDE DEF D, In, Of
    <3>5. IsFiniteSet(In(C))
        BY <3>4, FS_Subset
    <3>6. Cardinality(In(C)) = Cardinality(Of(b)) + Cardinality(In(C) \ Of(b))
        BY <3>4, <3>5, CountSplit, Zenon
    <3>7. count[b] = Cardinality(Of(b))
        BY <3>1, Zenon DEF Of, Counts
    <3>8. SumFunctionOnSet(count, D) = Cardinality(In(D))
        BY <3>2 DEF In
    <3>9. SumFunctionOnSet(count, C) = Cardinality(In(C))
        BY <3>3, <3>4, <3>6, <3>7, <3>8, Zenon
    <3> QED BY <3>9, Zenon DEF In
  <2> QED BY <2>1, <2>2
<1> HIDE DEF X
<1>2. B \in X
    BY <1>1, SetInduction, Zenon
<1> QED BY <1>2, Zenon DEF X, Keyed

\* The image of a finite set under a function is finite.
LEMMA FiniteImage ==
    ASSUME NEW S, IsFiniteSet(S), NEW f
    PROVE  IsFiniteSet({f[x] : x \in S}) /\ Cardinality({f[x] : x \in S}) <= Cardinality(S)
<1> DEFINE T == {f[x] : x \in S}
           g == [x \in S |-> f[x]]
<1>1. g \in Surjection(S, T)
    BY DEF Surjection
<1> QED BY <1>1, FS_Surjection

-----------------------------------------------------------------------------
(* Sorting *)

\* A finite set has an element with the largest key.
LEMMA LargestKey ==
    ASSUME NEW S, IsFiniteSet(S), S # {}, NEW key, \A x \in S : key[x] \in Int
    PROVE  \E x \in S : \A y \in S : key[y] <= key[x]
<1> DEFINE Top(s) == \E x \in s : \A y \in s : key[y] <= key[x]
           X == {s \in SUBSET S : s # {} => Top(s)}
<1>1. ASSUME NEW s \in SUBSET S, \A t \in SUBSET s : t # s => t \in X PROVE s \in X
  <2> SUFFICES ASSUME s # {} PROVE Top(s)
      OBVIOUS
  <2>1. PICK e : e \in s
      OBVIOUS
  <2>2. CASE s \ {e} = {}
      BY <2>1, <2>2
  <2>3. CASE s \ {e} # {}
    <3>1. s \ {e} \in X
        BY <1>1, <2>1
    <3>2. PICK x \in s \ {e} : \A y \in s \ {e} : key[y] <= key[x]
        BY <2>3, <3>1
    <3>3. CASE key[e] <= key[x]
        BY <3>2, <3>3
    <3>4. CASE ~(key[e] <= key[x])
        BY <2>1, <3>2, <3>4
    <3> QED BY <3>3, <3>4
  <2> QED BY <2>2, <2>3
<1> HIDE DEF X
<1>2. S \in X
    BY <1>1, SetInduction, Zenon
<1> QED BY <1>2, Zenon DEF X

\* A finite set can be sorted by a key.
LEMMA SortedOrder ==
    ASSUME NEW S, IsFiniteSet(S), NEW key, \A x \in S : key[x] \in Int
    PROVE  \E s \in Injection(1..Cardinality(S), S) :
              \A i, j \in DOMAIN s : i < j => key[s[i]] <= key[s[j]]
<1> DEFINE Ordered(s, T) == s \in Injection(1..Cardinality(T), T)
                           /\ \A i, j \in DOMAIN s : i < j => key[s[i]] <= key[s[j]]
           X == {T \in SUBSET S : \E s : Ordered(s, T)}
<1>1. ASSUME NEW T \in SUBSET S, \A t \in SUBSET T : t # T => t \in X PROVE T \in X
  <2>0. IsFiniteSet(T) /\ Cardinality(T) \in Nat
      BY CountSubset
  <2>1. CASE T = {}
    <3>1. Cardinality(T) = 0
        BY <2>1, FS_EmptySet
    <3>2. Ordered([i \in 1..0 |-> i], T)
        BY <2>1, <3>1 DEF Injection, IsInjective
    <3> QED BY <3>2
  <2>2. CASE T # {}
    <3>1. PICK x \in T : \A y \in T : key[y] <= key[x]
      <4>1. \A y \in T : key[y] \in Int
          OBVIOUS
      <4> QED BY <2>0, <2>2, <4>1, LargestKey
    <3> DEFINE R == T \ {x}
               n == Cardinality(T)
    <3>2. R \in X
        BY <1>1
    <3>3. PICK r : Ordered(r, R)
        BY <3>2
    <3>4. Cardinality(R) = n - 1 /\ n \in Nat
        BY <2>0, FS_RemoveElement
    <3> DEFINE s == [i \in 1..n |-> IF i = n THEN x ELSE r[i]]
    <3>5. /\ r \in [1..(n - 1) -> R] /\ DOMAIN r = 1..(n - 1)
          /\ \A i, j \in 1..(n - 1) : r[i] = r[j] => i = j
          /\ \A i, j \in 1..(n - 1) : i < j => key[r[i]] <= key[r[j]]
        BY <3>3, <3>4 DEF Injection, IsInjective
    <3> HIDE DEF n
    <3>6. s \in [1..n -> T] /\ \A i, j \in 1..n : s[i] = s[j] => i = j
        BY <3>4, <3>5
    <3>7. \A i, j \in 1..n : i < j => key[s[i]] <= key[s[j]]
        BY <3>1, <3>4, <3>5
    <3>8. DOMAIN s = 1..n
        OBVIOUS
    <3> HIDE DEF s
    <3>9. Ordered(s, T)
        BY <3>6, <3>7, <3>8, Zenon DEF n, Injection, IsInjective
    <3> QED BY <3>9
  <2> QED BY <2>1, <2>2
<1> HIDE DEF X
<1>2. S \in X
    BY <1>1, SetInduction, Zenon
<1> QED BY <1>2, Zenon DEF X

\* s lists the n elements of S, each once.
Enumerates(s, n, S) ==
    /\ n \in Nat /\ s \in [1..n -> S]
    /\ \A i, j \in 1..n : s[i] = s[j] => i = j
    /\ \A x \in S : \E i \in 1..n : s[i] = x

\* A sequence of elements of a set without repetition, as long as the set is large,
\* misses none.
LEMMA OrderOnto ==
    ASSUME NEW S, IsFiniteSet(S), NEW s \in Injection(1..Cardinality(S), S)
    PROVE  Enumerates(s, Cardinality(S), S)
<1> DEFINE n == Cardinality(S)
<1>1. n \in Nat
    BY FS_CardinalityType
<1>2. Cardinality(1..n) = n
    BY <1>1, FS_Interval
<1>3. s \in Surjection(1..n, S)
    BY <1>2, FS_Injection
<1> QED BY <1>1, <1>3, Zenon DEF Injection, IsInjective, Surjection, Enumerates

FirstOf(s, k) == {s[i] : i \in 1..k}
Between(s, a, b) == {s[i] : i \in a..b}

\* The first k of such a sequence are k elements.
LEMMA FirstOnes ==
    ASSUME NEW n, NEW S, NEW s, Enumerates(s, n, S), NEW k \in 0..n
    PROVE  IsFiniteSet(FirstOf(s, k)) /\ Cardinality(FirstOf(s, k)) = k
<1> DEFINE T == {s[i] : i \in 1..k}
           f == [i \in 1..k |-> s[i]]
<1>1. f \in Bijection(1..k, T)
  <2>0. n \in Nat /\ \A i, j \in 1..n : s[i] = s[j] => i = j
      BY Zenon DEF Enumerates
  <2>1. f \in [1..k -> T] /\ \A i, j \in 1..k : f[i] = f[j] => i = j
      BY <2>0
  <2>2. \A t \in T : \E i \in 1..k : f[i] = t
      OBVIOUS
  <2> QED BY <2>1, <2>2 DEF Bijection, Injection, Surjection, IsInjective
<1>2. IsFiniteSet(1..k) /\ Cardinality(1..k) = k
  <2>1. k \in Nat
      BY DEF Enumerates
  <2> QED BY <2>1, FS_Interval
<1> QED BY <1>1, <1>2, FS_Bijection DEF ExistsBijection, FirstOf

\* The keys do not fall along the sequence.
Ascending(key, s, n) == \A i, j \in 1..n : i < j => key[s[i]] <= key[s[j]]

\* std::sort of numbers.
LEMMA SortedValues ==
    ASSUME NEW n \in Nat, NEW v \in [1..n -> Int]
    PROVE  \E p : /\ Enumerates(p, n, 1..n) /\ Ascending(v, p, n)
                  /\ Sorted(v) = [i \in 1..n |-> v[p[i]]]
<1> DEFINE O == {s \in Injection(1..Cardinality(DOMAIN v), DOMAIN v) :
                    \A i, j \in DOMAIN s : i < j => ~(v[s[j]] < v[s[i]])}
           p == CHOOSE s \in O : TRUE
<1>1. DOMAIN v = 1..n /\ IsFiniteSet(1..n) /\ Cardinality(1..n) = n
    BY FS_Interval
<1>2. Sorted(v) = [i \in DOMAIN v |-> v[p[i]]]
    BY Zenon DEF Sorted, SortBy, Orderings
<1>3. PICK s \in Injection(1..Cardinality(1..n), 1..n) :
          \A i, j \in DOMAIN s : i < j => v[s[i]] <= v[s[j]]
  <2>1. \A x \in 1..n : v[x] \in Int
      OBVIOUS
  <2> QED BY <1>1, <2>1, SortedOrder
<1>4. s \in O
  <2>1. s \in [1..n -> 1..n]
      BY <1>1 DEF Injection
  <2> QED BY <1>3, <2>1
<1>5. p \in O
    BY <1>4, Zenon
<1> HIDE DEF p
<1>6. Enumerates(p, n, 1..n)
    BY <1>1, <1>5, OrderOnto
<1>7. Ascending(v, p, n)
  <2>1. p \in [1..n -> 1..n]
      BY <1>6 DEF Enumerates
  <2> QED BY <1>5, <2>1 DEF Ascending
<1> QED BY <1>1, <1>2, <1>6, <1>7, Zenon

AtMost(v, n, t) == {i \in 1..n : v[i] <= t}
Under(v, n, t) == {i \in 1..n : v[i] < t}

\* Among n numbers, at least k are at most the k-th smallest, fewer are below it.
LEMMA SortedCounts ==
    ASSUME NEW n, NEW v, NEW p, Enumerates(p, n, 1..n), v \in [1..n -> Int],
           Ascending(v, p, n), NEW k \in 1..n
    PROVE  /\ Cardinality(AtMost(v, n, v[p[k]])) >= k
           /\ Cardinality(Under(v, n, v[p[k]])) <= k - 1
<1> DEFINE Low == {i \in 1..n : v[i] <= v[p[k]]}
           Below == {i \in 1..n : v[i] < v[p[k]]}
           A == FirstOf(p, k)
           B == FirstOf(p, k - 1)
<1>0. n \in Nat /\ p \in [1..n -> 1..n]
    BY DEF Enumerates
<1>1. IsFiniteSet(1..n) /\ Low \in SUBSET (1..n) /\ Below \in SUBSET (1..n)
    BY <1>0, FS_Interval
<1>2. IsFiniteSet(A) /\ Cardinality(A) = k
  <2>1. k \in 0..n
      BY <1>0
  <2> QED BY <2>1, FirstOnes
<1>3. IsFiniteSet(B) /\ Cardinality(B) = k - 1
  <2>1. k - 1 \in 0..n
      BY <1>0
  <2> QED BY <2>1, FirstOnes
<1>4. A \in SUBSET Low
  <2>1. ASSUME NEW i \in 1..k PROVE p[i] \in 1..n /\ v[p[i]] <= v[p[k]]
    <3>1. i \in 1..n /\ (i = k \/ i < k)
        BY <1>0
    <3>2. p[i] \in 1..n /\ v[p[i]] \in Int
        BY <1>0, <3>1
    <3>3. i < k => v[p[i]] <= v[p[k]]
        BY <3>1 DEF Ascending
    <3> QED BY <3>1, <3>2, <3>3
  <2> QED BY <2>1 DEF FirstOf
<1>5. Below \in SUBSET B
  <2>1. ASSUME NEW x \in Below PROVE x \in B
    <3>1. PICK i \in 1..n : p[i] = x
        BY <2>1 DEF Enumerates
    <3>2. v[p[i]] \in Int /\ v[p[k]] \in Int /\ v[p[i]] < v[p[k]]
        BY <1>0, <2>1, <3>1
    <3>3. k < i => v[p[k]] <= v[p[i]]
        BY <3>1 DEF Ascending
    <3>4. i # k
        BY <3>2
    <3>5. ~(k < i)
        BY <3>2, <3>3
    <3>6. i \in 1..(k - 1)
        BY <1>0, <3>4, <3>5
    <3> QED BY <3>1, <3>6 DEF FirstOf
  <2> QED BY <2>1
<1> HIDE DEF Low, Below, A, B
<1>6. IsFiniteSet(Low) /\ Cardinality(Low) \in Nat /\ Cardinality(Below) \in Nat
    BY <1>1, CountSubset
<1>7. Cardinality(A) <= Cardinality(Low) /\ Cardinality(Below) <= Cardinality(B)
    BY <1>3, <1>4, <1>5, <1>6, CountSubset
<1>8. Cardinality(Low) >= k /\ Cardinality(Below) <= k - 1
    BY <1>0, <1>2, <1>3, <1>6, <1>7
<1> QED BY <1>8 DEF Low, Below, AtMost, Under

\* R orders S totally.
TotallyOrders(R, S) ==
    /\ \A x, y \in S : x = y \/ <<x, y>> \in R \/ <<y, x>> \in R
    /\ \A x, y \in S : ~(<<x, y>> \in R /\ <<y, x>> \in R)

\* The sequence follows R.
Follows(s, n, R) == \A i, j \in 1..n : i < j => <<s[j], s[i]>> \notin R

\* In a sequence in this order, the position of an element is the number of elements
\* up to it.
LEMMA PositionIsRank ==
    ASSUME NEW S, NEW n, NEW R, NEW s, Enumerates(s, n, S), TotallyOrders(R, S),
           Follows(s, n, R), NEW k \in 1..n
    PROVE  Cardinality({x \in S : x = s[k] \/ <<x, s[k]>> \in R}) = k
<1>1. n \in Nat /\ s \in [1..n -> S] /\ k \in 0..n
    BY DEF Enumerates
<1>2. ASSUME NEW x \in S, x = s[k] \/ <<x, s[k]>> \in R PROVE x \in FirstOf(s, k)
  <2>1. PICK i \in 1..n : s[i] = x
      BY DEF Enumerates
  <2>2. s[i] = s[k] => i = k
      BY <2>1, Zenon DEF Enumerates
  <2>3. s[k] \in S
      BY <1>1
  <2>4. ~(k < i)
      BY <1>1, <1>2, <2>1, <2>2, <2>3 DEF TotallyOrders, Follows
  <2> QED BY <1>1, <2>1, <2>4 DEF FirstOf
<1>3. ASSUME NEW i \in 1..k PROVE s[i] \in S /\ (s[i] = s[k] \/ <<s[i], s[k]>> \in R)
  <2>1. i \in 1..n /\ (i = k \/ i < k)
      BY <1>1
  <2>2. s[i] \in S /\ s[k] \in S
      BY <1>1, <2>1
  <2> QED BY <2>1, <2>2 DEF TotallyOrders, Follows
<1>4. {x \in S : x = s[k] \/ <<x, s[k]>> \in R} = FirstOf(s, k)
    BY <1>2, <1>3 DEF FirstOf
<1>5. Cardinality(FirstOf(s, k)) = k
    BY <1>1, FirstOnes
<1> QED BY <1>4, <1>5, Zenon

-----------------------------------------------------------------------------
(* Listings of a growing table, page after page.  A[n] is what is listed when the
   table holds n rows, R the order of the listing. *)

Listing(A, R, N) ==
    /\ N \in Nat
    /\ \A n \in 0..N : A[n] \in SUBSET (1..n) /\ TotallyOrders(R, A[n])
    /\ \A n, m \in 0..N : n <= m => A[n] \in SUBSET A[m]

UpToRow(A, R, n, i) == {j \in A[n] : j = i \/ <<j, i>> \in R}
RankIn(A, R, n, i) == Cardinality(UpToRow(A, R, n, i))

LEMMA ListedFinite ==
    ASSUME NEW A, NEW R, NEW N, Listing(A, R, N), NEW n \in 0..N
    PROVE  IsFiniteSet(A[n]) /\ Cardinality(A[n]) \in Nat
<1>1. n \in Nat /\ A[n] \in SUBSET (1..n)
    BY DEF Listing
<1>2. IsFiniteSet(1..n)
    BY <1>1, FS_Interval
<1> QED BY <1>1, <1>2, CountSubset

LEMMA RankBounds ==
    ASSUME NEW A, NEW R, NEW N, Listing(A, R, N), NEW n \in 0..N, NEW i
    PROVE  RankIn(A, R, n, i) \in Nat /\ RankIn(A, R, n, i) <= Cardinality(A[n])
<1>1. UpToRow(A, R, n, i) \in SUBSET A[n]
    BY DEF UpToRow
<1> QED BY <1>1, ListedFinite, CountSubset DEF RankIn

LEMMA RankGrows ==
    ASSUME NEW A, NEW R, NEW N, Listing(A, R, N), NEW n \in 0..N, NEW m \in 0..N, n <= m, NEW i
    PROVE  RankIn(A, R, n, i) <= RankIn(A, R, m, i)
<1>1. UpToRow(A, R, n, i) \in SUBSET UpToRow(A, R, m, i)
    BY Zenon DEF UpToRow, Listing
<1>2. IsFiniteSet(UpToRow(A, R, m, i))
  <2>1. UpToRow(A, R, m, i) \in SUBSET A[m]
      BY DEF UpToRow
  <2> QED BY <2>1, ListedFinite, CountSubset
<1> QED BY <1>1, <1>2, CountSubset DEF RankIn

LEMMA RankIsPosition ==
    ASSUME NEW A, NEW R, NEW N, Listing(A, R, N), NEW n \in 0..N, NEW c, NEW s,
           Enumerates(s, c, A[n]), Follows(s, c, R), NEW k \in 1..c
    PROVE  RankIn(A, R, n, s[k]) = k
<1>1. TotallyOrders(R, A[n])
    BY DEF Listing
<1>2. Cardinality({j \in A[n] : j = s[k] \/ <<j, s[k]>> \in R}) = k
    BY <1>1, PositionIsRank
<1> QED BY <1>2, Zenon DEF RankIn, UpToRow

\* What was listed when there were first rows is among the rows W already seen or
\* comes after the first p positions.
Covering(A, R, n, first, W, p) == \A i \in A[first] : i \in W \/ RankIn(A, R, n, i) > p

LEMMA CoverGrows ==
    ASSUME NEW A, NEW R, NEW N, Listing(A, R, N), NEW n \in 0..N, NEW m \in 0..N, n <= m,
           NEW first, NEW W, NEW p \in Nat, Covering(A, R, n, first, W, p)
    PROVE  Covering(A, R, m, first, W, p)
<1>1. ASSUME NEW i \in A[first], i \notin W PROVE RankIn(A, R, m, i) > p
  <2>1. RankIn(A, R, n, i) > p
      BY <1>1 DEF Covering
  <2>2. RankIn(A, R, n, i) \in Nat /\ RankIn(A, R, m, i) \in Nat
      BY RankBounds
  <2>3. RankIn(A, R, n, i) <= RankIn(A, R, m, i)
      BY RankGrows
  <2> QED BY <2>1, <2>2, <2>3
<1> QED BY <1>1 DEF Covering

LEMMA CoverEnds ==
    ASSUME NEW A, NEW R, NEW N, Listing(A, R, N), NEW n \in 0..N, NEW first, NEW W, NEW p \in Nat,
           Covering(A, R, n, first, W, p), Cardinality(A[n]) <= p
    PROVE  A[first] \subseteq W
<1>1. ASSUME NEW i \in A[first], i \notin W PROVE FALSE
  <2>1. RankIn(A, R, n, i) > p
      BY <1>1 DEF Covering
  <2>2. RankIn(A, R, n, i) \in Nat /\ RankIn(A, R, n, i) <= Cardinality(A[n])
      BY RankBounds
  <2>3. Cardinality(A[n]) \in Nat
      BY ListedFinite
  <2> QED BY <2>1, <2>2, <2>3
<1> QED BY <1>1

LEMMA CoverPage ==
    ASSUME NEW A, NEW R, NEW N, Listing(A, R, N), NEW n \in 0..N, NEW c, NEW s,
           Enumerates(s, c, A[n]), Follows(s, c, R), NEW first \in 0..n, NEW W,
           NEW p \in Nat, NEW q \in Nat, NEW last \in Nat, last = IF q <= c THEN q ELSE c,
           p = 0 \/ Covering(A, R, n, first, W, p)
    PROVE  Covering(A, R, n, first, W \cup Between(s, p + 1, last), q)
<1>0. c \in Nat /\ n \in Nat
    BY DEF Enumerates, Listing
<1>1. ASSUME NEW i \in A[first], i \notin W, i \notin Between(s, p + 1, last) PROVE RankIn(A, R, n, i) > q
  <2>1. i \in A[n]
    <3>1. first \in 0..N /\ first <= n
        BY <1>0 DEF Listing
    <3> QED BY <3>1, Zenon DEF Listing
  <2>2. PICK k \in 1..c : s[k] = i
      BY <2>1 DEF Enumerates
  <2>3. RankIn(A, R, n, i) = k
      BY <2>2, RankIsPosition
  <2>4. k > p
      BY <1>0, <1>1, <2>2, <2>3 DEF Covering
  <2>5. k \notin (p + 1)..last
      BY <1>1, <2>2 DEF Between
  <2>6. k > q
      BY <1>0, <2>4, <2>5
  <2> QED BY <2>3, <2>6
<1> QED BY <1>1 DEF Covering

\* A row that joins the listing after the first rows comes after those listed before.
JoinsLast(A, R, N, first) ==
    \A n, m \in 0..N : first <= n /\ n <= m =>
        \A i \in A[n], j \in A[m] : j \in A[n] \/ (j # i /\ <<j, i>> \notin R)

\* The k rows of s are different rows listed at the positions after p up to q.
Placed(A, R, n, s, k, p, q) ==
    /\ \A x, y \in 1..k : s[x] = s[y] => x = y
    /\ \A x \in 1..k : s[x] \in A[n] /\ RankIn(A, R, n, s[x]) > p /\ RankIn(A, R, n, s[x]) <= q

LEMMA RankStays ==
    ASSUME NEW A, NEW R, NEW N, Listing(A, R, N), NEW first, JoinsLast(A, R, N, first),
           NEW n \in 0..N, NEW m \in 0..N, first <= n, n <= m, NEW i \in A[n]
    PROVE  i \in A[m] /\ RankIn(A, R, m, i) = RankIn(A, R, n, i)
<1>1. A[n] \in SUBSET A[m]
    BY Zenon DEF Listing
<1>2. \A j \in A[m] : j = i \/ <<j, i>> \in R => j \in A[n]
    BY Zenon DEF JoinsLast
<1>3. UpToRow(A, R, m, i) = UpToRow(A, R, n, i)
    BY <1>1, <1>2, Zenon DEF UpToRow
<1> QED BY <1>1, <1>3, Zenon DEF RankIn

LEMMA PlacedStay ==
    ASSUME NEW A, NEW R, NEW N, Listing(A, R, N), NEW first, JoinsLast(A, R, N, first),
           NEW n \in 0..N, NEW m \in 0..N, first <= n, n <= m,
           NEW s, NEW k, NEW p, NEW q, Placed(A, R, n, s, k, p, q)
    PROVE  Placed(A, R, m, s, k, p, q)
<1>1. ASSUME NEW x \in 1..k
      PROVE  s[x] \in A[m] /\ RankIn(A, R, m, s[x]) > p /\ RankIn(A, R, m, s[x]) <= q
  <2>1. s[x] \in A[n] /\ RankIn(A, R, n, s[x]) > p /\ RankIn(A, R, n, s[x]) <= q
      BY Zenon DEF Placed
  <2>2. s[x] \in A[m] /\ RankIn(A, R, m, s[x]) = RankIn(A, R, n, s[x])
      BY <2>1, RankStays, Zenon
  <2> QED BY <2>1, <2>2, Zenon
<1> QED BY <1>1, Zenon DEF Placed

LEMMA PlacedPage ==
    ASSUME NEW A, NEW R, NEW N, Listing(A, R, N), NEW n \in 0..N, NEW c, NEW s,
           Enumerates(s, c, A[n]), Follows(s, c, R), NEW p \in Nat, NEW k \in Nat, NEW page,
           \A x \in 1..k : p + x \in 1..c /\ page[x] = s[p + x], NEW q \in Nat, p + k <= q
    PROVE  Placed(A, R, n, page, k, p, q)
<1>1. ASSUME NEW x \in 1..k, NEW y \in 1..k, page[x] = page[y] PROVE x = y
  <2>1. p + x \in 1..c /\ p + y \in 1..c /\ s[p + x] = s[p + y]
      BY <1>1
  <2>2. p + x = p + y
      BY <2>1, Zenon DEF Enumerates
  <2> QED BY <2>2
<1>2. ASSUME NEW x \in 1..k
      PROVE  page[x] \in A[n] /\ RankIn(A, R, n, page[x]) > p /\ RankIn(A, R, n, page[x]) <= q
  <2>1. p + x \in 1..c /\ page[x] = s[p + x]
      BY <1>2
  <2>2. page[x] \in A[n]
      BY <2>1 DEF Enumerates
  <2>3. RankIn(A, R, n, s[p + x]) = p + x
      BY <2>1, RankIsPosition
  <2>4. p + x > p /\ p + x <= q
      OBVIOUS
  <2> QED BY <2>1, <2>2, <2>3, <2>4, Zenon
<1> QED BY <1>1, <1>2, Zenon DEF Placed

\* The k rows of s, then the l rows of t.
Joins(u, s, k, t, l) == (\A x \in 1..k : u[x] = s[x]) /\ (\A x \in 1..l : u[k + x] = t[x])

LEMMA PlacedJoined ==
    ASSUME NEW A, NEW R, NEW N, Listing(A, R, N), NEW n \in 0..N,
           NEW p \in Nat, NEW q \in Nat, p <= q, NEW s, NEW t, NEW k \in Nat, NEW l \in Nat,
           Placed(A, R, n, s, k, 0, p), Placed(A, R, n, t, l, p, q), NEW u, Joins(u, s, k, t, l)
    PROVE  Placed(A, R, n, u, k + l, 0, q)
<1> DEFINE rank(i) == RankIn(A, R, n, i)
<1>0. \A i : rank(i) \in Nat
    BY RankBounds
<1>1. \A x \in 1..k : s[x] \in A[n] /\ rank(s[x]) > 0 /\ rank(s[x]) <= p
    BY Zenon DEF Placed
<1>2. \A x \in 1..l : t[x] \in A[n] /\ rank(t[x]) > p /\ rank(t[x]) <= q
    BY Zenon DEF Placed
<1> HIDE DEF rank
<1>3. ASSUME NEW x \in 1..(k + l)
      PROVE  \/ x \in 1..k /\ u[x] = s[x]
             \/ x - k \in 1..l /\ u[x] = t[x - k]
  <2>1. CASE x <= k
    <3>1. x \in 1..k
        BY <2>1
    <3> QED BY <3>1, Zenon DEF Joins
  <2>2. CASE x > k
    <3>1. x - k \in 1..l /\ k + (x - k) = x
        BY <2>2
    <3> QED BY <3>1 DEF Joins
  <2> QED BY <2>1, <2>2
<1>4. ASSUME NEW x \in 1..(k + l)
      PROVE  u[x] \in A[n] /\ rank(u[x]) > 0 /\ rank(u[x]) <= q
  <2>1. CASE x \in 1..k /\ u[x] = s[x]
      BY <1>0, <1>1, <2>1
  <2>2. CASE x - k \in 1..l /\ u[x] = t[x - k]
      BY <1>0, <1>2, <2>2
  <2> QED BY <1>3, <2>1, <2>2, Zenon
<1>5. ASSUME NEW x \in 1..(k + l), NEW y \in 1..(k + l), u[x] = u[y] PROVE x = y
  <2>1. \A a \in 1..k, b \in 1..l : s[a] # t[b]
      BY <1>0, <1>1, <1>2
  <2>2. /\ \A a, b \in 1..k : s[a] = s[b] => a = b
        /\ \A a, b \in 1..l : t[a] = t[b] => a = b
      BY Zenon DEF Placed
  <2>3. x - k = y - k => x = y
      OBVIOUS
  <2> QED BY <1>3, <1>5, <2>1, <2>2, <2>3
<1> QED BY <1>4, <1>5, Zenon DEF Placed, rank

\* The first k of the elements sorted by falling size are the largest.
LEMMA TopOnes ==
    ASSUME NEW n, NEW S, NEW s, Enumerates(s, n, S), NEW size, \A x \in S : size[x] \in Nat,
           \A i, j \in 1..n : i < j => ~(size[s[j]] > size[s[i]]), NEW k \in 0..n
    PROVE  /\ S \ FirstOf(s, k) # {} <=> k < n
           /\ \A x \in FirstOf(s, k), y \in S \ FirstOf(s, k) : size[x] >= size[y]
<1>1. n \in Nat /\ s \in [1..n -> S]
    BY DEF Enumerates
<1>2. ASSUME k < n PROVE S \ FirstOf(s, k) # {}
  <2>1. k + 1 \in 1..n /\ s[k + 1] \in S
      BY <1>1, <1>2
  <2>2. ASSUME NEW i \in 1..k PROVE s[i] # s[k + 1]
    <3>1. i \in 1..n /\ i # k + 1
        BY <1>1
    <3> QED BY <2>1, <3>1, Zenon DEF Enumerates
  <2>3. s[k + 1] \notin FirstOf(s, k)
      BY <2>2 DEF FirstOf
  <2> QED BY <2>1, <2>3
<1>3. ASSUME NEW y \in S \ FirstOf(s, k) PROVE \E j \in 1..n : s[j] = y /\ k < j
  <2>1. PICK j \in 1..n : s[j] = y
      BY Zenon DEF Enumerates
  <2>2. j \notin 1..k
      BY <2>1, Zenon DEF FirstOf
  <2>3. k < j
      BY <1>1, <2>2
  <2> QED BY <2>1, <2>3
<1>4. ASSUME S \ FirstOf(s, k) # {} PROVE k < n
  <2>1. PICK y : y \in S \ FirstOf(s, k)
      BY <1>4, Zenon
  <2>2. PICK j \in 1..n : k < j
      BY <1>3, <2>1, Zenon
  <2> QED BY <1>1, <2>2
<1>5. ASSUME NEW x \in FirstOf(s, k), NEW y \in S \ FirstOf(s, k) PROVE size[x] >= size[y]
  <2>1. PICK i \in 1..k : x = s[i]
      BY Zenon DEF FirstOf
  <2>2. PICK j \in 1..n : s[j] = y /\ k < j
      BY <1>3, Zenon
  <2>3. i \in 1..n /\ i < j
      BY <1>1, <2>2
  <2>4. ~(size[y] > size[x])
      BY <2>1, <2>2, <2>3, Zenon
  <2>5. size[x] \in Nat /\ size[y] \in Nat
      BY <1>1, <2>1, <2>3
  <2> QED BY <2>4, <2>5
<1> QED BY <1>2, <1>4, <1>5, Zenon
=============================================================================
