----------------------------- MODULE SumLemmas ------------------------------
(***************************************************************************)
(* What SumFunctionOnSet of the community modules computes.  Its recursive *)
(* function picks the members of a finite set in an order CHOOSE fixes;    *)
(* the lemmas show that it exists, that the order does not matter, and     *)
(* what a sum becomes when one term changes.  Induction is by the least    *)
(* cardinality of a counterexample.                                        *)
(***************************************************************************)
EXTENDS Functions, FiniteSetTheorems, WellFoundedInduction, TLAPS

\* A non-empty set of naturals has a least element.
LEMMA LeastNumber ==
    ASSUME NEW T, T \subseteq Nat, T # {}
    PROVE  \E x \in T : \A y \in T : x <= y
<1>1. \E x \in T : \A y \in T : ~(<<y, x>> \in OpToRel(<, Nat))
  BY NatLessThanWellFounded, WFMin, Zenon
<1>2. ASSUME NEW x \in Nat, NEW y \in Nat, ~(<<y, x>> \in OpToRel(<, Nat))
      PROVE  ~(y < x)
  BY <1>2, Zenon DEF OpToRel
<1>3. \E x \in T : \A y \in T : ~(y < x)
  BY <1>1, <1>2, Zenon
<1> QED BY <1>3

\* The first member a sum over s takes out.
First(s) == CHOOSE x \in s : TRUE

\* g is the recursive function of a sum of f, on the sets of D.
Adds(f, D, g) ==
    g = [s \in D |-> IF s = {} THEN 0 ELSE f[First(s)] + g[s \ {First(s)}]]

\* The sum is the fold's recursive function.
LEMMA SumIsAdder ==
    ASSUME NEW f, NEW S
    PROVE  SumFunctionOnSet(f, S) = (CHOOSE g : Adds(f, SUBSET S, g))[S]
BY Zenon DEF SumFunctionOnSet, FoldFunctionOnSet, MapThenFoldSet, Adds, First

\* The subsets of S of at most n members.
Small(S, n) == {s \in SUBSET S : Cardinality(s) <= n}

\* The recursion, one member at a time.
LEMMA SmallStep ==
    ASSUME NEW S, IsFiniteSet(S), NEW n \in Nat, NEW s \in Small(S, n + 1), s # {}
    PROVE  First(s) \in s /\ s \ {First(s)} \in Small(S, n)
<1>1. First(s) \in s
  BY Zenon DEF First
<1>2. s \subseteq S /\ Cardinality(s) <= n + 1 /\ IsFiniteSet(s)
  BY FS_Subset DEF Small
<1>3. Cardinality(s \ {First(s)}) = Cardinality(s) - 1 /\ Cardinality(s) \in Nat
  BY <1>1, <1>2, FS_RemoveElement, FS_CardinalityType
<1> QED BY <1>1, <1>2, <1>3 DEF Small

\* The recursive function exists on the subsets of at most n members.
LEMMA AdderUpTo ==
    ASSUME NEW f, NEW S, IsFiniteSet(S), NEW n \in Nat
    PROVE  \E g : Adds(f, Small(S, n), g)
<1> DEFINE Bad == {k \in Nat : ~ \E g : Adds(f, Small(S, k), g)}
<1>1. SUFFICES ASSUME Bad # {} PROVE FALSE
  OBVIOUS
<1>2. PICK m \in Bad : \A k \in Bad : m <= k
  BY <1>1, LeastNumber
<1>3. CASE m = 0
  <2>1. \A s \in Small(S, 0) : s = {}
    <3>1. SUFFICES ASSUME NEW s \in Small(S, 0) PROVE s = {}
      OBVIOUS
    <3>2. IsFiniteSet(s) /\ Cardinality(s) <= 0
      BY FS_Subset DEF Small
    <3> QED BY <3>2, FS_EmptySet, FS_CardinalityType
  <2>2. Adds(f, Small(S, 0), [s \in Small(S, 0) |-> 0])
    BY <2>1 DEF Adds
  <2> QED BY <1>2, <1>3, <2>2
<1>4. CASE m # 0
  <2>1. m - 1 \in Nat /\ m - 1 \notin Bad
    BY <1>2, <1>4
  <2>2. PICK g : Adds(f, Small(S, m - 1), g)
    BY <2>1
  <2> DEFINE D == Small(S, m)
             E == Small(S, m - 1)
             h == [s \in D |-> IF s = {} THEN 0 ELSE f[First(s)] + g[s \ {First(s)}]]
  <2>3. E \subseteq D
    <3>1. SUFFICES ASSUME NEW s \in SUBSET S, Cardinality(s) <= m - 1
                   PROVE  Cardinality(s) <= m
      BY DEF Small
    <3> QED BY <3>1, <2>1, FS_Subset, FS_CardinalityType
  <2>4. \A s \in E : h[s] = g[s]
    BY <2>2, <2>3 DEF Adds
  <2>5. \A s \in D : s # {} => s \ {First(s)} \in E
    <3>1. SUFFICES ASSUME NEW s \in D, s # {} PROVE s \ {First(s)} \in E
      OBVIOUS
    <3>2. m = (m - 1) + 1
      BY <2>1
    <3>3. s \in Small(S, (m - 1) + 1)
      BY <3>2
    <3> QED BY <3>1, <3>3, <2>1, SmallStep
  <2>6. h = [s \in D |-> IF s = {} THEN 0 ELSE f[First(s)] + h[s \ {First(s)}]]
    BY <2>4, <2>5
  <2>7. Adds(f, D, h)
    BY <2>6 DEF Adds
  <2> QED BY <1>2, <2>7
<1> QED BY <1>3, <1>4

\* The recursive function of a sum over a finite set.
LEMMA AdderExists ==
    ASSUME NEW f, NEW S, IsFiniteSet(S)
    PROVE  Adds(f, SUBSET S, CHOOSE g : Adds(f, SUBSET S, g))
<1>1. Cardinality(S) \in Nat
  BY FS_CardinalityType
<1>2. Small(S, Cardinality(S)) = SUBSET S
  BY FS_Subset DEF Small
<1>3. \E g : Adds(f, Small(S, Cardinality(S)), g)
  BY <1>1, AdderUpTo
<1>4. \E g : Adds(f, SUBSET S, g)
  BY <1>2, <1>3, Zenon
<1> QED BY <1>4

\* A non-empty collection of subsets of a finite set has one none of whose
\* proper subsets is in it.
LEMMA LeastSubset ==
    ASSUME NEW S, IsFiniteSet(S), NEW B, B \subseteq SUBSET S, B # {}
    PROVE  \E s \in B : \A u \in B : u \subseteq s => u = s
<1> DEFINE N == {Cardinality(s) : s \in B}
<1>1. \A s \in B : IsFiniteSet(s) /\ Cardinality(s) \in Nat
  BY FS_Subset, FS_CardinalityType
<1>2. N \subseteq Nat /\ N # {}
  BY <1>1
<1>3. PICK n \in N : \A m \in N : n <= m
  BY <1>2, LeastNumber
<1>4. PICK s \in B : Cardinality(s) = n
  BY <1>3
<1>5. ASSUME NEW u \in B, u \subseteq s PROVE u = s
  <2>1. IsFiniteSet(s) /\ Cardinality(u) <= Cardinality(s)
    BY <1>1, <1>4, <1>5, FS_Subset
  <2>2. Cardinality(s) <= Cardinality(u)
    BY <1>3, <1>4, <1>5
  <2>3. Cardinality(u) = Cardinality(s)
    BY <2>1, <2>2, <1>1, <1>4, <1>5
  <2> QED BY <2>1, <2>3, <1>5, FS_Subset
<1> QED BY <1>5

\* What the recursive function computes is an integer.
LEMMA AdderInt ==
    ASSUME NEW f, NEW S, IsFiniteSet(S), \A x \in S : f[x] \in Int,
           NEW g, Adds(f, SUBSET S, g)
    PROVE  \A s \in SUBSET S : g[s] \in Int
<1> DEFINE B == {s \in SUBSET S : g[s] \notin Int}
<1>1. SUFFICES ASSUME B # {} PROVE FALSE
  OBVIOUS
<1>2. PICK s \in B : \A u \in B : u \subseteq s => u = s
  <2>1. B \subseteq SUBSET S
    OBVIOUS
  <2> HIDE DEF B
  <2> QED BY <1>1, <2>1, LeastSubset
<1>3. s # {}
  BY <1>2 DEF Adds
<1>4. First(s) \in s
  BY <1>3, Zenon DEF First
<1>5. s \ {First(s)} \in SUBSET S /\ s \ {First(s)} # s /\ s \ {First(s)} \subseteq s
  BY <1>2, <1>4
<1>6. g[s \ {First(s)}] \in Int
  BY <1>2, <1>5
<1>7. g[s] = f[First(s)] + g[s \ {First(s)}]
  BY <1>2, <1>3 DEF Adds
<1> QED BY <1>2, <1>4, <1>6, <1>7

\* Any member may be the first one.
LEMMA AdderAny ==
    ASSUME NEW f, NEW S, IsFiniteSet(S), \A x \in S : f[x] \in Int,
           NEW g, Adds(f, SUBSET S, g)
    PROVE  \A s \in SUBSET S : \A x \in s : g[s] = f[x] + g[s \ {x}]
<1> DEFINE B == {s \in SUBSET S : \E x \in s : g[s] # f[x] + g[s \ {x}]}
<1>1. SUFFICES ASSUME B # {} PROVE FALSE
  OBVIOUS
<1>2. PICK s \in B : \A u \in B : u \subseteq s => u = s
  <2>1. B \subseteq SUBSET S
    OBVIOUS
  <2> HIDE DEF B
  <2> QED BY <1>1, <2>1, LeastSubset
<1>3. PICK x \in s : g[s] # f[x] + g[s \ {x}]
  BY <1>2
<1> DEFINE y == First(s)
           s2 == (s \ {x}) \ {y}
<1>4. y \in s
  BY <1>3, Zenon DEF First
<1>5. g[s] = f[y] + g[s \ {y}]
  BY <1>2, <1>3 DEF Adds
<1>6. x # y
  BY <1>3, <1>5
<1> HIDE DEF y
<1>7. /\ s \ {x} \in SUBSET S /\ s \ {x} \subseteq s /\ s \ {x} # s
      /\ s \ {y} \in SUBSET S /\ s \ {y} \subseteq s /\ s \ {y} # s
  BY <1>2, <1>3, <1>4
<1>8. g[s \ {x}] = f[y] + g[s2]
  BY <1>2, <1>4, <1>6, <1>7
<1>9. g[s \ {y}] = f[x] + g[s2]
  <2>1. (s \ {y}) \ {x} = s2
    OBVIOUS
  <2> QED BY <1>2, <1>3, <1>6, <1>7, <2>1
<1>10. f[x] \in Int /\ f[y] \in Int /\ g[s2] \in Int
  <2>1. s2 \in SUBSET S
    BY <1>2
  <2> QED BY <2>1, <1>2, <1>3, <1>4, AdderInt
<1> QED BY <1>3, <1>5, <1>8, <1>9, <1>10

\* The recursive function of a larger set is that of a smaller one.
LEMMA AdderUnique ==
    ASSUME NEW f, NEW S, NEW T, NEW g, NEW h, IsFiniteSet(S), T \subseteq S,
           Adds(f, SUBSET S, g), Adds(f, SUBSET T, h)
    PROVE  g[T] = h[T]
<1> DEFINE B == {s \in SUBSET T : g[s] # h[s]}
<1>1. SUFFICES ASSUME B # {} PROVE FALSE
  OBVIOUS
<1>2. PICK s \in B : \A u \in B : u \subseteq s => u = s
  <2>1. B \subseteq SUBSET S
    OBVIOUS
  <2> HIDE DEF B
  <2> QED BY <1>1, <2>1, LeastSubset
<1>3. s # {}
  BY <1>2 DEF Adds
<1>4. First(s) \in s
  BY <1>3, Zenon DEF First
<1>5. s \ {First(s)} \in SUBSET T /\ s \ {First(s)} # s /\ s \ {First(s)} \subseteq s
  BY <1>2, <1>4
<1>6. g[s \ {First(s)}] = h[s \ {First(s)}]
  BY <1>2, <1>5
<1>7. /\ g[s] = f[First(s)] + g[s \ {First(s)}]
      /\ h[s] = f[First(s)] + h[s \ {First(s)}]
  BY <1>2, <1>3 DEF Adds
<1> QED BY <1>2, <1>6, <1>7

-----------------------------------------------------------------------------
(* The sum itself. *)

\* The empty sum.
LEMMA SumEmpty ==
    ASSUME NEW f
    PROVE  SumFunctionOnSet(f, {}) = 0
<1>1. Adds(f, SUBSET {}, CHOOSE g : Adds(f, SUBSET {}, g))
  BY FS_EmptySet, AdderExists
<1> QED BY <1>1, SumIsAdder DEF Adds

\* A sum of integers is an integer.
LEMMA SumInt ==
    ASSUME NEW f, NEW S, IsFiniteSet(S), \A x \in S : f[x] \in Int
    PROVE  SumFunctionOnSet(f, S) \in Int
<1> DEFINE g == CHOOSE g : Adds(f, SUBSET S, g)
<1>1. Adds(f, SUBSET S, g)
  BY AdderExists
<1>2. SumFunctionOnSet(f, S) = g[S]
  BY SumIsAdder
<1> HIDE DEF g
<1> QED BY <1>1, <1>2, AdderInt

\* The sum over a part of S.
LEMMA SumPart ==
    ASSUME NEW f, NEW S, NEW T, NEW g, IsFiniteSet(S), T \subseteq S, Adds(f, SUBSET S, g)
    PROVE  SumFunctionOnSet(f, T) = g[T]
<1>1. IsFiniteSet(T)
  BY FS_Subset
<1>2. PICK h : Adds(f, SUBSET T, h) /\ SumFunctionOnSet(f, T) = h[T]
  BY <1>1, AdderExists, SumIsAdder, Zenon
<1>3. g[T] = h[T]
  BY <1>2, AdderUnique, Zenon
<1> QED BY <1>2, <1>3, Zenon

\* A sum is any of its terms and the sum of the others.
LEMMA SumPick ==
    ASSUME NEW f, NEW S, IsFiniteSet(S), \A x \in S : f[x] \in Int, NEW x \in S
    PROVE  SumFunctionOnSet(f, S) = f[x] + SumFunctionOnSet(f, S \ {x})
<1>1. S \ {x} \subseteq S /\ S \subseteq S /\ S \in SUBSET S
  OBVIOUS
<1>2. PICK g : Adds(f, SUBSET S, g)
  BY AdderExists, Zenon
<1>3. g[S] = f[x] + g[S \ {x}]
  BY <1>1, <1>2, AdderAny
<1>4. SumFunctionOnSet(f, S) = g[S] /\ SumFunctionOnSet(f, S \ {x}) = g[S \ {x}]
  <2>1. ASSUME NEW T, T \subseteq S PROVE SumFunctionOnSet(f, T) = g[T]
    BY <1>2, <2>1, SumPart, SMT
  <2> QED BY <1>1, <2>1, Zenon
<1> QED BY <1>3, <1>4

\* Equal terms, equal sums.
LEMMA SumSame ==
    ASSUME NEW S, IsFiniteSet(S), NEW f, NEW h,
           \A x \in S : f[x] \in Int /\ h[x] = f[x]
    PROVE  SumFunctionOnSet(h, S) = SumFunctionOnSet(f, S)
<1> DEFINE B == {s \in SUBSET S : SumFunctionOnSet(h, s) # SumFunctionOnSet(f, s)}
<1>1. SUFFICES ASSUME B # {} PROVE FALSE
  OBVIOUS
<1>2. PICK s \in B : \A u \in B : u \subseteq s => u = s
  <2>1. B \subseteq SUBSET S
    OBVIOUS
  <2> HIDE DEF B
  <2> QED BY <1>1, <2>1, LeastSubset
<1>3. PICK x \in s : TRUE
  BY <1>2, SumEmpty
<1>4. s \ {x} \in SUBSET S /\ s \ {x} # s /\ s \ {x} \subseteq s /\ IsFiniteSet(s)
  BY <1>2, <1>3, FS_Subset
<1>5. SumFunctionOnSet(h, s \ {x}) = SumFunctionOnSet(f, s \ {x})
  BY <1>2, <1>4
<1>6. /\ SumFunctionOnSet(h, s) = h[x] + SumFunctionOnSet(h, s \ {x})
      /\ SumFunctionOnSet(f, s) = f[x] + SumFunctionOnSet(f, s \ {x})
  BY <1>3, <1>4, SumPick
<1> QED BY <1>2, <1>3, <1>5, <1>6

\* One term changes.
LEMMA SumChange ==
    ASSUME NEW S, IsFiniteSet(S), NEW t \in S, NEW f, NEW h, h[t] \in Int,
           \A x \in S : f[x] \in Int /\ (x # t => h[x] = f[x])
    PROVE  SumFunctionOnSet(h, S) = SumFunctionOnSet(f, S) + h[t] - f[t]
<1>1. IsFiniteSet(S \ {t})
  BY FS_Subset
<1>2. SumFunctionOnSet(h, S \ {t}) = SumFunctionOnSet(f, S \ {t})
  BY <1>1, SumSame
<1>3. /\ SumFunctionOnSet(h, S) = h[t] + SumFunctionOnSet(h, S \ {t})
      /\ SumFunctionOnSet(f, S) = f[t] + SumFunctionOnSet(f, S \ {t})
  BY SumPick
<1>4. SumFunctionOnSet(f, S \ {t}) \in Int
  BY <1>1, SumInt
<1> QED BY <1>2, <1>3, <1>4

\* Terms that are 0 may be left out.
LEMMA SumSupport ==
    ASSUME NEW S, IsFiniteSet(S), NEW A \in SUBSET S, NEW f,
           \A x \in S : f[x] \in Int /\ (x \notin A => f[x] = 0)
    PROVE  SumFunctionOnSet(f, A) = SumFunctionOnSet(f, S)
<1> DEFINE B == {s \in SUBSET S : SumFunctionOnSet(f, s \cap A) # SumFunctionOnSet(f, s)}
<1>1. ASSUME B # {} PROVE FALSE
  <2>2. PICK s \in B : \A u \in B : u \subseteq s => u = s
    <3>1. B \subseteq SUBSET S
      OBVIOUS
    <3> HIDE DEF B
    <3> QED BY <1>1, <3>1, LeastSubset
  <2>3. PICK x \in s : TRUE
    BY <2>2
  <2>4. /\ s \ {x} \in SUBSET S /\ s \ {x} # s /\ s \ {x} \subseteq s
        /\ IsFiniteSet(s) /\ IsFiniteSet(s \cap A)
    BY <2>2, <2>3, FS_Subset
  <2>5. SumFunctionOnSet(f, (s \ {x}) \cap A) = SumFunctionOnSet(f, s \ {x})
    BY <2>2, <2>4
  <2>6. SumFunctionOnSet(f, s) = f[x] + SumFunctionOnSet(f, s \ {x})
    BY <2>3, <2>4, SumPick
  <2>7. CASE x \in A
    <3>1. (s \ {x}) \cap A = (s \cap A) \ {x}
      OBVIOUS
    <3>2. SumFunctionOnSet(f, s \cap A) = f[x] + SumFunctionOnSet(f, (s \cap A) \ {x})
      BY <2>3, <2>4, <2>7, SumPick
    <3> QED BY <3>1, <3>2, <2>2, <2>5, <2>6
  <2>8. CASE x \notin A
    <3>1. (s \ {x}) \cap A = s \cap A
      BY <2>8
    <3>2. SumFunctionOnSet(f, s \ {x}) \in Int
      BY <2>2, <2>4, FS_Subset, SumInt
    <3>3. f[x] = 0
      BY <2>2, <2>3, <2>8
    <3> QED BY <3>1, <3>2, <3>3, <2>2, <2>5, <2>6
  <2> QED BY <2>7, <2>8
<1>2. S \cap A = A /\ S \in SUBSET S
  OBVIOUS
<1> QED BY <1>1, <1>2

\* The sum of sums.
LEMMA SumPlus ==
    ASSUME NEW S, IsFiniteSet(S), NEW f, NEW g, NEW h,
           \A x \in S : f[x] \in Int /\ g[x] \in Int /\ h[x] = f[x] + g[x]
    PROVE  SumFunctionOnSet(h, S) = SumFunctionOnSet(f, S) + SumFunctionOnSet(g, S)
<1> DEFINE B == {s \in SUBSET S :
                   SumFunctionOnSet(h, s) # SumFunctionOnSet(f, s) + SumFunctionOnSet(g, s)}
<1>1. SUFFICES ASSUME B # {} PROVE FALSE
  OBVIOUS
<1>2. PICK s \in B : \A u \in B : u \subseteq s => u = s
  <2>1. B \subseteq SUBSET S
    OBVIOUS
  <2> HIDE DEF B
  <2> QED BY <1>1, <2>1, LeastSubset
<1>3. PICK x \in s : TRUE
  <2>1. /\ SumFunctionOnSet(f, {}) = 0 /\ SumFunctionOnSet(g, {}) = 0
        /\ SumFunctionOnSet(h, {}) = 0
    BY SumEmpty
  <2>2. SumFunctionOnSet(h, s) # SumFunctionOnSet(f, s) + SumFunctionOnSet(g, s)
    BY <1>2
  <2>3. ASSUME s = {} PROVE FALSE
    BY <2>1, <2>2, <2>3
  <2> QED BY <2>3
<1>4. /\ s \ {x} \in SUBSET S /\ s \ {x} # s /\ s \ {x} \subseteq s /\ IsFiniteSet(s)
      /\ IsFiniteSet(s \ {x})
  BY <1>2, <1>3, FS_Subset
<1>5. SumFunctionOnSet(h, s \ {x}) = SumFunctionOnSet(f, s \ {x}) + SumFunctionOnSet(g, s \ {x})
  BY <1>2, <1>4
<1>6. SumFunctionOnSet(f, s \ {x}) \in Int /\ SumFunctionOnSet(g, s \ {x}) \in Int
  BY <1>4, SumInt
<1>7. ASSUME NEW k, \A y \in S : k[y] \in Int
      PROVE  SumFunctionOnSet(k, s) = k[x] + SumFunctionOnSet(k, s \ {x})
  BY <1>3, <1>4, <1>7, SumPick
<1>8. x \in S /\ f[x] \in Int /\ g[x] \in Int /\ h[x] = f[x] + g[x] /\ \A y \in S : h[y] \in Int
  BY <1>2, <1>3
<1>9. /\ SumFunctionOnSet(h, s) = h[x] + SumFunctionOnSet(h, s \ {x})
      /\ SumFunctionOnSet(f, s) = f[x] + SumFunctionOnSet(f, s \ {x})
      /\ SumFunctionOnSet(g, s) = g[x] + SumFunctionOnSet(g, s \ {x})
  BY <1>7, <1>8
<1> QED BY <1>2, <1>5, <1>6, <1>8, <1>9

\* The members of K that p sends to t.
Part(K, p, t) == {j \in K : p[j] = t}

\* Counting a set part by part counts it.
LEMMA SumParts ==
    ASSUME NEW S, IsFiniteSet(S), NEW J, IsFiniteSet(J), NEW p, \A j \in J : p[j] \in S
    PROVE  SumFunctionOnSet([t \in S |-> Cardinality(Part(J, p, t))], S) = Cardinality(J)
<1> DEFINE F(K) == [t \in S |-> Cardinality(Part(K, p, t))]
           B == {K \in SUBSET J : SumFunctionOnSet(F(K), S) # Cardinality(K)}
<1>1. ASSUME B # {} PROVE FALSE
  <2>1. PICK K \in B : \A L \in B : L \subseteq K => L = K
    <3>1. B \subseteq SUBSET J
      OBVIOUS
    <3> HIDE DEF B
    <3> QED BY <1>1, <3>1, LeastSubset
  <2>2. K # {}
    <3>1. SUFFICES ASSUME K = {} PROVE FALSE
      OBVIOUS
    <3>2. Cardinality({}) = 0 /\ \A t \in S : Part({}, p, t) = {}
      BY FS_EmptySet DEF Part
    <3>3. \A t \in S : F({})[t] = 0
      BY <3>2
    <3> DEFINE f == F({})
    <3>4. \A t \in S : f[t] \in Int /\ (t \notin {} => f[t] = 0)
      BY <3>3
    <3>5. {} \in SUBSET S
      OBVIOUS
    <3> HIDE DEF f
    <3>6. SumFunctionOnSet(f, {}) = SumFunctionOnSet(f, S)
      BY <3>4, <3>5, SumSupport
    <3>7. SumFunctionOnSet(f, S) = 0
      BY <3>6, SumEmpty
    <3> QED BY <3>1, <3>2, <3>7, <2>1 DEF f
  <2>3. PICK j \in K : TRUE
    BY <2>2
  <2> DEFINE L == K \ {j}
             f == F(L)
             h == F(K)
             u == p[j]
  <2>4. L \subseteq K /\ L # K /\ K \subseteq J /\ j \in J /\ u \in S /\ IsFiniteSet(K) /\ L \in SUBSET J
    BY <2>1, <2>3, FS_Subset
  <2>5. SumFunctionOnSet(f, S) = Cardinality(L)
    BY <2>1, <2>4
  <2>6. Cardinality(L) = Cardinality(K) - 1 /\ Cardinality(K) \in Nat
    BY <2>3, <2>4, FS_RemoveElement, FS_CardinalityType
  <2>7. ASSUME NEW t \in S
        PROVE  /\ IsFiniteSet(Part(K, p, t)) /\ Cardinality(Part(K, p, t)) \in Nat
               /\ IsFiniteSet(Part(L, p, t)) /\ Cardinality(Part(L, p, t)) \in Nat
               /\ t # u => Part(L, p, t) = Part(K, p, t)
               /\ t = u => Part(L, p, t) = Part(K, p, t) \ {j} /\ j \in Part(K, p, t)
    <3>1. Part(K, p, t) \subseteq K /\ Part(L, p, t) \subseteq K
      BY DEF Part
    <3>2. IsFiniteSet(Part(K, p, t)) /\ IsFiniteSet(Part(L, p, t))
      BY <2>4, <3>1, FS_Subset
    <3>3. t # u => Part(L, p, t) = Part(K, p, t)
      BY DEF Part
    <3>4. t = u => Part(L, p, t) = Part(K, p, t) \ {j} /\ j \in Part(K, p, t)
      BY <2>3 DEF Part
    <3> QED BY <3>2, <3>3, <3>4, FS_CardinalityType
  <2>8. Cardinality(Part(K, p, u)) = Cardinality(Part(L, p, u)) + 1
    <3>1. /\ IsFiniteSet(Part(K, p, u)) /\ Cardinality(Part(K, p, u)) \in Nat
          /\ Part(L, p, u) = Part(K, p, u) \ {j} /\ j \in Part(K, p, u)
      BY <2>4, <2>7
    <3> HIDE DEF L, u
    <3>2. Cardinality(Part(K, p, u) \ {j}) = Cardinality(Part(K, p, u)) - 1
      BY <3>1, FS_RemoveElement
    <3> QED BY <3>1, <3>2
  <2>9. /\ h[u] = f[u] + 1 /\ h[u] \in Int
        /\ \A t \in S : f[t] \in Int /\ (t # u => h[t] = f[t])
    BY <2>4, <2>7, <2>8
  <2>10. SumFunctionOnSet(h, S) # Cardinality(K)
    BY <2>1
  <2> HIDE DEF f, h, u, L
  <2>11. SumFunctionOnSet(h, S) = SumFunctionOnSet(f, S) + h[u] - f[u]
    BY <2>4, <2>9, SumChange
  <2> QED BY <2>4, <2>5, <2>6, <2>9, <2>10, <2>11
<1>2. J \in SUBSET J
  OBVIOUS
<1> QED BY <1>1, <1>2

\* Smaller terms, smaller sum.
LEMMA SumLeq ==
    ASSUME NEW S, IsFiniteSet(S), NEW f, NEW h,
           \A x \in S : f[x] \in Int /\ h[x] \in Int /\ f[x] <= h[x]
    PROVE  SumFunctionOnSet(f, S) <= SumFunctionOnSet(h, S)
<1> DEFINE B == {s \in SUBSET S : ~(SumFunctionOnSet(f, s) <= SumFunctionOnSet(h, s))}
<1>1. SUFFICES ASSUME B # {} PROVE FALSE
  OBVIOUS
<1>2. PICK s \in B : \A u \in B : u \subseteq s => u = s
  <2>1. B \subseteq SUBSET S
    OBVIOUS
  <2> HIDE DEF B
  <2> QED BY <1>1, <2>1, LeastSubset
<1>3. PICK x \in s : TRUE
  <2>1. SumFunctionOnSet(f, {}) = 0 /\ SumFunctionOnSet(h, {}) = 0
    BY SumEmpty
  <2>2. ~(SumFunctionOnSet(f, s) <= SumFunctionOnSet(h, s))
    BY <1>2
  <2>3. ASSUME s = {} PROVE FALSE
    BY <2>1, <2>2, <2>3
  <2> QED BY <2>3
<1>4. /\ s \ {x} \in SUBSET S /\ s \ {x} # s /\ s \ {x} \subseteq s /\ IsFiniteSet(s)
      /\ IsFiniteSet(s \ {x})
  BY <1>2, <1>3, FS_Subset
<1>5. SumFunctionOnSet(f, s \ {x}) <= SumFunctionOnSet(h, s \ {x})
  BY <1>2, <1>4
<1>6. SumFunctionOnSet(f, s \ {x}) \in Int /\ SumFunctionOnSet(h, s \ {x}) \in Int
  BY <1>4, SumInt
<1>7. ASSUME NEW k, \A y \in S : k[y] \in Int
      PROVE  SumFunctionOnSet(k, s) = k[x] + SumFunctionOnSet(k, s \ {x})
  BY <1>3, <1>4, <1>7, SumPick
<1>8. x \in S /\ f[x] \in Int /\ h[x] \in Int /\ f[x] <= h[x]
  BY <1>2, <1>3
<1>9. /\ SumFunctionOnSet(f, s) = f[x] + SumFunctionOnSet(f, s \ {x})
      /\ SumFunctionOnSet(h, s) = h[x] + SumFunctionOnSet(h, s \ {x})
  BY <1>7
<1>10. ~(SumFunctionOnSet(f, s) <= SumFunctionOnSet(h, s))
  BY <1>2
<1> HIDE DEF B
<1> QED BY <1>5, <1>6, <1>8, <1>9, <1>10

\* Equal terms add up to their product with the number of terms.
LEMMA SumConstant ==
    ASSUME NEW S, IsFiniteSet(S), NEW k \in Int, NEW f, \A x \in S : f[x] = k
    PROVE  SumFunctionOnSet(f, S) = Cardinality(S) * k
<1> DEFINE B == {s \in SUBSET S : SumFunctionOnSet(f, s) # Cardinality(s) * k}
<1>1. SUFFICES ASSUME B # {} PROVE FALSE
  OBVIOUS
<1>2. PICK s \in B : \A u \in B : u \subseteq s => u = s
  <2>1. B \subseteq SUBSET S
    OBVIOUS
  <2> HIDE DEF B
  <2> QED BY <1>1, <2>1, LeastSubset
<1>3. PICK x \in s : TRUE
  <2>1. SumFunctionOnSet(f, {}) = 0 /\ Cardinality({}) = 0 /\ 0 * k = 0
    BY SumEmpty, FS_EmptySet
  <2>2. SumFunctionOnSet(f, s) # Cardinality(s) * k
    BY <1>2
  <2>3. ASSUME s = {} PROVE FALSE
    BY <2>1, <2>2, <2>3
  <2> QED BY <2>3
<1>4. /\ s \ {x} \in SUBSET S /\ s \ {x} # s /\ s \ {x} \subseteq s /\ IsFiniteSet(s)
      /\ IsFiniteSet(s \ {x}) /\ s \subseteq S
  BY <1>2, <1>3, FS_Subset
<1>5. SumFunctionOnSet(f, s \ {x}) = Cardinality(s \ {x}) * k
  BY <1>2, <1>4
<1>6. Cardinality(s \ {x}) = Cardinality(s) - 1 /\ Cardinality(s) \in Nat
  BY <1>3, <1>4, FS_RemoveElement, FS_CardinalityType
<1>7. SumFunctionOnSet(f, s) = f[x] + SumFunctionOnSet(f, s \ {x})
  <2>1. \A y \in s : f[y] \in Int
    BY <1>4
  <2> QED BY <2>1, <1>3, <1>4, SumPick
<1>8. f[x] = k
  BY <1>3, <1>4
<1>9. SumFunctionOnSet(f, s) # Cardinality(s) * k
  BY <1>2
<1>10. ASSUME NEW n \in Nat PROVE k + (n - 1) * k = n * k
  OBVIOUS
<1> HIDE DEF B
<1> QED BY <1>5, <1>6, <1>7, <1>8, <1>9, <1>10
=============================================================================
