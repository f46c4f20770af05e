----------------------------- MODULE FiniteSums -----------------------------
(***************************************************************************)
(* Sums of functions over finite sets: lemmas about SumFunctionOnSet of    *)
(* the community modules.  It is defined by recursion over the subsets of  *)
(* the set, so the first thing to show is that such a function exists.     *)
(* All inductions are over the subsets of a finite set: of those for which *)
(* the goal fails one would be the smallest.                               *)
(***************************************************************************)
EXTENDS Integers, FiniteSets, Functions, FiniteSetTheorems, WellFoundedInduction, TLAPS

\* Of a set of subsets of a finite set, one has no other inside.
LEMMA SmallestSubset ==
    ASSUME NEW S, IsFiniteSet(S), NEW T, T \subseteq SUBSET S, T # {}
    PROVE  \E x \in T : \A y \in T : y \subseteq x => y = x
<1> DEFINE R == StrictSubsetOrdering(S)
<1>1. IsWellFoundedOn(R, SUBSET S)
  BY FS_StrictSubsetOrderingWellFounded, FS_FiniteSubsetsOfFinite
<1>2. \E x \in T : \A y \in T : ~(<<y, x>> \in R)
  <2> HIDE DEF R
  <2> QED BY <1>1, WFMin
<1>3. \A x, y \in T : y \subseteq x /\ y # x => <<y, x>> \in R
  BY DEF StrictSubsetOrdering
<1> QED BY <1>2, <1>3

-----------------------------------------------------------------------------
(***************************************************************************)
(* The recursion.                                                          *)
(***************************************************************************)
\* The element a sum adds first, and the rest.
First(s) == CHOOSE x \in s : TRUE
Rest(s) == s \ {First(s)}

\* f[s] is the sum of w over s, for every subset s of S.
Adds(f, w, S) ==
    f = [s \in SUBSET S |-> IF s = {} THEN 0 ELSE w[First(s)] + f[Rest(s)]]

LEMMA RestIsSmaller ==
    ASSUME NEW s, s # {}
    PROVE  First(s) \in s /\ Rest(s) \subseteq s /\ Rest(s) # s
BY DEF First, Rest

\* Such functions agree where both are defined.
LEMMA AddsAgree ==
    ASSUME NEW S, IsFiniteSet(S), NEW U, NEW w, NEW f, NEW g, Adds(f, w, S), Adds(g, w, U),
           NEW s \in SUBSET (S \cap U)
    PROVE  f[s] = g[s]
<1> DEFINE T == {t \in SUBSET (S \cap U) : f[t] # g[t]}
<1> SUFFICES ASSUME T # {} PROVE FALSE
  OBVIOUS
<1>1. PICK x \in T : \A y \in T : y \subseteq x => y = x
  <2>1. T \subseteq SUBSET S OBVIOUS
  <2> HIDE DEF T
  <2> QED BY <2>1, SmallestSubset
<1>2. /\ f[x] = IF x = {} THEN 0 ELSE w[First(x)] + f[Rest(x)]
      /\ g[x] = IF x = {} THEN 0 ELSE w[First(x)] + g[Rest(x)]
  BY DEF Adds
<1>3. x # {} BY <1>2
<1>4. Rest(x) \subseteq x /\ Rest(x) # x BY <1>3, RestIsSmaller
<1>5. f[Rest(x)] = g[Rest(x)] BY <1>1, <1>4
<1> QED BY <1>2, <1>3, <1>5

\* There is one.
LEMMA AddsExists ==
    ASSUME NEW S, IsFiniteSet(S), NEW w
    PROVE  \E f : Adds(f, w, S)
<1> DEFINE T == {s \in SUBSET S : ~\E f : Adds(f, w, s)}
<1> SUFFICES ASSUME T # {} PROVE FALSE
  OBVIOUS
<1>1. PICK x \in T : \A y \in T : y \subseteq x => y = x
  <2>1. T \subseteq SUBSET S OBVIOUS
  <2> HIDE DEF T
  <2> QED BY <2>1, SmallestSubset
<1> DEFINE G(s) == CHOOSE f : Adds(f, w, s)
           h == [s \in SUBSET x |-> IF s = {} THEN 0 ELSE w[First(s)] + G(Rest(s))[Rest(s)]]
<1>2. \A s \in SUBSET x : s # x => Adds(G(s), w, s)
  <2> TAKE s \in SUBSET x
  <2> HAVE s # x
  <2>1. \E f : Adds(f, w, s) BY <1>1
  <2> QED BY <2>1
<1> HIDE DEF G
<1>3. \A s \in SUBSET x : s # {} => h[Rest(s)] = G(Rest(s))[Rest(s)]
  <2> TAKE s \in SUBSET x
  <2> HAVE s # {}
  <2> DEFINE r == Rest(s)
  <2>1. r \in SUBSET x /\ r # x BY RestIsSmaller
  <2>2. Adds(G(r), w, r) BY <1>2, <2>1
  <2>3. G(r)[r] = IF r = {} THEN 0 ELSE w[First(r)] + G(r)[Rest(r)] BY <2>2 DEF Adds
  <2>4. r # {} => G(r)[Rest(r)] = G(Rest(r))[Rest(r)]
    <3> HAVE r # {}
    <3>1. Rest(r) \in SUBSET x /\ Rest(r) # x /\ Rest(r) \subseteq r /\ r \in SUBSET S
      BY <2>1, RestIsSmaller
    <3>2. Adds(G(Rest(r)), w, Rest(r)) BY <1>2, <3>1
    <3>3. IsFiniteSet(r) BY <3>1, FS_Subset
    <3> QED BY <2>2, <3>1, <3>2, <3>3, AddsAgree
  <2>5. h[r] = IF r = {} THEN 0 ELSE w[First(r)] + G(Rest(r))[Rest(r)] BY <2>1
  <2> QED BY <2>3, <2>4, <2>5
<1>4. Adds(h, w, x)
  <2>1. \A s \in SUBSET x : h[s] = IF s = {} THEN 0 ELSE w[First(s)] + h[Rest(s)] BY <1>3
  <2>2. h = [s \in SUBSET x |-> h[s]] OBVIOUS
  <2> HIDE DEF h
  <2> QED BY <2>1, <2>2 DEF Adds
<1> QED BY <1>4

\* It is what SumFunctionOnSet() chooses.
LEMMA SumIs ==
    ASSUME NEW S, IsFiniteSet(S), NEW w
    PROVE  \E f : Adds(f, w, S) /\ SumFunctionOnSet(w, S) = f[S]
<1> DEFINE F(f) == f = [s \in SUBSET S |-> IF s = {} THEN 0
                          ELSE w[CHOOSE x \in s : TRUE] + f[s \ {CHOOSE x \in s : TRUE}]]
           g == CHOOSE f : F(f)
<1>1. \A f : F(f) <=> Adds(f, w, S) BY DEF Adds, First, Rest
<1>2. SumFunctionOnSet(w, S) = g[S]
  BY DEF SumFunctionOnSet, FoldFunctionOnSet, MapThenFoldSet
<1>3. \E f : Adds(f, w, S) BY AddsExists
<1> HIDE DEF F
<1>4. F(g) BY <1>1, <1>3
<1> QED BY <1>1, <1>2, <1>4

\* One function gives the sums over all subsets.
LEMMA SumsOf ==
    ASSUME NEW S, IsFiniteSet(S), NEW w, NEW f, Adds(f, w, S), NEW s \in SUBSET S
    PROVE  SumFunctionOnSet(w, s) = f[s]
<1>1. IsFiniteSet(s) BY FS_Subset
<1>2. PICK g : Adds(g, w, s) /\ SumFunctionOnSet(w, s) = g[s] BY <1>1, SumIs
<1> QED BY <1>1, <1>2, AddsAgree

-----------------------------------------------------------------------------
(***************************************************************************)
(* The sum.                                                                *)
(***************************************************************************)
LEMMA SumRecursive ==
    ASSUME NEW S, IsFiniteSet(S), NEW w
    PROVE  SumFunctionOnSet(w, S) =
               IF S = {} THEN 0 ELSE w[First(S)] + SumFunctionOnSet(w, Rest(S))
<1>1. PICK f : Adds(f, w, S) BY AddsExists
<1>2. f[S] = IF S = {} THEN 0 ELSE w[First(S)] + f[Rest(S)] BY <1>1 DEF Adds
<1>3. SumFunctionOnSet(w, S) = f[S] BY <1>1, SumsOf
<1>4. S # {} => SumFunctionOnSet(w, Rest(S)) = f[Rest(S)] BY <1>1, RestIsSmaller, SumsOf
<1> QED BY <1>2, <1>3, <1>4

LEMMA SumEmpty ==
    ASSUME NEW w
    PROVE  SumFunctionOnSet(w, {}) = 0
BY SumRecursive, FS_EmptySet

LEMMA SumNat ==
    ASSUME NEW S, IsFiniteSet(S), NEW w, \A x \in S : w[x] \in Nat
    PROVE  SumFunctionOnSet(w, S) \in Nat
<1> DEFINE T == {s \in SUBSET S : SumFunctionOnSet(w, s) \notin Nat}
<1> SUFFICES ASSUME T # {} PROVE FALSE
  OBVIOUS
<1>1. PICK x \in T : \A y \in T : y \subseteq x => y = x
  <2>1. T \subseteq SUBSET S OBVIOUS
  <2> HIDE DEF T
  <2> QED BY <2>1, SmallestSubset
<1>2. IsFiniteSet(x) BY FS_Subset
<1>3. SumFunctionOnSet(w, x) = IF x = {} THEN 0 ELSE w[First(x)] + SumFunctionOnSet(w, Rest(x))
  BY <1>2, SumRecursive
<1>4. x # {} BY <1>3
<1>5. First(x) \in S /\ SumFunctionOnSet(w, Rest(x)) \in Nat BY <1>1, <1>4, RestIsSmaller
<1> QED BY <1>3, <1>4, <1>5

\* Nothing adds up to nothing.
LEMMA SumZero ==
    ASSUME NEW S, IsFiniteSet(S), NEW w, \A x \in S : w[x] = 0
    PROVE  SumFunctionOnSet(w, S) = 0
<1> DEFINE T == {s \in SUBSET S : SumFunctionOnSet(w, s) # 0}
<1> SUFFICES ASSUME T # {} PROVE FALSE
  OBVIOUS
<1>1. PICK x \in T : \A y \in T : y \subseteq x => y = x
  <2>1. T \subseteq SUBSET S OBVIOUS
  <2> HIDE DEF T
  <2> QED BY <2>1, SmallestSubset
<1>2. IsFiniteSet(x) BY FS_Subset
<1>3. SumFunctionOnSet(w, x) = IF x = {} THEN 0 ELSE w[First(x)] + SumFunctionOnSet(w, Rest(x))
  BY <1>2, SumRecursive
<1>4. x # {} BY <1>3
<1>5. First(x) \in S /\ SumFunctionOnSet(w, Rest(x)) = 0 BY <1>1, <1>4, RestIsSmaller
<1> QED BY <1>3, <1>5

\* Any element can be taken out first.
LEMMA SumRemove ==
    ASSUME NEW S, IsFiniteSet(S), NEW w, \A x \in S : w[x] \in Nat, NEW a \in S
    PROVE  SumFunctionOnSet(w, S) = w[a] + SumFunctionOnSet(w, S \ {a})
<1> DEFINE Sum(s) == SumFunctionOnSet(w, s)
           Bad(s) == \E b \in s : Sum(s) # w[b] + Sum(s \ {b})
           T == {s \in SUBSET S : Bad(s)}
<1> SUFFICES ASSUME T # {} PROVE FALSE
  OBVIOUS
<1>1. PICK x \in T : \A y \in T : y \subseteq x => y = x
  <2>1. T \subseteq SUBSET S OBVIOUS
  <2> HIDE DEF T
  <2> QED BY <2>1, SmallestSubset
<1>2. PICK b \in x : Sum(x) # w[b] + Sum(x \ {b}) BY <1>1
<1> DEFINE p == First(x)
<1>3. p \in x /\ x \subseteq S /\ IsFiniteSet(x) BY <1>1, <1>2, RestIsSmaller, FS_Subset
<1>4. Sum(x) = w[p] + Sum(x \ {p}) BY <1>2, <1>3, SumRecursive DEF Rest
<1>5. p # b BY <1>2, <1>4
<1>6. \A c, d \in x : c # d => Sum(x \ {c}) = w[d] + Sum((x \ {c}) \ {d})
  <2> TAKE c, d \in x
  <2> HAVE c # d
  <2>1. x \ {c} \subseteq x /\ x \ {c} # x OBVIOUS
  <2>2. ~Bad(x \ {c}) BY <1>1, <1>3, <2>1
  <2> QED BY <2>2
<1>7. (x \ {p}) \ {b} = (x \ {b}) \ {p} OBVIOUS
<1> DEFINE r == Sum((x \ {b}) \ {p})
<1>8. Sum(x) = w[p] + (w[b] + r) /\ Sum(x \ {b}) = w[p] + r
  BY <1>2, <1>3, <1>4, <1>5, <1>6, <1>7
<1>9. w[p] \in Nat /\ w[b] \in Nat /\ r \in Nat
  <2>1. IsFiniteSet((x \ {b}) \ {p}) BY <1>3, FS_Subset
  <2> QED BY <1>2, <1>3, <2>1, SumNat
<1> HIDE DEF r, Sum, p
<1> QED BY <1>2, <1>8, <1>9

\* Two functions that agree on the set have the same sum.
LEMMA SumSame ==
    ASSUME NEW S, IsFiniteSet(S), NEW w, NEW v, \A x \in S : w[x] = v[x]
    PROVE  SumFunctionOnSet(w, S) = SumFunctionOnSet(v, S)
<1> DEFINE T == {s \in SUBSET S : SumFunctionOnSet(w, s) # SumFunctionOnSet(v, s)}
<1> SUFFICES ASSUME T # {} PROVE FALSE
  OBVIOUS
<1>1. PICK x \in T : \A y \in T : y \subseteq x => y = x
  <2>1. T \subseteq SUBSET S OBVIOUS
  <2> HIDE DEF T
  <2> QED BY <2>1, SmallestSubset
<1>2. IsFiniteSet(x) BY FS_Subset
<1>3. /\ SumFunctionOnSet(w, x) = IF x = {} THEN 0 ELSE w[First(x)] + SumFunctionOnSet(w, Rest(x))
      /\ SumFunctionOnSet(v, x) = IF x = {} THEN 0 ELSE v[First(x)] + SumFunctionOnSet(v, Rest(x))
  BY <1>2, SumRecursive
<1>4. x # {} BY <1>3
<1>5. First(x) \in S /\ SumFunctionOnSet(w, Rest(x)) = SumFunctionOnSet(v, Rest(x))
  BY <1>1, <1>4, RestIsSmaller
<1> QED BY <1>3, <1>4, <1>5

\* One value changes.
LEMMA SumChange ==
    ASSUME NEW S, IsFiniteSet(S), NEW w, NEW v, NEW a \in S,
           \A x \in S : w[x] \in Nat /\ v[x] \in Nat, \A x \in S \ {a} : w[x] = v[x]
    PROVE  SumFunctionOnSet(v, S) = SumFunctionOnSet(w, S) - w[a] + v[a]
<1> DEFINE R == S \ {a}
<1>1. IsFiniteSet(R) BY FS_Subset
<1>2. SumFunctionOnSet(w, R) = SumFunctionOnSet(v, R) BY <1>1, SumSame
<1>3. SumFunctionOnSet(w, R) \in Nat BY <1>1, SumNat
<1>4. /\ SumFunctionOnSet(w, S) = w[a] + SumFunctionOnSet(w, R)
      /\ SumFunctionOnSet(v, S) = v[a] + SumFunctionOnSet(v, R)
  BY SumRemove
<1> QED BY <1>2, <1>3, <1>4

\* The sums of a part and of what is left.
LEMMA SumSplit ==
    ASSUME NEW S, IsFiniteSet(S), NEW w, \A x \in S : w[x] \in Nat, NEW A \in SUBSET S
    PROVE  SumFunctionOnSet(w, S) = SumFunctionOnSet(w, A) + SumFunctionOnSet(w, S \ A)
<1> DEFINE Sum(s) == SumFunctionOnSet(w, s)
           T == {s \in SUBSET A : Sum(S) # Sum(s) + Sum(S \ s)}
<1> SUFFICES ASSUME T # {} PROVE FALSE
  OBVIOUS
<1>0. IsFiniteSet(A) BY FS_Subset
<1>1. PICK x \in T : \A y \in T : y \subseteq x => y = x
  <2>1. T \subseteq SUBSET A OBVIOUS
  <2> HIDE DEF T
  <2> QED BY <1>0, <2>1, SmallestSubset
<1>2. x # {}
  <2>1. Sum({}) = 0 /\ S \ {} = S /\ Sum(S) \in Nat BY SumEmpty, SumNat
  <2>2. Sum(S) # Sum(x) + Sum(S \ x) BY <1>1
  <2> HIDE DEF Sum
  <2> QED BY <2>1, <2>2
<1>3. PICK a \in x : TRUE BY <1>2
<1> DEFINE y == x \ {a}
<1>4. /\ a \in S /\ a \in S \ y /\ (S \ y) \ {a} = S \ x /\ y \subseteq x /\ y # x
      /\ IsFiniteSet(x) /\ IsFiniteSet(y) /\ IsFiniteSet(S \ y) /\ IsFiniteSet(S \ x)
  BY <1>0, <1>1, <1>3, FS_Subset
<1>5. Sum(S) = Sum(y) + Sum(S \ y) BY <1>1, <1>4
<1>6. Sum(x) = w[a] + Sum(y) BY <1>3, <1>4, SumRemove
<1>7. Sum(S \ y) = w[a] + Sum(S \ x) BY <1>4, SumRemove
<1>8. w[a] \in Nat /\ Sum(y) \in Nat /\ Sum(S \ x) \in Nat BY <1>4, SumNat
<1>9. Sum(S) # Sum(x) + Sum(S \ x) BY <1>1
<1> HIDE DEF Sum, y
<1> QED BY <1>5, <1>6, <1>7, <1>8, <1>9

\* The smaller of two functions has the smaller sum.
LEMMA SumLess ==
    ASSUME NEW S, IsFiniteSet(S), NEW w, NEW v,
           \A x \in S : w[x] \in Nat /\ v[x] \in Nat /\ w[x] <= v[x]
    PROVE  SumFunctionOnSet(w, S) <= SumFunctionOnSet(v, S)
<1> DEFINE T == {s \in SUBSET S : ~(SumFunctionOnSet(w, s) <= SumFunctionOnSet(v, s))}
<1> SUFFICES ASSUME T # {} PROVE FALSE
  OBVIOUS
<1>1. PICK x \in T : \A y \in T : y \subseteq x => y = x
  <2>1. T \subseteq SUBSET S OBVIOUS
  <2> HIDE DEF T
  <2> QED BY <2>1, SmallestSubset
<1>2. IsFiniteSet(x) /\ IsFiniteSet(Rest(x)) BY FS_Subset DEF Rest
<1>3. /\ SumFunctionOnSet(w, x) = IF x = {} THEN 0 ELSE w[First(x)] + SumFunctionOnSet(w, Rest(x))
      /\ SumFunctionOnSet(v, x) = IF x = {} THEN 0 ELSE v[First(x)] + SumFunctionOnSet(v, Rest(x))
  BY <1>2, SumRecursive
<1>4. x # {} BY <1>3
<1>5. First(x) \in S /\ Rest(x) \subseteq S /\ SumFunctionOnSet(w, Rest(x)) <= SumFunctionOnSet(v, Rest(x))
  BY <1>1, <1>4, RestIsSmaller
<1>6. SumFunctionOnSet(w, Rest(x)) \in Nat /\ SumFunctionOnSet(v, Rest(x)) \in Nat
  BY <1>2, <1>5, SumNat
<1> QED BY <1>1, <1>3, <1>4, <1>5, <1>6

LEMMA SumPlus ==
    ASSUME NEW S, IsFiniteSet(S), NEW w, NEW v, NEW u,
           \A x \in S : w[x] \in Nat /\ v[x] \in Nat /\ u[x] = w[x] + v[x]
    PROVE  SumFunctionOnSet(u, S) = SumFunctionOnSet(w, S) + SumFunctionOnSet(v, S)
<1> DEFINE T == {s \in SUBSET S : SumFunctionOnSet(u, s) #
                                     SumFunctionOnSet(w, s) + SumFunctionOnSet(v, s)}
<1> SUFFICES ASSUME T # {} PROVE FALSE
  OBVIOUS
<1>1. PICK x \in T : \A y \in T : y \subseteq x => y = x
  <2>1. T \subseteq SUBSET S OBVIOUS
  <2> HIDE DEF T
  <2> QED BY <2>1, SmallestSubset
<1>2. IsFiniteSet(x) /\ IsFiniteSet(Rest(x)) BY FS_Subset DEF Rest
<1>3. /\ SumFunctionOnSet(w, x) = IF x = {} THEN 0 ELSE w[First(x)] + SumFunctionOnSet(w, Rest(x))
      /\ SumFunctionOnSet(v, x) = IF x = {} THEN 0 ELSE v[First(x)] + SumFunctionOnSet(v, Rest(x))
      /\ SumFunctionOnSet(u, x) = IF x = {} THEN 0 ELSE u[First(x)] + SumFunctionOnSet(u, Rest(x))
  BY <1>2, SumRecursive
<1>4. x # {} BY <1>3
<1>5. /\ First(x) \in S /\ Rest(x) \subseteq S
      /\ SumFunctionOnSet(u, Rest(x)) = SumFunctionOnSet(w, Rest(x)) + SumFunctionOnSet(v, Rest(x))
  BY <1>1, <1>4, RestIsSmaller
<1>6. SumFunctionOnSet(w, Rest(x)) \in Nat /\ SumFunctionOnSet(v, Rest(x)) \in Nat
  BY <1>2, <1>5, SumNat
<1> QED BY <1>1, <1>3, <1>4, <1>5, <1>6
=============================================================================
